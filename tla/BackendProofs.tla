--------------------------- MODULE BackendProofs ---------------------------
(***************************************************************************)
(* Theorems about the parts of the backend that Backend composes, each for *)
(* every value of its constants, and the reason why they hold of the       *)
(* backend as a whole: it behaves as each of its parts is specified.       *)
(***************************************************************************)
EXTENDS Backend, Arithmetic, SequenceTheorems, TLAPS

-----------------------------------------------------------------------------
(* The composition.                                                        *)

\* A step of the backend is a step of each of its parts, or leaves it alone.
LEMMA StepOfEach ==
  [BackendNext]_backendVars =>
    /\ [RequestsNext]_allRequestVars /\ [SessionsNext]_sessionVars
    /\ [MirrorNext]_mirrorVars /\ [WebhooksNext]_webhookVars
    /\ [AlertsNext]_alertVars /\ [ListingsNext]_listingVars
    /\ [MigrationsNext]_migrationVars /\ [LoanServiceNext]_serviceVars
    /\ [GateNext]_gateVars /\ [AppraisalsNext]_appraisalVars
    /\ [CurveNext]_curveVars
<1>1. UNCHANGED backendVars =>
        /\ UNCHANGED <<allRequestVars, sessionVars, mirrorVars, webhookVars>>
        /\ UNCHANGED <<alertVars, listingVars, migrationVars, serviceVars>>
        /\ UNCHANGED <<gateVars, appraisalVars, curveVars>>
  BY DEF backendVars
<1>. QED
  BY <1>1 DEF BackendNext, Follow, Others

\* None of the parts reads or writes the variables of another: the backend
\* (backend/src/index.ts and what it starts) behaves as each is specified, so
\* that whatever is proved of one of them holds of it.
THEOREM BackendImplementsItsParts ==
  BackendSpec => /\ RequestsSpec /\ SessionsSpec /\ MirrorSpec /\ WebhooksSpec
                 /\ AlertsSpec /\ ListingsSpec /\ MigrationsSpec
                 /\ LoanServiceSpec /\ GateSpec /\ AppraisalsSpec /\ CurveSpec
<1>1. BackendInit =>
        /\ RequestsInit /\ SessionsInit /\ MirrorInit /\ WebhooksInit
        /\ AlertsInit /\ ListingsInit /\ MigrationsInit
        /\ LoanServiceInit /\ GateInit /\ AppraisalsInit /\ CurveInit
  BY DEF BackendInit
<1>. QED
  BY <1>1, StepOfEach, PTL
     DEF BackendSpec, RequestsSpec, SessionsSpec, MirrorSpec, WebhooksSpec, AlertsSpec,
         ListingsSpec, MigrationsSpec, LoanServiceSpec, GateSpec, AppraisalsSpec, CurveSpec

-----------------------------------------------------------------------------
(* Sessions.                                                               *)

\* A session's nonce was drawn and is off the record.
SessionInv ==
  /\ DOMAIN challenges \subseteq drawn
  /\ \A t \in DOMAIN refreshTokens :
       refreshTokens[t].login \in drawn \ DOMAIN challenges
  /\ OneTokenPerLogin

\* Login and refresh: the token that is issued is the only one of its login.
LEMMA IssueKeeps ==
  ASSUME NEW t \in Tokens, NEW login, NEW kept,
         \A s \in DOMAIN kept : kept[s].login # login,
         \A r, s \in DOMAIN kept : kept[r].login = kept[s].login => r = s,
         IssueTokens(t, login, kept)
  PROVE  /\ OneTokenPerLogin'
         /\ drawn \subseteq drawn'
         /\ \A s \in DOMAIN refreshTokens' :
              \/ refreshTokens'[s].login = login
              \/ s \in DOMAIN kept /\ refreshTokens'[s].login = kept[s].login
<1>. DEFINE new == [login |-> login, exp |-> sessionClock + RefreshTtl]
<1>1. /\ refreshTokens' = With(kept, t, new) /\ new.login = login
      /\ drawn' = drawn \cup {t}
  BY DEF IssueTokens
<1>. HIDE DEF new
<1>2. /\ DOMAIN refreshTokens' = DOMAIN kept \cup {t}
      /\ \A s \in DOMAIN refreshTokens' :
           refreshTokens'[s] = IF s = t THEN new ELSE kept[s]
  BY <1>1 DEF With
<1>. QED
  BY <1>1, <1>2 DEF OneTokenPerLogin

LEMMA SessionStep ==
  SessionInv /\ [SessionsNext]_sessionVars => SessionInv'
<1>. SUFFICES ASSUME SessionInv, [SessionsNext]_sessionVars PROVE SessionInv'
  OBVIOUS
<1>. USE DEF SessionInv
<1>1. ASSUME NEW n \in Nonces, Challenge(n)
      PROVE  SessionInv'
  BY <1>1 DEF Challenge, With, OneTokenPerLogin
<1>2. ASSUME NEW n \in Nonces, LoginWithBadSignature(n)
      PROVE  SessionInv'
  BY <1>2 DEF LoginWithBadSignature, Without, OneTokenPerLogin
<1>3. ASSUME NEW n \in Nonces, NEW t \in Tokens, Login(n, t)
      PROVE  SessionInv'
  <2>1. /\ n \in DOMAIN challenges /\ IssueTokens(t, n, refreshTokens)
        /\ DOMAIN challenges' = DOMAIN challenges \ {n}
    BY <1>3 DEF Login, ChallengeAccepted, Without
  <2>. QED
    BY <2>1, IssueKeeps DEF OneTokenPerLogin
<1>4. ASSUME NEW old \in Tokens, NEW t \in Tokens, Refresh(old, t)
      PROVE  SessionInv'
  <2>. DEFINE login == refreshTokens[old].login
              kept == Without(refreshTokens, old)
  <2>1. /\ old \in DOMAIN refreshTokens /\ IssueTokens(t, login, kept)
        /\ UNCHANGED challenges
    BY <1>4 DEF Refresh
  <2>2. DOMAIN kept = DOMAIN refreshTokens \ {old}
        /\ \A s \in DOMAIN kept : kept[s] = refreshTokens[s]
    BY DEF Without
  <2>. HIDE DEF kept
  <2>. QED
    BY <2>1, <2>2, IssueKeeps DEF OneTokenPerLogin
<1>5. ASSUME NEW k \in ApiKeys, CreateApiKey(k) \/ RevokeApiKey(k)
      PROVE  SessionInv'
  BY <1>5 DEF CreateApiKey, RevokeApiKey, OneTokenPerLogin
<1>6. ASSUME SessionTick \/ UNCHANGED sessionVars
      PROVE  SessionInv'
  BY <1>6 DEF SessionTick, sessionVars, OneTokenPerLogin
<1>7. ASSUME SessionsLost
      PROVE  SessionInv'
  BY <1>7 DEF SessionsLost, Nothing, OneTokenPerLogin
<1>. QED
  BY <1>1, <1>2, <1>3, <1>4, <1>5, <1>6, <1>7 DEF SessionsNext

\* A signed challenge opens one session, and a session has one refresh token,
\* in whatever order nonces and tokens are presented again, for any number of
\* them (auth.ts).
THEOREM OneSessionPerLogin == SessionsSpec => []OneTokenPerLogin
<1>1. SessionsInit => SessionInv
  BY DEF SessionsInit, SessionInv, Nothing, OneTokenPerLogin
<1>2. SessionInv => OneTokenPerLogin
  BY DEF SessionInv
<1>. QED
  BY <1>1, <1>2, SessionStep, PTL DEF SessionsSpec

-----------------------------------------------------------------------------
(* Appraisals.                                                             *)

AppraisalInv == AppraisalsTypeOK /\ AppraisalsAgree

LEMMA AppraisalStep ==
  AppraisalInv /\ [AppraisalsNext]_appraisalVars => AppraisalInv'
<1>. SUFFICES ASSUME AppraisalInv, [AppraisalsNext]_appraisalVars PROVE AppraisalInv'
  OBVIOUS
<1>. USE DEF AppraisalInv
<1>0. AppraisalsTypeOK /\ AppraisalsAgree
  OBVIOUS
<1>1. ASSUME NEW v \in Worths, Appraise(v)
      PROVE  AppraisalInv'
  <2>1. /\ Len(history) < MaxAppraisals /\ worth' = v /\ history' = Append(history, v)
        /\ patched' = FALSE /\ listed' = listed
        /\ appraisal' = [value |-> v, old |-> FALSE, sent |-> FALSE]
        /\ keptHistory' = NoEntry
    BY <1>1 DEF Appraise, AddAppraisal, SetAppraisal, InvalidateHistory
  <2>2. /\ history' \in Seq(Worths) /\ Len(history') = Len(history) + 1
        /\ history'[Len(history')] = v
    BY <1>0, <2>1, AppendProperties DEF AppraisalsTypeOK
  <2>3. Len(history') \in 1 .. MaxAppraisals /\ worth' \in Worths
    BY <1>0, <2>1, <2>2, AppraisalsAssumption DEF AppraisalsTypeOK
  <2>4. appraisal' \in Appraisal
    BY <2>1 DEF Appraisal
  <2>5. {listed', patched'} \subseteq BOOLEAN
    BY <1>0, <2>1 DEF AppraisalsTypeOK
  <2>6. AppraisalsTypeOK'
    BY <2>1, <2>2, <2>3, <2>4, <2>5 DEF AppraisalsTypeOK
  <2>7. AppraisalsAgree'
    BY <2>1, <2>2 DEF AppraisalsAgree, Last
  <2>. QED
    BY <2>6, <2>7
<1>2. ASSUME NEW v \in Worths, UpdateCollateral(v)
      PROVE  AppraisalInv'
  BY <1>0, <1>2 DEF UpdateCollateral, AppraisalsTypeOK, AppraisalsAgree
<1>3. ASSUME NEW v \in Worths, SendAppraisal(v)
      PROVE  AppraisalInv'
  <2>1. /\ appraisal' = [value |-> v, old |-> FALSE, sent |-> TRUE]
        /\ UNCHANGED <<worth, listed, history, keptHistory, patched>>
    BY <1>3 DEF SendAppraisal, SetAppraisal
  <2>2. appraisal' \in Appraisal /\ appraisal'.sent
    BY <2>1 DEF Appraisal
  <2>. QED
    BY <1>0, <2>1, <2>2 DEF AppraisalsTypeOK, AppraisalsAgree
<1>4. ASSUME DeleteOrRestore
      PROVE  AppraisalInv'
  BY <1>0, <1>4 DEF DeleteOrRestore, AppraisalsTypeOK, AppraisalsAgree
<1>5. ASSUME GetAppraisalHistory \/ KeptExpires
      PROVE  AppraisalInv'
  BY <1>0, <1>5 DEF GetAppraisalHistory, KeptExpires, AppraisalsTypeOK, AppraisalsAgree
<1>6. ASSUME AppraisalAges
      PROVE  AppraisalInv'
  <2>1. /\ appraisal \in Appraisal /\ appraisal' = [appraisal EXCEPT !.old = TRUE]
        /\ UNCHANGED <<worth, listed, history, keptHistory, patched>>
    BY <1>0, <1>6 DEF AppraisalAges, GetAppraisal, AppraisalsTypeOK
  <2>2. /\ appraisal' \in Appraisal /\ appraisal'.value = appraisal.value
        /\ appraisal'.sent = appraisal.sent /\ appraisal # NoEntry
    BY <1>6, <2>1 DEF Appraisal, AppraisalAges, GetAppraisal
  <2>. QED
    BY <1>0, <2>1, <2>2 DEF AppraisalsTypeOK, AppraisalsAgree
<1>7. ASSUME InvalidateAll \/ UNCHANGED appraisalVars
      PROVE  AppraisalInv'
  BY <1>0, <1>7 DEF InvalidateAll, appraisalVars, AppraisalsTypeOK, AppraisalsAgree
<1>. QED
  BY <1>1, <1>2, <1>3, <1>4, <1>5, <1>6, <1>7 DEF AppraisalsNext

\* The record of a collateral, its history, the history that is answered from
\* the cache and the appraisal cache agree, through appraisals, deletions,
\* expiries and price updates in any number and order, unless PATCH has
\* changed the value or a borrower has sent it.
THEOREM AppraisalsStayTogether == AppraisalsSpec => []AppraisalsAgree
<1>1. AppraisalsInit => AppraisalInv
  <2>. SUFFICES ASSUME AppraisalsInit PROVE AppraisalInv
    OBVIOUS
  <2>1. history \in Seq(Worths) /\ Len(history) = 1 /\ history[1] = worth
    BY DEF AppraisalsInit
  <2>2. worth \in Worths /\ 1 \in 1 .. MaxAppraisals
    BY AppraisalsAssumption DEF AppraisalsInit
  <2>3. {listed, patched} \subseteq BOOLEAN /\ keptHistory = NoEntry /\ appraisal = NoEntry
    BY DEF AppraisalsInit
  <2>4. AppraisalsTypeOK
    BY <2>1, <2>2, <2>3 DEF AppraisalsTypeOK
  <2>5. AppraisalsAgree
    BY <2>1, <2>3 DEF AppraisalsAgree, Last
  <2>. QED
    BY <2>4, <2>5 DEF AppraisalInv
<1>2. AppraisalInv => AppraisalsAgree
  BY DEF AppraisalInv
<1>. QED
  BY <1>1, <1>2, AppraisalStep, PTL DEF AppraisalsSpec

-----------------------------------------------------------------------------
(* Webhooks.                                                               *)

\* An attempt that is under way has no copy yet; one that was accepted is over.
Sound(entry) ==
  /\ entry \in Delivery /\ entry.copies <= entry.attempts
  /\ entry.stage = "sent" => entry.copies < entry.attempts
  /\ entry.stage = "backoff" => entry.attempts < DeliveryAttempts
  /\ entry.deliveredAt => entry.stage = "over"

\* The events that are yet to be fired have no delivery.
WebhookInv ==
  /\ hooks \subseteq hookIds /\ hookIds \subseteq Hooks /\ fired \in 0 .. MaxFired
  /\ DOMAIN delivery = DeliveryIds
  /\ delivery = [d \in DOMAIN delivery |-> delivery[d]]
  /\ \A d \in DeliveryIds :
       /\ d[2] > fired => delivery[d] = NoDelivery
       /\ delivery[d] # NoDelivery => Sound(delivery[d])

\* What a step may make of a delivery that was accepted.
NoCopy(d) ==
  delivery[d] # NoDelivery /\ delivery[d].deliveredAt /\ delivery'[d] # NoDelivery
    => delivery'[d].copies = delivery[d].copies

\* A step of one delivery whose entry stays sound.
LEMMA DeliveryChanges ==
  ASSUME WebhookInv, NEW d \in DeliveryIds, delivery[d] # NoDelivery,
         NEW entry, ChangeDelivery(d, entry), Sound(entry),
         delivery[d].deliveredAt => entry.copies = delivery[d].copies
  PROVE  WebhookInv' /\ \A e \in DeliveryIds : NoCopy(e)
<1>1. /\ DOMAIN delivery' = DeliveryIds /\ delivery' = [e \in DOMAIN delivery' |-> delivery'[e]]
      /\ \A e \in DeliveryIds : delivery'[e] = IF e = d THEN entry ELSE delivery[e]
      /\ UNCHANGED <<hooks, hookIds, fired>>
  BY DEF ChangeDelivery, WebhookInv
<1>. QED
  BY <1>1 DEF WebhookInv, NoCopy

LEMMA WebhookStep ==
  ASSUME WebhookInv, WebhooksNext
  PROVE  WebhookInv' /\ \A d \in DeliveryIds : NoCopy(d)
<1>0. \A d \in DeliveryIds : d[2] \in 1 .. MaxFired
  BY DEF DeliveryIds
<1>1. ASSUME NEW h \in Hooks, RegisterWebhook(h) \/ DeleteWebhook(h)
      PROVE  WebhookInv' /\ \A d \in DeliveryIds : NoCopy(d)
  BY <1>1 DEF RegisterWebhook, DeleteWebhook, WebhookInv, NoCopy
<1>2. ASSUME FireWebhooks
      PROVE  WebhookInv' /\ \A d \in DeliveryIds : NoCopy(d)
  <2>. DEFINE new == [stage |-> "sent", attempts |-> 1, copies |-> 0, deliveredAt |-> FALSE]
  <2>1. Sound(new)
    BY WebhooksAssumption DEF Sound, Delivery
  <2>2. /\ DOMAIN delivery' = DeliveryIds
        /\ delivery' = [e \in DOMAIN delivery' |-> delivery'[e]]
        /\ \A d \in DeliveryIds :
             delivery'[d] = IF d[1] \in hooks /\ d[2] = fired + 1 THEN new ELSE delivery[d]
    BY <1>2 DEF FireWebhooks
  <2>3. fired < MaxFired /\ fired' = fired + 1 /\ UNCHANGED <<hooks, hookIds>>
    BY <1>2 DEF FireWebhooks
  <2>. HIDE DEF new
  <2>4. \A d \in DeliveryIds :
          /\ delivery[d] # NoDelivery => delivery'[d] = delivery[d]
          /\ delivery'[d] \in {new, delivery[d]}
          /\ d[2] > fired + 1 => delivery'[d] = delivery[d]
    BY <1>0, <2>2, <2>3, WebhooksAssumption DEF WebhookInv
  <2>. QED
    BY <1>0, <2>1, <2>2, <2>3, <2>4, WebhooksAssumption DEF WebhookInv, NoCopy
<1>3. ASSUME WebhooksLost
      PROVE  WebhookInv' /\ \A d \in DeliveryIds : NoCopy(d)
  BY <1>3 DEF WebhooksLost, NoDeliveries, WebhookInv, NoCopy
<1>4. ASSUME NEW d \in DeliveryIds, Arrives(d) \/ Accepted(d) \/ AttemptFails(d) \/ TryAgain(d)
      PROVE  WebhookInv' /\ \A e \in DeliveryIds : NoCopy(e)
  <2>1. delivery[d] # NoDelivery /\ Sound(delivery[d])
    BY <1>4 DEF Arrives, Accepted, AttemptFails, TryAgain, Stage, WebhookInv
  <2>2. AfterAttempt(d) \in {"backoff", "over"}
        /\ (AfterAttempt(d) = "backoff" => delivery[d].attempts < DeliveryAttempts)
    BY DEF AfterAttempt
  <2>3. PICK entry : /\ ChangeDelivery(d, entry) /\ Sound(entry)
                     /\ delivery[d].deliveredAt => entry.copies = delivery[d].copies
    <3>1. CASE Arrives(d)
      <4>. DEFINE entry == [delivery[d] EXCEPT !.stage = "received", !.copies = @ + 1]
      <4>1. ChangeDelivery(d, entry) /\ delivery[d].stage = "sent"
        BY <3>1 DEF Arrives, Stage
      <4>2. ~delivery[d].deliveredAt /\ delivery[d].copies + 1 \in 0 .. delivery[d].attempts
        BY <2>1, <4>1, WebhooksAssumption DEF Sound, Delivery
      <4>3. \A n \in 0 .. DeliveryAttempts :
              [delivery[d] EXCEPT !.stage = "received", !.copies = n] \in Delivery
        BY <2>1 DEF Sound, Delivery
      <4>4. delivery[d].copies + 1 \in 0 .. DeliveryAttempts
        BY <2>1, <4>2, WebhooksAssumption DEF Sound, Delivery
      <4>5. entry \in Delivery
        BY <4>3, <4>4
      <4>6. /\ entry.stage = "received" /\ entry.copies = delivery[d].copies + 1
            /\ entry.attempts = delivery[d].attempts
            /\ entry.deliveredAt = delivery[d].deliveredAt
        BY <2>1 DEF Sound, Delivery
      <4>. HIDE DEF entry
      <4>7. Sound(entry)
        BY <4>2, <4>5, <4>6 DEF Sound, Delivery
      <4>. QED
        BY <4>1, <4>2, <4>7
    <3>2. CASE Accepted(d)
      <4>. DEFINE entry == [delivery[d] EXCEPT !.stage = "over", !.deliveredAt = TRUE]
      <4>1. ChangeDelivery(d, entry)
        BY <3>2 DEF Accepted
      <4>2. Sound(entry) /\ entry.copies = delivery[d].copies
        BY <2>1, WebhooksAssumption DEF Sound, Delivery
      <4>. QED
        BY <4>1, <4>2
    <3>3. CASE AttemptFails(d)
      <4>. DEFINE entry == [delivery[d] EXCEPT !.stage = AfterAttempt(d)]
      <4>1. ChangeDelivery(d, entry) /\ delivery[d].stage \in {"sent", "received"}
        BY <3>3 DEF AttemptFails, Stage
      <4>2. Sound(entry) /\ entry.copies = delivery[d].copies
        BY <2>1, <2>2, <4>1, WebhooksAssumption DEF Sound, Delivery
      <4>. QED
        BY <4>1, <4>2
    <3>4. CASE TryAgain(d)
      <4>. DEFINE entry == [delivery[d] EXCEPT !.stage = "sent", !.attempts = @ + 1]
      <4>1. ChangeDelivery(d, entry) /\ delivery[d].stage = "backoff"
        BY <3>4 DEF TryAgain, Stage
      <4>2. delivery[d].attempts + 1 \in 1 .. DeliveryAttempts
        BY <2>1, <4>1, WebhooksAssumption DEF Sound, Delivery
      <4>3. \A n \in 1 .. DeliveryAttempts :
              [delivery[d] EXCEPT !.stage = "sent", !.attempts = n] \in Delivery
        BY <2>1 DEF Sound, Delivery
      <4>4. entry \in Delivery
        BY <4>2, <4>3
      <4>5. /\ entry.stage = "sent" /\ entry.copies = delivery[d].copies
            /\ entry.attempts = delivery[d].attempts + 1
            /\ entry.deliveredAt = delivery[d].deliveredAt
        BY <2>1 DEF Sound, Delivery
      <4>6. ~delivery[d].deliveredAt /\ delivery[d].copies < delivery[d].attempts + 1
        BY <2>1, <4>1, WebhooksAssumption DEF Sound, Delivery
      <4>. HIDE DEF entry
      <4>7. Sound(entry)
        BY <4>4, <4>5, <4>6 DEF Sound, Delivery
      <4>. QED
        BY <4>1, <4>5, <4>7
    <3>. QED
      BY <1>4, <3>1, <3>2, <3>3, <3>4
  <2>. QED
    BY <2>1, <2>3, DeliveryChanges
<1>. QED
  BY <1>1, <1>2, <1>3, <1>4 DEF WebhooksNext

LEMMA WebhookInvariant == WebhooksSpec => []WebhookInv
<1>1. WebhooksInit => WebhookInv
  BY WebhooksAssumption DEF WebhooksInit, NoDeliveries, WebhookInv
<1>2. WebhookInv /\ [WebhooksNext]_webhookVars => WebhookInv'
  <2>1. WebhookInv /\ UNCHANGED webhookVars => WebhookInv'
    BY DEF WebhookInv, webhookVars
  <2>. QED
    BY <2>1, WebhookStep
<1>. QED
  BY <1>1, <1>2, PTL DEF WebhooksSpec

\* The log of a delivery has as many attempts and copies as a delivery may
\* make, whatever fails, is lost or is deregistered meanwhile (webhooks.ts).
THEOREM WebhookTypes == WebhooksSpec => []WebhooksTypeOK
<1>1. WebhookInv => WebhooksTypeOK
  BY DEF WebhookInv, WebhooksTypeOK, Sound
<1>. QED
  BY <1>1, WebhookInvariant, PTL

\* No copy of an event is sent to a receiver after its acceptance was logged,
\* for any number of webhooks, events and attempts (attemptDelivery).
THEOREM AcceptedOnce == WebhooksSpec => NoCopyOnceAccepted
<1>1. WebhookInv /\ [WebhooksNext]_webhookVars =>
        [\A d \in DeliveryIds :
           delivery[d] # NoDelivery /\ delivery[d].deliveredAt /\ delivery'[d] # NoDelivery
             => delivery'[d].copies = delivery[d].copies]_webhookVars
  BY WebhookStep DEF NoCopy
<1>. QED
  BY <1>1, WebhookInvariant, PTL DEF WebhooksSpec, NoCopyOnceAccepted

-----------------------------------------------------------------------------
(* Alerts.                                                                 *)

\* The entries of the maps are not older than the runs that may have written
\* them; a level that was swallowed twice was swallowed by its own cooldown
\* the second time, as its rule was long quiet.
QuietSince(l) ==
  LET now == alertHour * Hour
  IN  /\ quiet[l] \in 0 .. 2
      /\ alertCooldowns[l] \in Int /\ lastFired[l] \in Int
      /\ alertCooldowns[l] <= now - Hour + MaxDelay
      /\ lastFired[l] <= now - Hour + MaxDelay + MaxLag
      /\ quiet[l] = 1 => lastFired[l] <= now - 2 * Hour + MaxDelay + MaxLag
      /\ quiet[l] = 2 => /\ lastFired[l] <= now - 3 * Hour + MaxDelay + MaxLag
                         /\ alertCooldowns[l] <= now - 2 * Hour + MaxDelay

AlertInv ==
  /\ alertHour \in 0 .. LastHour
  /\ {alertCooldowns, lastFired, quiet} \subseteq [Levels -> Int]
  /\ \A l \in Levels : QuietSince(l)

LEMMA AlertStep ==
  AlertInv /\ [AlertsNext]_alertVars => AlertInv'
<1>. SUFFICES ASSUME AlertInv, [AlertsNext]_alertVars PROVE AlertInv'
  OBVIOUS
<1>. DEFINE now == alertHour * Hour
<1>0. /\ Hour \in Nat /\ MaxDelay \in Nat /\ MaxLag \in Nat /\ MaxDelay + MaxLag < Hour
      /\ LastHour \in Nat /\ alertHour \in Nat
  BY AlertsAssumption DEF AlertInv
<1>1. now \in Nat /\ (alertHour' = alertHour + 1 => alertHour' * Hour = now + Hour)
  BY <1>0
<1>2. \A l \in Levels :
        /\ quiet[l] \in 0 .. 2 /\ alertCooldowns[l] \in Int /\ lastFired[l] \in Int
        /\ alertCooldowns[l] <= now - Hour + MaxDelay
        /\ lastFired[l] <= now - Hour + MaxDelay + MaxLag
        /\ quiet[l] = 1 => lastFired[l] <= now - 2 * Hour + MaxDelay + MaxLag
        /\ quiet[l] = 2 => /\ lastFired[l] <= now - 3 * Hour + MaxDelay + MaxLag
                           /\ alertCooldowns[l] <= now - 2 * Hour + MaxDelay
  BY DEF AlertInv, QuietSince
<1>3. ASSUME NEW level \in Levels, NEW delay \in 0 .. MaxDelay, NEW lag \in 0 .. MaxLag,
             RunAlerts(level, delay, lag)
      PROVE  AlertInv'
  <2>. DEFINE at == now + delay
  <2>1. /\ alertHour' = alertHour + 1 /\ alertHour < LastHour
        /\ MaybeAlert(level, at, lag)
        /\ quiet' = [l \in Levels |->
                       IF l = level /\ lastFired' = lastFired THEN quiet[l] + 1 ELSE 0]
    BY <1>3 DEF RunAlerts
  <2>2. at \in Nat /\ at + lag \in Nat /\ at <= now + MaxDelay
        /\ at + lag <= now + MaxDelay + MaxLag /\ at >= now
    BY <1>0, <1>1
  <2>. HIDE DEF now, at
  <2>3. /\ alertCooldowns' \in [Levels -> Int] /\ lastFired' \in [Levels -> Int]
        /\ \A l \in Levels \ {level} : /\ alertCooldowns'[l] = alertCooldowns[l]
                                       /\ lastFired'[l] = lastFired[l]
    <3>1. CASE IsOnCooldown(level, at)
      BY <2>1, <3>1 DEF MaybeAlert, AlertInv
    <3>2. CASE ~IsOnCooldown(level, at)
      BY <2>1, <2>2, <3>2 DEF MaybeAlert, FireAlert, AlertInv
    <3>. QED
      BY <3>1, <3>2
  \* Swallowed by the cooldown of the job, by that of the rule, or sent.
  <2>4. \/ /\ at - alertCooldowns[level] < Hour
           /\ alertCooldowns'[level] = alertCooldowns[level] /\ lastFired' = lastFired
        \/ /\ at - alertCooldowns[level] >= Hour /\ at + lag - lastFired[level] < Hour
           /\ alertCooldowns'[level] = at /\ lastFired' = lastFired
        \/ /\ at - alertCooldowns[level] >= Hour
           /\ alertCooldowns'[level] = at /\ lastFired'[level] = at + lag
           /\ at + lag - lastFired[level] >= Hour
    <3>1. CASE IsOnCooldown(level, at)
      BY <2>1, <3>1 DEF MaybeAlert, IsOnCooldown
    <3>2. CASE ~IsOnCooldown(level, at)
      <4>1. at - alertCooldowns[level] >= Hour
        BY <1>0, <1>2, <2>2, <3>2 DEF IsOnCooldown
      <4>2. alertCooldowns'[level] = at /\ FireAlert(level, at + lag)
        BY <2>1, <3>2 DEF MaybeAlert, AlertInv
      <4>3. CASE IsCoolingDown(level, at + lag)
        <5>1. at + lag - lastFired[level] < Hour
          BY <1>0, <1>2, <2>2, <4>3 DEF IsCoolingDown
        <5>2. lastFired' = lastFired
          BY <4>2, <4>3 DEF FireAlert
        <5>. QED
          BY <4>1, <4>2, <5>1, <5>2
      <4>4. CASE ~IsCoolingDown(level, at + lag)
        <5>1. at + lag - lastFired[level] >= Hour
          BY <1>0, <1>2, <2>2, <4>4 DEF IsCoolingDown
        <5>2. lastFired'[level] = at + lag
          BY <4>2, <4>4 DEF FireAlert, AlertInv
        <5>. QED
          BY <4>1, <4>2, <5>1, <5>2
      <4>. QED
        BY <4>3, <4>4
    <3>. QED
      BY <3>1, <3>2
  <2>5. ASSUME NEW l \in Levels
        PROVE  QuietSince(l)'
    <3>1. alertHour' * Hour = now + Hour
      BY <1>1, <2>1 DEF now
    <3>2. CASE l # level
      <4>1. quiet'[l] = 0 /\ alertCooldowns'[l] = alertCooldowns[l] /\ lastFired'[l] = lastFired[l]
        BY <2>1, <2>3, <3>2
      <4>. QED
        BY <1>0, <1>1, <1>2, <3>1, <4>1 DEF QuietSince, now
    <3>3. CASE l = level /\ lastFired' = lastFired
      <4>1. quiet'[l] = quiet[l] + 1 /\ lastFired'[l] = lastFired[l]
        BY <2>1, <3>3
      <4>2. \/ /\ at - alertCooldowns[l] < Hour
               /\ alertCooldowns'[l] = alertCooldowns[l]
            \/ /\ at - alertCooldowns[l] >= Hour /\ at + lag - lastFired[l] < Hour
               /\ alertCooldowns'[l] = at
        <5>1. at + lag - lastFired[level] >= Hour /\ lastFired'[level] = at + lag
                => lastFired'[level] # lastFired[level]
          BY <1>0, <1>2, <2>2
        <5>. QED
          BY <2>4, <3>3, <5>1
      <4>3. now \in Nat
        BY <1>1
      <4>4. quiet[l] # 2
        BY <1>0, <1>2, <2>2, <4>2, <4>3
      <4>5. quiet'[l] \in 1 .. 2 /\ alertCooldowns'[l] \in Int
            /\ alertCooldowns'[l] <= now + MaxDelay
            /\ lastFired'[l] <= now - Hour + MaxDelay + MaxLag
        BY <1>0, <1>2, <2>2, <4>1, <4>2, <4>3, <4>4
      <4>6. quiet'[l] = 2 => /\ lastFired'[l] <= now - 2 * Hour + MaxDelay + MaxLag
                             /\ alertCooldowns'[l] <= now - Hour + MaxDelay
        BY <1>0, <1>2, <2>2, <4>1, <4>2, <4>3, <4>4
      <4>. QED
        BY <1>0, <1>2, <3>1, <4>1, <4>3, <4>5, <4>6 DEF QuietSince
    <3>4. CASE l = level /\ lastFired' # lastFired
      <4>1. quiet'[l] = 0 /\ alertCooldowns'[l] = at /\ lastFired'[l] = at + lag
        BY <2>1, <2>4, <3>4
      <4>2. now \in Nat
        BY <1>1
      <4>. QED
        BY <1>0, <2>2, <3>1, <4>1, <4>2 DEF QuietSince
    <3>. QED
      BY <3>2, <3>3, <3>4
  <2>6. quiet' \in [Levels -> Int] /\ alertHour' \in 0 .. LastHour
    BY <1>0, <1>2, <2>1 DEF AlertInv
  <2>. QED
    BY <2>3, <2>5, <2>6 DEF AlertInv
<1>4. ASSUME RunQuietly
      PROVE  AlertInv'
  <2>1. /\ alertHour' = alertHour + 1 /\ alertHour < LastHour
        /\ quiet' = [l \in Levels |-> 0] /\ UNCHANGED <<alertCooldowns, lastFired>>
    BY <1>4 DEF RunQuietly
  <2>2. alertHour' * Hour = now + Hour
    BY <1>1, <2>1
  <2>. HIDE DEF now
  <2>3. \A l \in Levels : QuietSince(l)'
    BY <1>0, <1>1, <1>2, <2>1, <2>2 DEF QuietSince
  <2>. QED
    BY <1>0, <2>1, <2>3 DEF AlertInv
<1>5. CASE UNCHANGED alertVars
  BY <1>5 DEF alertVars, AlertInv, QuietSince
<1>. QED
  BY <1>3, <1>4, <1>5 DEF AlertsNext

\* At most two alerts in a row of a loan that stays below a threshold are
\* swallowed (maybeAlert, fireAlert), for every delay and lag that together
\* are shorter than the cooldown.
THEOREM ThirdRunAlerts == AlertsSpec => []AlertAtLeastEveryThirdRun
<1>1. AlertsInit => AlertInv
  <2>1. Hour \in Nat /\ MaxDelay \in Nat /\ MaxLag \in Nat /\ LastHour \in Nat
    BY AlertsAssumption
  <2>2. 0 * Hour = 0
    BY <2>1
  <2>. QED
    BY <2>1, <2>2 DEF AlertsInit, AlertInv, QuietSince, Never
<1>2. AlertInv => AlertAtLeastEveryThirdRun
  BY DEF AlertInv, QuietSince, AlertAtLeastEveryThirdRun
<1>. QED
  BY <1>1, <1>2, AlertStep, PTL DEF AlertsSpec

-----------------------------------------------------------------------------
(* The loan service.                                                       *)

\* The number a call is at: that of the last transaction of who signs it.
At(c) == ledger[Signer(calls[c].kind)]

\* No transaction is ahead of its account by more than one; and once one of a
\* call was taken, none of the call is ahead of it.
ServiceInv ==
  /\ LoanServiceTypeOK
  /\ \A c \in ServiceCalls, i \in Places :
       /\ calls[c].sequence[i] <= At(c) + 1
       /\ <<c, i>> \in accepted =>
            /\ calls[c].state = "answered"
            /\ \A j \in Places : /\ calls[c].sequence[j] <= At(c)
                                 /\ <<c, j>> \in accepted => i = j

LEMMA CallType ==
  ASSUME LoanServiceTypeOK, NEW c \in ServiceCalls
  PROVE  /\ calls[c] \in Call
         /\ calls[c].kind \in Kinds /\ Signer(calls[c].kind) \in Signers
         /\ calls[c].sequence \in [Places -> 0 .. MaxSequence + 1]
         /\ \A i \in Places : calls[c].sequence[i] \in Nat
         /\ At(c) \in 0 .. MaxSequence
<1>1. calls[c] \in Call
  BY DEF LoanServiceTypeOK
<1>2. calls[c].kind \in Kinds /\ calls[c].sequence \in [Places -> 0 .. MaxSequence + 1]
  BY <1>1 DEF Call
<1>3. Signer(calls[c].kind) \in Signers
  BY DEF Signer, Signers
<1>. QED
  BY <1>1, <1>2, <1>3 DEF At, LoanServiceTypeOK

\* A step of one call that has nothing on the ledger.
LEMMA CallChanges ==
  ASSUME ServiceInv, NEW c \in ServiceCalls, NEW new \in Call,
         calls[c].state # "answered",
         calls' = [calls EXCEPT ![c] = new],
         \A i \in Places : new.sequence[i] <= ledger[Signer(new.kind)] + 1,
         UNCHANGED <<ledger, accepted, value, told>>,
         announced' \subseteq announced \cup {c}, liquidated' \subseteq liquidated \cup {c},
         loanStatus' \in {loanStatus, "liquidated"}
  PROVE  ServiceInv'
<1>1. LoanServiceTypeOK'
  BY DEF ServiceInv, LoanServiceTypeOK
<1>2. \A e \in ServiceCalls : calls'[e] = IF e = c THEN new ELSE calls[e]
  BY DEF ServiceInv, LoanServiceTypeOK
<1>3. \A i \in Places : <<c, i>> \notin accepted
  BY DEF ServiceInv
<1>. QED
  BY <1>1, <1>2, <1>3 DEF ServiceInv, At

LEMMA ServiceStep ==
  ServiceInv /\ [LoanServiceNext]_serviceVars => ServiceInv'
<1>. SUFFICES ASSUME ServiceInv, [LoanServiceNext]_serviceVars PROVE ServiceInv'
  OBVIOUS
<1>0. LoanServiceTypeOK /\ BatchSize \in Nat /\ MaxSequence \in Nat
  BY LoanServiceAssumption DEF ServiceInv
<1>1. ASSUME NEW kind \in Kinds, NEW state \in {"building", "refused"}
      PROVE  /\ [Unused EXCEPT !.kind = kind, !.state = state] \in Call
             /\ \A i \in Places :
                  [Unused EXCEPT !.kind = kind, !.state = state].sequence[i] = 0
  <2>. DEFINE none == [i \in Places |-> 0]
  <2>1. none \in [Places -> 0 .. MaxSequence + 1] /\ \A i \in Places : none[i] = 0
    BY <1>0
  <2>2. Unused = [kind |-> "view", state |-> "idle", sequence |-> none]
    BY DEF Unused
  <2>. HIDE DEF none
  <2>3. Unused \in Call /\ Unused.sequence = none
    BY <2>1, <2>2 DEF Call, Kinds
  <2>4. [Unused EXCEPT !.kind = kind, !.state = state] \in Call
        /\ [Unused EXCEPT !.kind = kind, !.state = state].sequence = Unused.sequence
    BY <2>3 DEF Call
  <2>. QED
    BY <2>1, <2>3, <2>4
<1>2. ASSUME NEW c \in ServiceCalls, NEW kind \in Kinds, calls[c].state # "answered",
             Starts(c, kind) \/ Refused(c, kind),
             UNCHANGED <<ledger, accepted, announced, liquidated, loanStatus, value, told>>
      PROVE  ServiceInv'
  <2>1. PICK state \in {"building", "refused"} :
          calls' = [calls EXCEPT ![c] = [Unused EXCEPT !.kind = kind, !.state = state]]
    BY <1>2 DEF Starts, Refused
  <2>. DEFINE new == [Unused EXCEPT !.kind = kind, !.state = state]
  <2>2. new \in Call /\ \A i \in Places : new.sequence[i] = 0
    BY <1>1
  <2>. HIDE DEF new
  <2>3. ledger[Signer(new.kind)] \in Nat
    BY <1>0 DEF Signer, Signers, LoanServiceTypeOK
  <2>4. calls' = [calls EXCEPT ![c] = new]
    BY <2>1 DEF new
  <2>5. \A i \in Places : new.sequence[i] <= ledger[Signer(new.kind)] + 1
    BY <2>2, <2>3
  <2>6. /\ announced' \subseteq announced \cup {c} /\ liquidated' \subseteq liquidated \cup {c}
        /\ loanStatus' \in {loanStatus, "liquidated"}
        /\ UNCHANGED <<ledger, accepted, value, told>>
    BY <1>2
  <2>. QED
    BY <1>2, <2>2, <2>4, <2>5, <2>6, CallChanges
<1>3. ASSUME NEW c \in ServiceCalls, NEW kind \in Kinds, Received(c, kind)
      PROVE  ServiceInv'
  BY <1>2, <1>3 DEF Received
<1>4. ASSUME NEW c \in ServiceCalls, BuildFails(c)
      PROVE  ServiceInv'
  BY <1>0, <1>2, <1>4, CallType DEF BuildFails
<1>5. ASSUME NEW c \in ServiceCalls, NEW i \in Places, ReadAccount(c, i)
      PROVE  ServiceInv'
  <2>. DEFINE next == At(c) + 1
              new == [calls[c] EXCEPT !.sequence = [calls[c].sequence EXCEPT ![i] = next]]
  <2>1. calls[c].state = "building" /\ calls' = [calls EXCEPT ![c] = new]
        /\ UNCHANGED <<ledger, accepted, announced, liquidated, loanStatus, value, told>>
    BY <1>5 DEF ReadAccount, NextSequence, At
  <2>2. next \in 0 .. MaxSequence + 1 /\ calls[c] \in Call
        /\ calls[c].sequence \in [Places -> 0 .. MaxSequence + 1]
    BY <1>0, CallType
  <2>3. \A j \in Places : calls[c].sequence[j] <= next
    BY DEF ServiceInv
  <2>. HIDE DEF next
  <2>4. [calls[c].sequence EXCEPT ![i] = next] \in [Places -> 0 .. MaxSequence + 1]
    BY <2>2
  <2>5. \A s \in [Places -> 0 .. MaxSequence + 1] :
          /\ [calls[c] EXCEPT !.sequence = s] \in Call
          /\ [calls[c] EXCEPT !.sequence = s].sequence = s
          /\ [calls[c] EXCEPT !.sequence = s].kind = calls[c].kind
    BY <2>2 DEF Call
  <2>6. new \in Call /\ new.kind = calls[c].kind
        /\ \A j \in Places : new.sequence[j] <= next
    BY <1>0, <2>2, <2>3, <2>4, <2>5
  <2>. HIDE DEF new
  <2>7. \A j \in Places : new.sequence[j] <= ledger[Signer(new.kind)] + 1
    BY <2>6 DEF next, At
  <2>. QED
    BY <2>1, <2>6, <2>7, CallChanges
<1>6. ASSUME NEW c \in ServiceCalls, RegisteredOrViewed(c) \/ LoanTxBuilt(c) \/ LiquidationBuilt(c)
      PROVE  ServiceInv'
  <2>. DEFINE new == [calls[c] EXCEPT !.state = "answered"]
  <2>1. /\ calls[c].state = "building" /\ calls' = [calls EXCEPT ![c] = new]
        /\ UNCHANGED <<ledger, accepted, value, told>>
        /\ announced' \subseteq announced \cup {c} /\ liquidated' \subseteq liquidated \cup {c}
        /\ loanStatus' \in {loanStatus, "liquidated"}
    BY <1>6 DEF RegisteredOrViewed, LoanTxBuilt, LiquidationBuilt, AllBuilt
  <2>2. new \in Call /\ new.kind = calls[c].kind /\ new.sequence = calls[c].sequence
    BY <1>0, CallType DEF Call
  <2>. HIDE DEF new
  <2>3. \A i \in Places : new.sequence[i] <= ledger[Signer(new.kind)] + 1
    BY <2>2 DEF ServiceInv, At
  <2>. QED
    BY <2>1, <2>2, <2>3, CallChanges
<1>7. ASSUME NEW c \in ServiceCalls, NEW i \in Places, LedgerTakes(c, i)
      PROVE  ServiceInv'
  <2>. DEFINE a == Signer(calls[c].kind)
  <2>1. /\ calls[c].state = "answered" /\ calls[c].sequence[i] = ledger[a] + 1
        /\ ledger[a] < MaxSequence /\ ledger' = [ledger EXCEPT ![a] = ledger[a] + 1]
        /\ accepted' = accepted \cup {<<c, i>>}
        /\ UNCHANGED <<calls, announced, liquidated, loanStatus, value, told>>
    BY <1>7 DEF LedgerTakes
  <2>2. a \in Signers /\ ledger \in [Signers -> 0 .. MaxSequence]
    BY <1>0, CallType DEF LoanServiceTypeOK
  <2>. HIDE DEF a
  <2>3. /\ ledger' \in [Signers -> 0 .. MaxSequence] /\ ledger'[a] = ledger[a] + 1
        /\ \A b \in Signers : ledger'[b] >= ledger[b]
    BY <1>0, <2>1, <2>2
  <2>4. LoanServiceTypeOK'
    BY <1>0, <2>1, <2>3 DEF LoanServiceTypeOK
  <2>5. At(c)' = At(c) + 1
    BY <2>1, <2>3 DEF At, a
  <2>6. \A e \in ServiceCalls : At(e)' >= At(e) /\ At(e) \in Nat /\ At(e)' \in Nat
    BY <1>0, <2>1, <2>3, <2>4, CallType DEF At, LoanServiceTypeOK
  <2>7. \A e \in ServiceCalls, j \in Places :
          /\ calls[e].sequence[j] \in Nat /\ calls[e].sequence[j] <= At(e) + 1
          /\ calls'[e].sequence[j] = calls[e].sequence[j]
    BY <1>0, <2>1, CallType DEF ServiceInv
  <2>8. \A j \in Places : <<c, j>> \notin accepted
    <3>1. calls[c].sequence[i] = At(c) + 1 /\ At(c) \in Nat
      BY <2>1, <2>6 DEF At, a
    <3>2. \A j \in Places : <<c, j>> \in accepted => calls[c].sequence[i] <= At(c)
      BY DEF ServiceInv
    <3>. QED
      BY <3>1, <3>2
  <2>9. \A e \in ServiceCalls, j \in Places :
          <<e, j>> \in accepted' => <<e, j>> \in accepted \/ (e = c /\ j = i)
    BY <2>1
  <2>10. \A e \in ServiceCalls, j \in Places : calls'[e].sequence[j] <= At(e)' + 1
    BY <2>6, <2>7
  <2>11. ASSUME NEW e \in ServiceCalls, NEW j \in Places, <<e, j>> \in accepted'
         PROVE  /\ calls'[e].state = "answered"
                /\ \A k \in Places : /\ calls'[e].sequence[k] <= At(e)'
                                     /\ <<e, k>> \in accepted' => j = k
    <3>1. CASE e = c
      BY <2>1, <2>5, <2>7, <2>8, <2>9, <2>11, <3>1
    <3>2. CASE e # c
      <4>1. <<e, j>> \in accepted
        BY <2>9, <2>11, <3>2
      <4>2. /\ calls[e].state = "answered"
            /\ \A k \in Places : /\ calls[e].sequence[k] <= At(e)
                                 /\ <<e, k>> \in accepted => j = k
        BY <4>1 DEF ServiceInv
      <4>. QED
        BY <2>1, <2>6, <2>7, <2>9, <3>2, <4>2
    <3>. QED
      BY <3>1, <3>2
  <2>. QED
    BY <2>4, <2>10, <2>11 DEF ServiceInv
<1>8. ASSUME UNCHANGED <<calls, ledger, accepted, announced, liquidated>>,
             loanStatus' \in {loanStatus, "repaid"}, value' \in Values \cup {0, value},
             told' \in [ServiceCalls \X Places -> {"pending", "success"}]
      PROVE  ServiceInv'
  BY <1>8 DEF ServiceInv, LoanServiceTypeOK, At
<1>9. ASSUME NEW c \in ServiceCalls, NEW i \in Places, TellStatus(c, i)
      PROVE  ServiceInv'
  BY <1>0, <1>8, <1>9 DEF TellStatus, LoanServiceTypeOK
<1>10. ASSUME RepaidMeanwhile \/ (\E v \in Values \cup {0} : ValueChanges(v))
       PROVE  ServiceInv'
  BY <1>0, <1>8, <1>10 DEF RepaidMeanwhile, ValueChanges, LoanServiceTypeOK
<1>11. CASE UNCHANGED serviceVars
  BY <1>11 DEF serviceVars, ServiceInv, LoanServiceTypeOK, At
<1>. QED
  BY <1>3, <1>4, <1>5, <1>6, <1>7, <1>9, <1>10, <1>11
     DEF LoanServiceNext, RegisterCollateralV1, BatchRegisterCollateral, RequestNewLoan,
         RepayLoanV1, LiquidateLoanV1, GetLoanOnChain, GetHealthFactor, Kinds

\* The ledger takes at most one of the transactions of a call, however many
\* calls there are and however large a batch is (registerCollateral's batch):
\* the batch is never registered as a whole.
THEOREM OneOfABatch == LoanServiceSpec => []BatchTakenOnce
<1>1. LoanServiceInit => ServiceInv
  <2>. SUFFICES ASSUME LoanServiceInit PROVE ServiceInv
    OBVIOUS
  <2>1. Unused \in Call /\ \A i \in Places : Unused.sequence[i] = 0
    BY LoanServiceAssumption DEF Unused, Call, Kinds
  <2>2. LoanServiceTypeOK
    BY <2>1, LoanServiceAssumption DEF LoanServiceInit, LoanServiceTypeOK
  <2>3. \A c \in ServiceCalls : At(c) \in Nat
    BY <2>2, CallType
  <2>. QED
    BY <2>1, <2>2, <2>3 DEF LoanServiceInit, ServiceInv
<1>2. ServiceInv => BatchTakenOnce
  <2>. SUFFICES ASSUME ServiceInv, NEW c \in ServiceCalls
                PROVE  Cardinality({i \in Places : <<c, i>> \in accepted}) <= 1
    BY DEF BatchTakenOnce
  <2>. DEFINE taken == {i \in Places : <<c, i>> \in accepted}
  <2>1. taken = {} \/ \E i \in taken : taken = {i}
    BY DEF ServiceInv
  <2>. HIDE DEF taken
  <2>2. Cardinality(taken) <= 1
    <3>1. CASE taken = {}
      BY <3>1, FS_EmptySet
    <3>2. ASSUME NEW i \in taken, taken = {i}
          PROVE  Cardinality(taken) <= 1
      <4>1. Cardinality({i}) = 1
        BY FS_Singleton
      <4>. QED
        BY <3>2, <4>1
    <3>. QED
      BY <2>1, <3>1, <3>2
  <2>. QED
    BY <2>2 DEF taken
<1>. QED
  BY <1>1, <1>2, ServiceStep, PTL DEF LoanServiceSpec

-----------------------------------------------------------------------------
(* The HTTP server and its RPC calls.                                      *)

\* What a handler awaits: at most three calls of known methods, and one at
\* least unless it awaits something else first.
LEMMA HandlerCalls ==
  ASSUME NEW p \in Sends
  PROVE  /\ DOMAIN Handler(p).calls = 1 .. Len(Handler(p).calls)
         /\ Len(Handler(p).calls) \in 0 .. 3
         /\ ~Handler(p).first => Len(Handler(p).calls) # 0
         /\ Handler(p).calls = <<>> <=> Len(Handler(p).calls) = 0
         /\ \A i \in DOMAIN Handler(p).calls : Handler(p).calls[i] \in Methods \cup {Raw}
<1>. DEFINE Names == {"getAccount", "prepareTransaction", "simulateTransaction",
                      "getHealth", Raw}
            Shaped(h) == /\ h.calls \in Seq(Names) /\ Len(h.calls) \in 0 .. 3
                         /\ ~h.first => Len(h.calls) # 0
<1>1. Shaped(RegisterCollateral) /\ Shaped(RequestLoan) /\ Shaped(RepayLoan)
      /\ Shaped(LiquidateLoan) /\ Shaped(CreateLoan)
  BY DEF RegisterCollateral, RequestLoan, RepayLoan, LiquidateLoan, CreateLoan,
         HandlerRecord, BuildContractTx
<1>2. Shaped(PreviewRepayment)
  <2>1. Simulation \in Seq(Names) /\ Len(Simulation) = 2
    BY DEF Simulation
  <2>2. \A s \in Seq(Names), name \in Names :
          Append(s, name) \in Seq(Names) /\ Len(Append(s, name)) = Len(s) + 1
    BY AppendProperties
  <2>3. /\ Append(Simulation, "simulateTransaction") \in Seq(Names)
        /\ Len(Append(Simulation, "simulateTransaction")) = 3
    <3>1. "simulateTransaction" \in Names
      OBVIOUS
    <3>. DEFINE third == "simulateTransaction"
    <3>. HIDE DEF Names, third
    <3>2. /\ Append(Simulation, third) \in Seq(Names)
          /\ Len(Append(Simulation, third)) = Len(Simulation) + 1
      BY <2>1, <2>2, <3>1 DEF third
    <3>. QED
      BY <2>1, <3>2 DEF third
  <2>. QED
    BY <2>3 DEF PreviewRepayment, HandlerRecord
<1>3. Shaped(ShowLoan) /\ Shaped(ReadLoan) /\ Shaped(ReadHealth)
  BY DEF ShowLoan, ReadLoan, ReadHealth, HandlerRecord, Simulation
<1>4. Shaped(Upload) /\ Shaped(CheckHealth) /\ Shaped(CheckReady) /\ Shaped(CheckDeep)
  BY DEF Upload, CheckHealth, CheckReady, CheckDeep, HandlerRecord, Raw
<1>5. Handler(p) \in {RegisterCollateral, RequestLoan, RepayLoan, LiquidateLoan, CreateLoan,
                      PreviewRepayment, ShowLoan, ReadLoan, ReadHealth, Upload,
                      CheckHealth, CheckReady, CheckDeep}
  <2>1. Endpoint[p] \in DOMAIN Handlers
    BY RequestsAssumption
  <2>. QED
    BY <2>1 DEF Handler, Handlers
<1>6. Shaped(Handler(p))
  <2>. HIDE DEF Shaped
  <2>. QED
    BY <1>1, <1>2, <1>3, <1>4, <1>5
<1>7. DOMAIN Handler(p).calls = 1 .. Len(Handler(p).calls)
      /\ (Handler(p).calls = <<>> <=> Len(Handler(p).calls) = 0)
  BY <1>6, LenProperties, EmptySeq
<1>8. \A i \in DOMAIN Handler(p).calls : Handler(p).calls[i] \in Methods \cup {Raw}
  BY RequestsAssumption DEF Range
<1>. QED
  BY <1>6, <1>7, <1>8

\* A handler waits for exactly one call while it is at one, and for none
\* otherwise; an idempotency key of a repayment that was prepared is answered.
WaitsFor(c, r) == call[c] # Nobody /\ call[c].waiter = r

Linked ==
  \A r \in Requests :
    /\ (\E c \in Calls : WaitsFor(c, r)) <=> request[r] # None /\ request[r].step # 0
    /\ \A c, d \in Calls : WaitsFor(c, r) /\ WaitsFor(d, r) => c = d

RequestsInv ==
  /\ call \in [Calls -> CallRecord \cup {Nobody}]
  /\ request \in [Requests -> RequestRecord \cup {None}]
  /\ stored \in [Repays -> BOOLEAN]
  /\ inUse = Running
  /\ phase = "clean" => inUse = {}
  /\ \A p \in built : p \in Repays /\ stored[p]
  /\ Linked /\ NoRepayAgain

LEMMA CallAndRequestTypes ==
  ASSUME RequestsInv
  PROVE  /\ \A c \in Calls : call[c] # Nobody =>
              /\ call[c] \in CallRecord
              /\ call[c].waiter # Nobody => call[c].waiter \in Requests
         /\ \A r \in Requests : request[r] # None =>
              /\ request[r] \in RequestRecord
              /\ request[r].send \in Sends /\ request[r].step \in 0 .. 3
         /\ Nobody \notin Requests
  BY RequestsAssumption, RpcPoolAssumption DEF RequestsInv, CallRecord, RequestRecord

\* A call is made, and its connection taken.
LEMMA CallStarted ==
  ASSUME RequestsInv, NEW c \in Calls, NEW m \in Methods \cup {Raw}, NEW r \in Requests,
         StartCall(c, m, r)
  PROVE  /\ call' \in [Calls -> CallRecord \cup {Nobody}] /\ inUse' = Running'
         /\ \A d \in Calls, q \in Requests :
              WaitsFor(d, q)' <=> WaitsFor(d, q) \/ (d = c /\ q = r)
         /\ ~\E q \in Requests : WaitsFor(c, q)
<1>. DEFINE new == [method |-> m, attempt |-> 1, waiter |-> r]
<1>1. new \in CallRecord /\ new.waiter = r
  BY RequestsAssumption, RpcPoolAssumption DEF CallRecord
<1>2. /\ call[c] = Nobody /\ call' = [call EXCEPT ![c] = new] /\ inUse' = inUse \cup {c}
  BY DEF StartCall, Acquire
<1>. HIDE DEF new
<1>3. new # Nobody
  BY <1>1, RpcPoolAssumption
<1>4. \A d \in Calls : call'[d] = IF d = c THEN new ELSE call[d]
  BY <1>2 DEF RequestsInv
<1>5. inUse' = Running'
  BY <1>2, <1>3, <1>4 DEF Running, RequestsInv
<1>. QED
  BY <1>1, <1>2, <1>3, <1>4, <1>5 DEF WaitsFor, RequestsInv

\* A call ends, and its connection is given back.
LEMMA CallEnded ==
  ASSUME RequestsInv, NEW c \in Calls, CallSucceeds(c) \/ CallFails(c)
  PROVE  /\ call' \in [Calls -> CallRecord \cup {Nobody}] /\ inUse' = Running'
         /\ \A d \in Calls, q \in Requests : WaitsFor(d, q)' <=> WaitsFor(d, q) /\ d # c
<1>1. call' = [call EXCEPT ![c] = Nobody] /\ inUse' = inUse \ {c}
  BY DEF CallSucceeds, CallFails, Release
<1>2. \A d \in Calls : call'[d] = IF d = c THEN Nobody ELSE call[d]
  BY <1>1 DEF RequestsInv
<1>. QED
  BY <1>1, <1>2 DEF WaitsFor, Running, RequestsInv

\* A call changes and has a connection still; its caller may stop waiting.
LEMMA CallGoesOn ==
  ASSUME RequestsInv, NEW c \in Calls, call[c] # Nobody, NEW new \in CallRecord,
         call' = [call EXCEPT ![c] = new], UNCHANGED inUse
  PROVE  /\ call' \in [Calls -> CallRecord \cup {Nobody}] /\ inUse' = Running'
         /\ \A d \in Calls, q \in Requests :
              WaitsFor(d, q)' <=> IF d = c THEN new.waiter = q ELSE WaitsFor(d, q)
<1>1. \A d \in Calls : call'[d] = IF d = c THEN new ELSE call[d]
  BY DEF RequestsInv
<1>2. new # Nobody
  BY RpcPoolAssumption
<1>. QED
  BY <1>1, <1>2 DEF WaitsFor, Running, RequestsInv

\* What is kept of an answer or an error: a repayment that was prepared is
\* answered from now on.
LEMMA AnswerKeeps ==
  ASSUME RequestsInv, NEW r \in Requests, request[r] # None,
         Respond(r) \/ AnswerError(r)
  PROVE  /\ request' = [request EXCEPT ![r] = None]
         /\ stored' \in [Repays -> BOOLEAN]
         /\ \A p \in built' : p \in Repays /\ stored'[p]
<1>1. CASE AnswerError(r)
  BY <1>1 DEF AnswerError, Over, RequestsInv
<1>2. CASE Respond(r)
  <2>1. /\ request' = [request EXCEPT ![r] = None]
        /\ stored' = Stored(request[r])
        /\ built' = built \cup ({request[r].send} \cap Repays)
    BY <1>2 DEF Respond, Over
  <2>2. stored \in [Repays -> BOOLEAN] /\ \A p \in built : p \in Repays /\ stored[p]
    BY DEF RequestsInv
  <2>3. CASE request[r].send \in Repays
    <3>1. stored' = [stored EXCEPT ![request[r].send] = TRUE]
      BY <2>1, <2>3 DEF Stored
    <3>. QED
      BY <2>1, <2>2, <2>3, <3>1
  <2>4. CASE request[r].send \notin Repays
    <3>1. stored' = stored /\ built' = built
      BY <2>1, <2>4 DEF Stored
    <3>. QED
      BY <2>1, <2>2, <3>1
  <2>. QED
    BY <2>3, <2>4
<1>. QED
  BY <1>1, <1>2

\* A request that is over, and the calls that nobody waits for any more.
LEMMA RequestOver ==
  ASSUME RequestsInv, NEW r \in Requests,
         Respond(r) \/ AnswerError(r), request[r] # None, phase' = phase, phase # "clean",
         call' \in [Calls -> CallRecord \cup {Nobody}], inUse' = Running',
         \A d \in Calls, q \in Requests : WaitsFor(d, q)' <=> WaitsFor(d, q) /\ q # r
  PROVE  RequestsInv'
<1>1. /\ request' = [request EXCEPT ![r] = None]
      /\ stored' \in [Repays -> BOOLEAN]
      /\ \A p \in built' : p \in Repays /\ stored'[p]
  BY AnswerKeeps
<1>2. \A q \in Requests : request'[q] = IF q = r THEN None ELSE request[q]
  BY <1>1 DEF RequestsInv
<1>3. request' \in [Requests -> RequestRecord \cup {None}]
  BY <1>1 DEF RequestsInv
<1>4. Linked' /\ NoRepayAgain'
  BY <1>2 DEF RequestsInv, Linked, NoRepayAgain
<1>. QED
  BY <1>1, <1>3, <1>4 DEF RequestsInv

\* A request that goes on, or begins, at a step of its handler.
LEMMA RequestAt ==
  ASSUME RequestsInv, NEW r \in Requests, NEW new \in RequestRecord, ~new.again,
         request' = [request EXCEPT ![r] = new],
         UNCHANGED <<phase, stored, built>>, phase # "clean",
         call' \in [Calls -> CallRecord \cup {Nobody}], inUse' = Running',
         (\E d \in Calls : WaitsFor(d, r)') <=> new.step # 0,
         \A d, e \in Calls : WaitsFor(d, r)' /\ WaitsFor(e, r)' => d = e,
         \A d \in Calls, q \in Requests \ {r} : WaitsFor(d, q)' <=> WaitsFor(d, q)
  PROVE  RequestsInv'
<1>1. \A q \in Requests : request'[q] = IF q = r THEN new ELSE request[q]
  BY DEF RequestsInv
<1>2. request' \in [Requests -> RequestRecord \cup {None}]
  BY DEF RequestsInv
<1>3. new # None
  BY RequestsAssumption
<1>4. Linked' /\ NoRepayAgain'
  BY <1>1, <1>3 DEF RequestsInv, Linked, NoRepayAgain
<1>. QED
  BY <1>2, <1>4 DEF RequestsInv

\* A step of the server keeps each request linked to the call it awaits.
LEMMA RequestsStep ==
  RequestsInv /\ [RequestsNext]_allRequestVars => RequestsInv'
<1>. SUFFICES ASSUME RequestsInv, [RequestsNext]_allRequestVars PROVE RequestsInv'
  OBVIOUS
<1>0. /\ call \in [Calls -> CallRecord \cup {Nobody}]
      /\ request \in [Requests -> RequestRecord \cup {None}]
      /\ stored \in [Repays -> BOOLEAN]
      /\ inUse = Running /\ (phase = "clean" => inUse = {})
      /\ \A p \in built : p \in Repays /\ stored[p]
      /\ \A r \in Requests :
           /\ (\E c \in Calls : WaitsFor(c, r)) <=> request[r] # None /\ request[r].step # 0
           /\ \A c, d \in Calls : WaitsFor(c, r) /\ WaitsFor(d, r) => c = d
           /\ request[r] # None => ~request[r].again
  BY DEF RequestsInv, Linked, NoRepayAgain
<1>1. /\ \A c \in Calls : call[c] # Nobody =>
           /\ call[c] \in CallRecord
           /\ call[c].waiter # Nobody => call[c].waiter \in Requests
      /\ \A r \in Requests : request[r] # None =>
           /\ request[r] \in RequestRecord
           /\ request[r].send \in Sends /\ request[r].step \in 0 .. 3
      /\ Nobody \notin Requests
  BY CallAndRequestTypes
\* Nothing a call or a request depends on changes.
<1>2. ASSUME UNCHANGED <<call, inUse, request>>, phase' = "clean" => inUse = {},
             stored' \in [Repays -> BOOLEAN],
             \A p \in built' : p \in Repays /\ stored'[p]
      PROVE  RequestsInv'
  <2>1. Linked' /\ NoRepayAgain' /\ inUse' = Running'
    BY <1>0, <1>2 DEF RequestsInv, Linked, WaitsFor, NoRepayAgain, Running
  <2>. QED
    BY <1>0, <1>2, <2>1 DEF RequestsInv
<1>3. ASSUME UNCHANGED <<call, inUse, request, stored, built>>, phase' = "clean" => inUse = {}
      PROVE  RequestsInv'
  BY <1>0, <1>2, <1>3
\* A request comes in.
<1>4. ASSUME NEW r \in Requests, NEW p \in Sends, Comes(r, p)
      PROVE  /\ request[r] = None /\ p \notin built /\ phase # "clean"
             /\ \A c \in Calls : ~WaitsFor(c, r)
  BY <1>0, <1>4 DEF Comes, Alive
<1>5. ASSUME NEW r \in Requests, NEW p \in Sends, NEW step \in 0 .. 3,
             p \notin built, Handle(r, p, step)
      PROVE  \E new \in RequestRecord : /\ ~new.again /\ new.step = step
                                        /\ request' = [request EXCEPT ![r] = new]
  <2>. DEFINE new == [send |-> p, step |-> step, answered |-> FALSE, again |-> FALSE]
  <2>1. (p \in built) = FALSE
    BY <1>5
  <2>2. request' = [request EXCEPT ![r] = new]
    BY <1>5, <2>1 DEF Handle
  <2>3. new \in RequestRecord /\ ~new.again /\ new.step = step
    BY DEF RequestRecord
  <2>. QED
    BY <2>2, <2>3
<1>6. ASSUME NEW r \in Requests, NEW p \in Sends, Begin(r, p)
      PROVE  RequestsInv'
  <2>1. /\ Comes(r, p) /\ Handle(r, p, 1) /\ ~Handler(p).first
        /\ UNCHANGED <<phase, deduped, stored, built>>
    BY <1>6 DEF Begin
  <2>2. Handler(p).calls[1] \in Methods \cup {Raw}
    BY <2>1, HandlerCalls
  <2>3. PICK c \in Calls : StartCall(c, Handler(p).calls[1], r)
    BY <1>6 DEF Begin
  <2>4. /\ call' \in [Calls -> CallRecord \cup {Nobody}] /\ inUse' = Running'
        /\ \A d \in Calls, q \in Requests :
             WaitsFor(d, q)' <=> WaitsFor(d, q) \/ (d = c /\ q = r)
    BY <2>2, <2>3, CallStarted
  <2>5. PICK new \in RequestRecord : /\ ~new.again /\ new.step = 1
                                     /\ request' = [request EXCEPT ![r] = new]
    BY <1>4, <1>5, <2>1
  <2>6. /\ \A d \in Calls : WaitsFor(d, r)' <=> d = c
        /\ \A d \in Calls, q \in Requests \ {r} : WaitsFor(d, q)' <=> WaitsFor(d, q)
    BY <1>4, <2>1, <2>4
  <2>7. \E d \in Calls : WaitsFor(d, r)'
    BY <2>6
  <2>8. phase # "clean" /\ UNCHANGED <<phase, stored, built>> /\ new.step # 0
    BY <1>4, <2>1, <2>5
  <2>. QED
    BY <2>4, <2>5, <2>6, <2>7, <2>8, RequestAt
<1>7. ASSUME NEW r \in Requests, NEW p \in Sends, BeginRefused(r, p)
      PROVE  RequestsInv'
  BY <1>0, <1>3, <1>7 DEF BeginRefused, CallRefused, requestVars
<1>8. ASSUME NEW r \in Requests, NEW p \in Sends, BeginWaiting(r, p)
      PROVE  RequestsInv'
  <2>1. /\ Comes(r, p) /\ Handle(r, p, 0)
        /\ UNCHANGED <<call, inUse, phase, deduped, stored, built>>
    BY <1>8 DEF BeginWaiting, poolVars
  <2>2. /\ call' \in [Calls -> CallRecord \cup {Nobody}] /\ inUse' = Running'
        /\ \A d \in Calls, q \in Requests : WaitsFor(d, q)' <=> WaitsFor(d, q)
    BY <1>0, <2>1 DEF WaitsFor, Running
  <2>3. PICK new \in RequestRecord : /\ ~new.again /\ new.step = 0
                                     /\ request' = [request EXCEPT ![r] = new]
    BY <1>4, <1>5, <2>1
  <2>. QED
    BY <1>4, <2>1, <2>2, <2>3, RequestAt
<1>9. ASSUME NEW p \in Repays, RepayInvalid(p)
      PROVE  RequestsInv'
  <2>1. /\ phase = "up" /\ stored' = [stored EXCEPT ![p] = TRUE]
        /\ UNCHANGED <<call, inUse, request, phase, built>>
    BY <1>9 DEF RepayInvalid, poolVars
  <2>2. stored' \in [Repays -> BOOLEAN] /\ \A q \in built : q \in Repays /\ stored'[q]
    BY <1>0, <2>1
  <2>. QED
    BY <1>2, <2>1, <2>2
<1>10. ASSUME NEW p \in Repays, KeyExpires(p)
       PROVE  RequestsInv'
  <2>1. /\ phase # "clean" /\ stored' = [stored EXCEPT ![p] = FALSE]
        /\ built' = built \ {p} /\ UNCHANGED <<call, inUse, request, phase>>
    BY <1>10 DEF KeyExpires, poolVars, Alive
  <2>2. stored' \in [Repays -> BOOLEAN] /\ \A q \in built' : q \in Repays /\ stored'[q]
    BY <1>0, <2>1
  <2>. QED
    BY <1>2, <2>1, <2>2
<1>11. ASSUME NEW h \in Hashes, DedupExpires(h)
       PROVE  RequestsInv'
  BY <1>0, <1>3, <1>11 DEF DedupExpires, poolVars
\* A request changes at its step.
<1>12. ASSUME NEW r \in Requests, request[r] # None
       PROVE  /\ \A step \in 0 .. 3 : \E new \in RequestRecord :
                   /\ ~new.again /\ new.step = step
                   /\ new = [request[r] EXCEPT !.step = step]
              /\ \E new \in RequestRecord :
                   /\ ~new.again /\ new.step = request[r].step
                   /\ new = [request[r] EXCEPT !.answered = TRUE]
  <2>1. request[r] \in RequestRecord /\ ~request[r].again
    BY <1>0, <1>1, <1>12
  <2>2. ASSUME NEW step \in 0 .. 3
        PROVE  LET new == [request[r] EXCEPT !.step = step]
               IN  new \in RequestRecord /\ ~new.again /\ new.step = step
    BY <2>1 DEF RequestRecord
  <2>3. LET new == [request[r] EXCEPT !.answered = TRUE]
        IN  new \in RequestRecord /\ ~new.again /\ new.step = request[r].step
    BY <2>1 DEF RequestRecord
  <2>. QED
    BY <2>2, <2>3
<1>13. ASSUME NEW r \in Requests, TimeOut(r)
       PROVE  RequestsInv'
  <2>1. /\ phase # "clean" /\ request[r] # None
        /\ request' = [request EXCEPT ![r] = [request[r] EXCEPT !.answered = TRUE]]
        /\ UNCHANGED <<call, inUse, phase, stored, built>>
    BY <1>13 DEF TimeOut, poolVars, Alive
  <2>2. PICK new \in RequestRecord : /\ ~new.again /\ new.step = request[r].step
                                     /\ new = [request[r] EXCEPT !.answered = TRUE]
    BY <1>12, <2>1
  <2>3. /\ call' \in [Calls -> CallRecord \cup {Nobody}] /\ inUse' = Running'
        /\ \A d \in Calls, q \in Requests : WaitsFor(d, q)' <=> WaitsFor(d, q)
    BY <1>0, <2>1 DEF WaitsFor, Running
  <2>4. /\ (\E d \in Calls : WaitsFor(d, r)') <=> new.step # 0
        /\ \A d, e \in Calls : WaitsFor(d, r)' /\ WaitsFor(e, r)' => d = e
        /\ \A d \in Calls, q \in Requests \ {r} : WaitsFor(d, q)' <=> WaitsFor(d, q)
    BY <1>0, <2>1, <2>2, <2>3
  <2>5. request' = [request EXCEPT ![r] = new] /\ UNCHANGED <<phase, stored, built>>
    BY <2>1, <2>2
  <2>. QED
    BY <2>1, <2>2, <2>3, <2>4, <2>5, RequestAt
<1>14. ASSUME NEW r \in Requests, Waited(r)
       PROVE  RequestsInv'
  <2>1. /\ phase # "clean" /\ phase' = phase /\ request[r] # None /\ request[r].step = 0
        /\ \A c \in Calls : ~WaitsFor(c, r)
    BY <1>0, <1>14 DEF Waited, Alive
  <2>2. CASE UNCHANGED <<call, inUse>> /\ (Respond(r) \/ AnswerError(r))
    <3>1. /\ call' \in [Calls -> CallRecord \cup {Nobody}] /\ inUse' = Running'
          /\ \A d \in Calls, q \in Requests : WaitsFor(d, q)' <=> WaitsFor(d, q) /\ q # r
      BY <1>0, <2>1, <2>2 DEF WaitsFor, Running
    <3>. QED
      BY <2>1, <2>2, <3>1, RequestOver
  <2>3. CASE CallsOf(r) = <<>>
    BY <1>14, <2>2, <2>3 DEF Waited, poolVars
  <2>4. CASE CallsOf(r) # <<>> /\ CallRefused(CallsOf(r)[1]) /\ AnswerFailure(r, 1)
    BY <2>2, <2>4 DEF CallRefused, AnswerFailure
  <2>5. ASSUME CallsOf(r) # <<>>, NEW c \in Calls, StartCall(c, CallsOf(r)[1], r),
               request' = [request EXCEPT ![r].step = 1],
               UNCHANGED <<deduped, stored, built>>
        PROVE  RequestsInv'
    <3>1. CallsOf(r)[1] \in Methods \cup {Raw}
      BY <1>1, <2>1, <2>5, HandlerCalls DEF CallsOf
    <3>2. /\ call' \in [Calls -> CallRecord \cup {Nobody}] /\ inUse' = Running'
          /\ \A d \in Calls, q \in Requests :
               WaitsFor(d, q)' <=> WaitsFor(d, q) \/ (d = c /\ q = r)
      BY <2>5, <3>1, CallStarted
    <3>3. PICK new \in RequestRecord : /\ ~new.again /\ new.step = 1
                                       /\ new = [request[r] EXCEPT !.step = 1]
      BY <1>12, <2>1
    <3>4. request' = [request EXCEPT ![r] = new]
      BY <2>5, <3>3
    <3>5. /\ \A d \in Calls : WaitsFor(d, r)' <=> d = c
          /\ \A d \in Calls, q \in Requests \ {r} : WaitsFor(d, q)' <=> WaitsFor(d, q)
      BY <2>1, <3>2
    <3>6. \E d \in Calls : WaitsFor(d, r)'
      BY <3>5
    <3>7. phase # "clean" /\ UNCHANGED <<phase, stored, built>> /\ new.step # 0
      BY <2>1, <2>5, <3>3
    <3>. QED
      BY <3>2, <3>3, <3>4, <3>5, <3>6, <3>7, RequestAt
  <2>. QED
    BY <1>14, <2>3, <2>4, <2>5 DEF Waited
\* What an awaited call is, and who awaits it.
<1>15. ASSUME NEW c \in Calls, Awaited(c)
       PROVE  /\ phase # "clean" /\ Waiter(c) \in Requests /\ call[c] # Nobody
              /\ request[Waiter(c)] # None /\ WaitsFor(c, Waiter(c))
              /\ \A d \in Calls, q \in Requests :
                   /\ d # c => ~WaitsFor(d, Waiter(c))
                   /\ WaitsFor(c, q) <=> q = Waiter(c)
  <2>1. /\ phase # "clean" /\ call[c] # Nobody /\ Waiter(c) \in Requests
    BY <1>1, <1>15 DEF Awaited, Waiter, Alive
  <2>2. WaitsFor(c, Waiter(c)) /\ \A q \in Requests : WaitsFor(c, q) <=> q = Waiter(c)
    BY <2>1 DEF WaitsFor, Waiter
  <2>. QED
    BY <1>0, <2>1, <2>2
\* An awaited call ends or is given up, and so is its request.
<1>16. ASSUME NEW c \in Calls, Awaited(c), phase' = phase,
              CallSucceeds(c) \/ CallFails(c) \/ GiveUp(c),
              Respond(Waiter(c)) \/ AnswerError(Waiter(c))
       PROVE  RequestsInv'
  <2>. DEFINE r == Waiter(c)
  <2>1. /\ call' \in [Calls -> CallRecord \cup {Nobody}] /\ inUse' = Running'
        /\ \A d \in Calls, q \in Requests : WaitsFor(d, q)' <=> WaitsFor(d, q) /\ d # c
    <3>1. CASE CallSucceeds(c) \/ CallFails(c)
      BY <3>1, CallEnded
    <3>2. CASE GiveUp(c)
      <4>. DEFINE new == [call[c] EXCEPT !.waiter = Nobody]
      <4>1. call[c] # Nobody /\ call' = [call EXCEPT ![c] = new] /\ UNCHANGED inUse
        BY <3>2 DEF GiveUp
      <4>2. new \in CallRecord /\ new.waiter = Nobody
        BY <1>1, <4>1 DEF CallRecord
      <4>. HIDE DEF new
      <4>. QED
        BY <1>1, <4>1, <4>2, CallGoesOn
    <3>. QED
      BY <1>16, <3>1, <3>2
  <2>2. \A d \in Calls, q \in Requests : WaitsFor(d, q)' <=> WaitsFor(d, q) /\ q # r
    BY <1>15, <1>16, <2>1
  <2>. QED
    BY <1>15, <1>16, <2>1, <2>2, RequestOver
<1>17. ASSUME NEW c \in Calls, CallAnswered(c)
       PROVE  RequestsInv'
  <2>. DEFINE r == Waiter(c)
              next == request[r].step + 1
  <2>1. /\ Awaited(c) /\ phase' = phase /\ next \in DOMAIN CallsOf(r)
    BY <1>17 DEF CallAnswered
  <2>2. CASE CallSucceeds(c) /\ AnswerFailure(r, next)
    BY <1>16, <2>1, <2>2 DEF AnswerFailure
  <2>3. CASE /\ Continue(c, CallsOf(r)[next])
             /\ request' = [request EXCEPT ![r].step = next]
             /\ UNCHANGED <<deduped, stored, built>>
    <3>1. /\ phase # "clean" /\ r \in Requests /\ call[c] # Nobody /\ request[r] # None
          /\ WaitsFor(c, r)
          /\ \A d \in Calls, q \in Requests :
               /\ d # c => ~WaitsFor(d, r)
               /\ WaitsFor(c, q) <=> q = r
      BY <1>15, <2>1
    <3>2. next \in 1 .. 3 /\ CallsOf(r)[next] \in Methods \cup {Raw}
      BY <1>1, <2>1, <3>1, HandlerCalls DEF CallsOf
    <3>. DEFINE new == [call[c] EXCEPT !.method = CallsOf(r)[next], !.attempt = 1]
    <3>3. call' = [call EXCEPT ![c] = new] /\ UNCHANGED inUse
      BY <2>3 DEF Continue
    <3>4. new \in CallRecord /\ new.waiter = r
      <4>1. call[c] \in CallRecord /\ 1 \in 1 .. MaxAttempts
        BY <1>1, <3>1, RpcPoolAssumption
      <4>2. \A m \in Methods \cup {Raw} :
              /\ [call[c] EXCEPT !.method = m, !.attempt = 1] \in CallRecord
              /\ [call[c] EXCEPT !.method = m, !.attempt = 1].waiter = call[c].waiter
        BY <4>1 DEF CallRecord
      <4>. QED
        BY <3>2, <4>2 DEF Waiter
    <3>. HIDE DEF new
    <3>5. /\ call' \in [Calls -> CallRecord \cup {Nobody}] /\ inUse' = Running'
          /\ \A d \in Calls, q \in Requests :
               WaitsFor(d, q)' <=> IF d = c THEN new.waiter = q ELSE WaitsFor(d, q)
      BY <3>1, <3>3, <3>4, CallGoesOn
    <3>6. \A d \in Calls, q \in Requests : WaitsFor(d, q)' <=> WaitsFor(d, q)
      BY <3>1, <3>4, <3>5
    <3>. HIDE DEF next, r
    <3>7. PICK at \in RequestRecord : /\ ~at.again /\ at.step = next
                                      /\ at = [request[r] EXCEPT !.step = next]
      BY <1>12, <3>1, <3>2
    <3>8. request' = [request EXCEPT ![r] = at] /\ at.step # 0
      BY <2>3, <3>2, <3>7
    <3>9. UNCHANGED <<phase, stored, built>>
      BY <2>1, <2>3
    <3>. QED
      BY <1>0, <3>1, <3>5, <3>6, <3>7, <3>8, <3>9, RequestAt
  <2>. QED
    BY <1>17, <2>2, <2>3 DEF CallAnswered
<1>18. ASSUME NEW c \in Calls, LastCallAnswered(c) \/ CallRejected(c)
       PROVE  RequestsInv'
  BY <1>16, <1>18 DEF LastCallAnswered, CallRejected, AnswerFailure
<1>19. ASSUME NEW c \in Calls, AbandonedCallEnds(c)
       PROVE  RequestsInv'
  <2>1. /\ Waiter(c) = Nobody /\ phase # "clean" /\ UNCHANGED requestVars
        /\ CallSucceeds(c) \/ CallFails(c)
    BY <1>19 DEF AbandonedCallEnds, Alive
  <2>2. /\ call' \in [Calls -> CallRecord \cup {Nobody}] /\ inUse' = Running'
        /\ \A d \in Calls, q \in Requests : WaitsFor(d, q)' <=> WaitsFor(d, q) /\ d # c
    BY <2>1, CallEnded
  <2>3. \A q \in Requests : ~WaitsFor(c, q)
    BY <1>1, <2>1 DEF WaitsFor, Waiter
  <2>4. \A d \in Calls, q \in Requests : WaitsFor(d, q)' <=> WaitsFor(d, q)
    BY <2>2, <2>3
  <2>5. Linked' /\ NoRepayAgain'
    BY <1>0, <2>1, <2>4 DEF Linked, NoRepayAgain, requestVars
  <2>. QED
    BY <1>0, <2>1, <2>2, <2>5 DEF RequestsInv, requestVars
<1>20. ASSUME NEW c \in Calls, RetryCall(c)
       PROVE  RequestsInv'
  <2>. DEFINE new == [call[c] EXCEPT !.attempt = call[c].attempt + 1]
  <2>1. /\ phase # "clean" /\ UNCHANGED requestVars /\ call[c] # Nobody
        /\ call[c].attempt < MaxAttempts /\ call' = [call EXCEPT ![c] = new]
        /\ UNCHANGED inUse
    BY <1>20 DEF RetryCall, Retry, Alive
  <2>2. call[c] \in CallRecord /\ call[c].attempt + 1 \in 1 .. MaxAttempts
    BY <1>1, <2>1, RpcPoolAssumption DEF CallRecord
  <2>3. \A n \in 1 .. MaxAttempts :
          /\ [call[c] EXCEPT !.attempt = n] \in CallRecord
          /\ [call[c] EXCEPT !.attempt = n].waiter = call[c].waiter
    BY <2>2 DEF CallRecord
  <2>4. new \in CallRecord /\ new.waiter = call[c].waiter
    BY <2>2, <2>3
  <2>. HIDE DEF new
  <2>5. /\ call' \in [Calls -> CallRecord \cup {Nobody}] /\ inUse' = Running'
        /\ \A d \in Calls, q \in Requests :
             WaitsFor(d, q)' <=> IF d = c THEN new.waiter = q ELSE WaitsFor(d, q)
    BY <2>1, <2>4, CallGoesOn
  <2>6. \A d \in Calls, q \in Requests : WaitsFor(d, q)' <=> WaitsFor(d, q)
    BY <2>1, <2>4, <2>5 DEF WaitsFor
  <2>7. Linked' /\ NoRepayAgain'
    BY <1>0, <2>1, <2>6 DEF Linked, NoRepayAgain, requestVars
  <2>. QED
    BY <1>0, <2>1, <2>5, <2>7 DEF RequestsInv, requestVars
<1>21. ASSUME NEW m \in Methods, ResetCircuit(m)
       PROVE  RequestsInv'
  BY <1>0, <1>3, <1>21 DEF ResetCircuit, HalfOpen, requestVars
\* The process closes, ends and starts again.
<1>22. ASSUME Signal \/ Poll \/ ForceExit
       PROVE  RequestsInv'
  BY <1>0, <1>3, <1>22 DEF Signal, Poll, ForceExit, ClosePool, poolVars
<1>23. ASSUME Restart
       PROVE  RequestsInv'
  BY <1>23 DEF Restart, NoCall, NoRequest, NothingStored, RequestsInv, Linked, WaitsFor,
               NoRepayAgain, Running
<1>24. CASE UNCHANGED allRequestVars
  BY <1>0, <1>3, <1>24 DEF allRequestVars, poolVars, requestVars
<1>. QED
  BY <1>6, <1>7, <1>8, <1>9, <1>10, <1>11, <1>13, <1>14, <1>17, <1>18, <1>19, <1>20,
     <1>21, <1>22, <1>23, <1>24 DEF RequestsNext

LEMMA RequestsInvariant == RequestsSpec => []RequestsInv
<1>1. RequestsInit => RequestsInv
  BY DEF RequestsInit, PoolInit, NoCall, NoRequest, NothingStored, RequestsInv, Linked,
         WaitsFor, NoRepayAgain, Running
<1>. QED
  BY <1>1, RequestsStep, PTL DEF RequestsSpec

\* A clean exit (gracefulShutdown) abandons no RPC call and no handler that
\* awaits one, for any number of requests, calls, retries and timeouts: the
\* poll looks at the connections alone, and there is one for every call, also
\* for one whose breaker has given it up.
THEOREM CleanExits == RequestsSpec => []CleanExitWaitsForRpc
<1>1. RequestsInv => CleanExitWaitsForRpc
  BY DEF RequestsInv, Linked, WaitsFor, Running, CleanExitWaitsForRpc
<1>. QED
  BY <1>1, RequestsInvariant, PTL

\* Only requests that overlap prepare a repayment twice for one idempotency
\* key (middleware/idempotency.ts), whatever is answered 504 meanwhile.
THEOREM RepaysPreparedOnce == RequestsSpec => []NoRepayAgain
<1>1. RequestsInv => NoRepayAgain
  BY DEF RequestsInv
<1>. QED
  BY <1>1, RequestsInvariant, PTL

-----------------------------------------------------------------------------
(* The event listener.                                                     *)

\* The greatest of a finite set of places in a sequence.
LEMMA MaxOfSome ==
  ASSUME NEW n \in Nat, NEW S \in SUBSET (1 .. n), S # {}
  PROVE  Max(S) \in S /\ \A y \in S : Max(S) >= y
<1>1. S \in SUBSET (0 .. n)
  OBVIOUS
<1>2. \E x \in S : \A y \in S : x >= y
  BY <1>1, GreatestExists
<1>. QED
  BY <1>2 DEF Max

\* The least of a set of places.
LEMMA MinOfSome ==
  ASSUME NEW n \in Nat, NEW S \in SUBSET (1 .. n), S # {}
  PROVE  Min(S) \in S /\ \A y \in S : Min(S) <= y
<1>. DEFINE Turned == {n - y : y \in S}
<1>1. Turned \in SUBSET (0 .. n) /\ Turned # {}
  <2>1. \A y \in S : n - y \in 0 .. n
    OBVIOUS
  <2>2. PICK y \in S : TRUE
    OBVIOUS
  <2>3. n - y \in Turned
    OBVIOUS
  <2>4. Turned \subseteq (0 .. n)
    BY <2>1
  <2>. QED
    BY <2>3, <2>4
<1>. HIDE DEF Turned
<1>2. PICK x \in Turned : \A y \in Turned : x >= y
  BY <1>1, GreatestExists
<1>. USE DEF Turned
<1>3. PICK z \in S : x = n - z
  BY <1>2
<1>4. \A y \in S : z <= y
  <2>1. \A y \in S : n - y \in Turned
    OBVIOUS
  <2>2. \A y \in S : x >= n - y
    BY <1>2, <2>1
  <2>3. z \in Int /\ \A y \in S : y \in Int
    OBVIOUS
  <2>. HIDE DEF Turned
  <2>. QED
    BY <1>3, <2>2, <2>3
<1>. QED
  BY <1>4 DEF Min

LEMMA MaxOfTwo ==
  ASSUME NEW a \in Int, NEW b \in Int
  PROVE  Max({a, b}) = IF a >= b THEN a ELSE b
<1>1. \E x \in {a, b} : \A y \in {a, b} : x >= y
  OBVIOUS
<1>2. Max({a, b}) \in {a, b} /\ \A y \in {a, b} : Max({a, b}) >= y
  BY <1>1 DEF Max
<1>. QED
  BY <1>2

\* The events are in the order of their ledgers; none is handled that is ahead
\* of the position of the listener; and while one loop runs at a time, it
\* asks for what follows that position.
MirrorInv ==
  /\ MirrorTypeOK
  /\ lastLedger < latest
  /\ \A e \in DOMAIN chainEvents : chainEvents[e].ledger <= latest
  /\ \A d, e \in DOMAIN chainEvents : d <= e => chainEvents[d].ledger <= chainEvents[e].ledger
  /\ \A l \in Loops : loop[l] <= lastLedger + 1
  /\ \A e \in EventIds : handled[e] > 0 =>
       e \in DOMAIN chainEvents /\ chainEvents[e].ledger <= lastLedger
  /\ ~twoLoops =>
       /\ \A k, l \in Loops : loop[k] # Off /\ loop[l] # Off => k = l
       /\ \A l \in Loops : Polling(l) => loop[l] = NextStart
  /\ EachEventOnce

LEMMA EventsType ==
  ASSUME MirrorTypeOK
  PROVE  /\ Len(chainEvents) \in 0 .. MaxEvents /\ DOMAIN chainEvents = 1 .. Len(chainEvents)
         /\ DOMAIN chainEvents \subseteq EventIds
         /\ \A e \in DOMAIN chainEvents :
              /\ chainEvents[e] \in [ledger : 1 .. MaxLedger, kind : EventKinds]
              /\ chainEvents[e].ledger \in 1 .. MaxLedger
         /\ latest \in 1 .. MaxLedger /\ lastLedger \in 0 .. MaxLedger
         /\ Oldest \in Nat \ {0} /\ Oldest <= latest
         /\ MaxLedger \in Nat /\ MaxEvents \in Nat
<1>1. /\ MaxLedger \in Nat /\ MaxEvents \in Nat /\ Retention \in Nat \ {0}
      /\ latest \in 1 .. MaxLedger /\ lastLedger \in 0 .. MaxLedger
  BY EventMirrorAssumption DEF MirrorTypeOK
<1>2. /\ Len(chainEvents) \in 0 .. MaxEvents /\ DOMAIN chainEvents = 1 .. Len(chainEvents)
      /\ \A e \in DOMAIN chainEvents :
           chainEvents[e] \in [ledger : 1 .. MaxLedger, kind : EventKinds]
  <2>. DEFINE Event == [ledger : 1 .. MaxLedger, kind : EventKinds]
  <2>1. chainEvents \in Seq(Event) /\ Len(chainEvents) <= MaxEvents
    BY DEF MirrorTypeOK
  <2>. HIDE DEF Event
  <2>2. Len(chainEvents) \in Nat /\ DOMAIN chainEvents = 1 .. Len(chainEvents)
    BY <2>1, LenProperties
  <2>3. \A e \in DOMAIN chainEvents : chainEvents[e] \in Event
    BY <2>1, <2>2, ElementOfSeq
  <2>. QED
    BY <1>1, <2>1, <2>2, <2>3 DEF Event
<1>3. DOMAIN chainEvents \subseteq EventIds
  BY <1>1, <1>2 DEF EventIds
<1>4. Oldest \in Nat \ {0} /\ Oldest <= latest
  BY <1>1 DEF Oldest
<1>. QED
  BY <1>1, <1>2, <1>3, <1>4

\* A page is a beginning of the closed events from the start on.
LEMMA PageIsBeginning ==
  ASSUME MirrorTypeOK, NEW start \in Int
  PROVE  /\ Page(start) \subseteq DOMAIN chainEvents
         /\ \A e \in Page(start) : /\ chainEvents[e].ledger >= start
                                   /\ chainEvents[e].ledger < latest
         /\ \A f \in Page(start), e \in DOMAIN chainEvents :
              /\ e <= f /\ chainEvents[e].ledger >= start
              /\ chainEvents[e].ledger \in Oldest .. latest - 1
              => e \in Page(start)
<1>. DEFINE found == {e \in DOMAIN chainEvents :
                        chainEvents[e].ledger \in Max({start, Oldest}) .. latest - 1}
            Before(e) == {f \in found : f < e}
<1>1. Page(start) = {e \in found : Cardinality(Before(e)) < PageSize}
  BY DEF Page
<1>2. Max({start, Oldest}) = IF start >= Oldest THEN start ELSE Oldest
  <2>1. Oldest \in Int
    BY EventsType
  <2>. QED
    BY <2>1, MaxOfTwo
<1>3. \A e \in found : /\ e \in DOMAIN chainEvents
                       /\ chainEvents[e].ledger >= start /\ chainEvents[e].ledger < latest
  BY <1>2, EventsType
<1>4. ASSUME NEW f \in Page(start), NEW e \in DOMAIN chainEvents,
             e <= f, chainEvents[e].ledger >= start,
             chainEvents[e].ledger \in Oldest .. latest - 1
      PROVE  e \in Page(start)
  <2>1. e \in found
    BY <1>2, <1>4, EventsType
  <2>2. IsFiniteSet(Before(f)) /\ Before(e) \in SUBSET Before(f)
    <3>1. Before(f) \subseteq 1 .. Len(chainEvents) /\ Len(chainEvents) \in Nat
      BY EventsType
    <3>2. IsFiniteSet(1 .. Len(chainEvents))
      BY <3>1, FS_Interval
    <3>3. IsFiniteSet(Before(f))
      BY <3>1, <3>2, FS_Subset
    <3>4. e \in Int /\ f \in Int /\ found \subseteq Int
      BY <1>1, EventsType
    <3>. HIDE DEF found
    <3>5. ASSUME NEW g \in found, g < e
          PROVE  g < f
      <4>1. e <= f
        BY <1>4
      <4>2. g \in Int /\ e \in Int /\ f \in Int
        BY <3>4
      <4>. QED
        BY <3>5, <4>1, <4>2
    <3>6. Before(e) \in SUBSET Before(f)
      BY <3>5
    <3>. QED
      BY <3>3, <3>6
  <2>. HIDE DEF Before
  <2>3. /\ Cardinality(Before(e)) <= Cardinality(Before(f))
        /\ Cardinality(Before(e)) \in Nat /\ Cardinality(Before(f)) \in Nat
    BY <2>2, FS_Subset, FS_CardinalityType
  <2>4. Cardinality(Before(f)) < PageSize /\ PageSize \in Nat
    BY <1>1, EventMirrorAssumption
  <2>. QED
    BY <1>1, <2>1, <2>3, <2>4
<1>. HIDE DEF found
<1>. QED
  BY <1>1, <1>3, <1>4

\* The position after a page: the ledger of its last event, or as before.
LEMMA PositionAfter ==
  ASSUME MirrorInv, NEW start \in Int, start <= lastLedger + 1
  PROVE  LET page == Page(start)
         IN  /\ LedgerAfter(page) \in lastLedger .. latest - 1
             /\ \A e \in page : chainEvents[e].ledger <= LedgerAfter(page)
             /\ \A e \in DOMAIN chainEvents :
                  chainEvents[e].ledger \in lastLedger + 1 .. LedgerAfter(page)
                    => \/ e \in page \/ e \in Cut(page)
                       \/ chainEvents[e].ledger < Oldest
<1>. DEFINE page == Page(start)
<1>1. MirrorTypeOK /\ lastLedger < latest
      /\ \A d, e \in DOMAIN chainEvents :
           d <= e => chainEvents[d].ledger <= chainEvents[e].ledger
  BY DEF MirrorInv
<1>2. /\ page \subseteq DOMAIN chainEvents
      /\ \A e \in page : chainEvents[e].ledger >= start /\ chainEvents[e].ledger < latest
      /\ \A f \in page, e \in DOMAIN chainEvents :
           /\ e <= f /\ chainEvents[e].ledger >= start
           /\ chainEvents[e].ledger \in Oldest .. latest - 1
           => e \in page
  BY <1>1, PageIsBeginning
<1>3. /\ DOMAIN chainEvents = 1 .. Len(chainEvents) /\ Len(chainEvents) \in Nat
      /\ \A e \in DOMAIN chainEvents : chainEvents[e].ledger \in Nat
      /\ lastLedger \in Nat /\ latest \in Nat /\ Oldest \in Nat
  BY <1>1, EventsType
<1>. HIDE DEF page
<1>4. CASE page = {}
  BY <1>1, <1>3, <1>4 DEF LedgerAfter, page
<1>5. CASE page # {}
  <2>. DEFINE last == Max(page)
              at == chainEvents[last].ledger
  <2>1. last \in page /\ \A y \in page : last >= y
    BY <1>2, <1>3, <1>5, MaxOfSome
  <2>2. LedgerAfter(page) = IF lastLedger >= at THEN lastLedger ELSE at
    <3>1. LedgerAfter(page) = Max({lastLedger, at})
      BY <1>5 DEF LedgerAfter
    <3>2. at \in Nat
      BY <1>2, <1>3, <2>1
    <3>. HIDE DEF at
    <3>. QED
      BY <1>3, <3>1, <3>2, MaxOfTwo
  <2>3. Cut(page) = {e \in DOMAIN chainEvents : e > last /\ chainEvents[e].ledger = at}
    BY <1>5 DEF Cut
  <2>. HIDE DEF last
  <2>4. at \in Nat /\ at < latest /\ last \in DOMAIN chainEvents
    BY <1>2, <1>3, <2>1
  <2>5. \A e \in page : chainEvents[e].ledger <= at
    BY <1>1, <1>2, <2>1, <1>3
  <2>6. ASSUME NEW e \in DOMAIN chainEvents,
               chainEvents[e].ledger \in lastLedger + 1 .. LedgerAfter(page),
               e \notin page, chainEvents[e].ledger >= Oldest
        PROVE  e \in Cut(page)
    <3>1. chainEvents[e].ledger <= at /\ chainEvents[e].ledger >= start
      BY <1>3, <2>2, <2>4, <2>6
    <3>2. ~(e <= last)
      BY <1>2, <1>3, <2>1, <2>4, <2>6, <3>1
    <3>3. e > last /\ chainEvents[e].ledger = at
      BY <1>1, <1>3, <2>4, <3>1, <3>2
    <3>. QED
      BY <2>3, <3>3
  <2>7. /\ LedgerAfter(page) \in lastLedger .. latest - 1
        /\ \A e \in page : chainEvents[e].ledger <= LedgerAfter(page)
    BY <1>1, <1>2, <1>3, <2>2, <2>4, <2>5
  <2>8. \A e \in DOMAIN chainEvents :
          chainEvents[e].ledger \in lastLedger + 1 .. LedgerAfter(page)
            => \/ e \in page \/ e \in Cut(page)
               \/ chainEvents[e].ledger < Oldest
    BY <1>3, <2>6
  <2>. QED
    BY <2>7, <2>8 DEF page
<1>. QED
  BY <1>4, <1>5

\* What the invariant says of the loops, for a change of the loops alone.
LEMMA OneLoop ==
  ASSUME MirrorInv, NEW k \in Loops, NEW s \in {Off, Sleeping, NextStart},
         loop' = [loop EXCEPT ![k] = s],
         loop[k] = Off /\ s # Off => twoLoops' = (twoLoops \/ \E l \in Loops : loop[l] # Off),
         ~(loop[k] = Off /\ s # Off) => twoLoops' = twoLoops,
         pollTimer' \in Loops \cup {NoLoop},
         UNCHANGED <<chainEvents, latest, lastLedger, mirrored, handled, cutPages>>
  PROVE  MirrorInv'
<1>1. /\ NextStart \in 0 .. MaxLedger + 1 /\ NextStart <= lastLedger + 1 /\ lastLedger \in Nat
      /\ NextStart' = NextStart /\ Oldest' = Oldest
  BY EventsType DEF NextStart, MirrorInv, Oldest
<1>2. MirrorTypeOK'
  <2>1. loop' \in [Loops -> {Off, Sleeping} \cup 0 .. MaxLedger + 1]
    BY <1>1 DEF MirrorInv, MirrorTypeOK
  <2>2. twoLoops' \in BOOLEAN
    <3>1. twoLoops \in BOOLEAN
      BY DEF MirrorInv, MirrorTypeOK
    <3>. QED
      BY <3>1, Zenon
  <2>. QED
    BY <2>1, <2>2 DEF MirrorInv, MirrorTypeOK
<1>3. /\ loop \in [Loops -> {Off, Sleeping} \cup 0 .. MaxLedger + 1]
      /\ \A l \in Loops : loop[l] <= lastLedger + 1
  BY DEF MirrorInv, MirrorTypeOK
<1>4. \A l \in Loops : loop'[l] = IF l = k THEN s ELSE loop[l]
  BY <1>3
<1>5. \A l \in Loops : loop'[l] <= lastLedger' + 1
  BY <1>1, <1>3, <1>4 DEF Off, Sleeping
<1>6. ASSUME ~twoLoops'
      PROVE  /\ \A j, l \in Loops : loop'[j] # Off /\ loop'[l] # Off => j = l
             /\ \A l \in Loops : Polling(l)' => loop'[l] = NextStart'
  <2>1. /\ ~twoLoops
        /\ loop[k] = Off /\ s # Off => \A l \in Loops : loop[l] = Off
    <3>1. CASE loop[k] = Off /\ s # Off
      <4>1. twoLoops' = (twoLoops \/ \E l \in Loops : loop[l] # Off)
        BY <3>1
      <4>. QED
        BY <1>6, <4>1, Zenon
    <3>2. CASE ~(loop[k] = Off /\ s # Off)
      <4>1. twoLoops' = twoLoops
        BY <3>2
      <4>. QED
        BY <1>6, <3>2, <4>1, Zenon
    <3>. QED
      BY <3>1, <3>2
  <2>2. /\ \A j, l \in Loops : loop[j] # Off /\ loop[l] # Off => j = l
        /\ \A l \in Loops : Polling(l) => loop[l] = NextStart
    BY <2>1 DEF MirrorInv
  <2>3. \A j, l \in Loops : loop'[j] # Off /\ loop'[l] # Off => j = l
    BY <1>4, <2>1, <2>2
  <2>4. \A l \in Loops : Polling(l)' => loop'[l] = NextStart'
    BY <1>1, <1>4, <2>2 DEF Polling
  <2>. QED
    BY <2>3, <2>4
<1>7. EachEventOnce'
  <2>1. twoLoops => twoLoops'
    BY Zenon
  <2>2. /\ Oldest' = Oldest /\ chainEvents' = chainEvents /\ lastLedger' = lastLedger
        /\ handled' = handled /\ cutPages' = cutPages
    BY <1>1
  <2>. QED
    BY <2>1, <2>2 DEF MirrorInv, EachEventOnce
<1>8. /\ (lastLedger < latest)'
      /\ (\A e \in DOMAIN chainEvents : chainEvents[e].ledger <= latest)'
      /\ (\A d, e \in DOMAIN chainEvents :
            d <= e => chainEvents[d].ledger <= chainEvents[e].ledger)'
      /\ (\A e \in EventIds : handled[e] > 0 =>
            e \in DOMAIN chainEvents /\ chainEvents[e].ledger <= lastLedger)'
  BY DEF MirrorInv
<1>. QED
  BY <1>2, <1>5, <1>6, <1>7, <1>8 DEF MirrorInv

LEMMA PublishKeepsMirror ==
  ASSUME MirrorInv, NEW kind \in EventKinds, Publish(kind)
  PROVE  MirrorInv'
<1>. DEFINE Event == [ledger : 1 .. MaxLedger, kind : EventKinds]
            new == [ledger |-> latest, kind |-> kind]
            n == Len(chainEvents)
<1>1. /\ n < MaxEvents /\ chainEvents' = Append(chainEvents, new)
      /\ UNCHANGED <<latest, listenerVars>>
      /\ MirrorTypeOK
  BY DEF Publish, MirrorInv
<1>2. UNCHANGED <<latest, lastLedger, loop, pollTimer, mirrored, handled, cutPages, twoLoops>>
  BY <1>1 DEF listenerVars
<1>3. /\ n \in Nat /\ MaxEvents \in Nat /\ DOMAIN chainEvents = 1 .. n
      /\ DOMAIN chainEvents \subseteq EventIds
      /\ \A e \in DOMAIN chainEvents : chainEvents[e].ledger \in Nat
      /\ latest \in 1 .. MaxLedger /\ MaxLedger \in Nat
      /\ lastLedger \in Nat /\ Oldest \in Nat
  BY <1>1, EventsType
<1>4. chainEvents \in Seq(Event) /\ new \in Event /\ new.ledger = latest
  BY <1>1, <1>3 DEF MirrorTypeOK
<1>. HIDE DEF Event, new
<1>5. /\ chainEvents' \in Seq(Event) /\ Len(chainEvents') = n + 1
      /\ \A e \in 1 .. n : chainEvents'[e] = chainEvents[e]
      /\ chainEvents'[n + 1] = new
  BY <1>1, <1>4, AppendProperties
<1>6. DOMAIN chainEvents' = 1 .. n + 1
  BY <1>5, LenProperties
<1>. HIDE DEF n
<1>7. MirrorTypeOK'
  <2>1. Len(chainEvents') <= MaxEvents
    BY <1>1, <1>3, <1>5
  <2>. QED
    BY <1>1, <1>2, <1>5, <2>1 DEF MirrorTypeOK, Event
<1>8. \A e \in DOMAIN chainEvents' :
        \/ e \in DOMAIN chainEvents /\ chainEvents'[e].ledger = chainEvents[e].ledger
        \/ e = n + 1 /\ chainEvents'[e].ledger = latest
  BY <1>3, <1>4, <1>5, <1>6
<1>9. \A e \in DOMAIN chainEvents : e < n + 1 /\ chainEvents[e].ledger <= latest
  BY <1>3 DEF MirrorInv
<1>10. \A e \in DOMAIN chainEvents' : chainEvents'[e].ledger <= latest'
  BY <1>2, <1>3, <1>8, <1>9
<1>11. \A d, e \in DOMAIN chainEvents' :
         d <= e => chainEvents'[d].ledger <= chainEvents'[e].ledger
  <2>. SUFFICES ASSUME NEW d \in DOMAIN chainEvents', NEW e \in DOMAIN chainEvents', d <= e
                PROVE  chainEvents'[d].ledger <= chainEvents'[e].ledger
    OBVIOUS
  <2>1. CASE e = n + 1
    BY <1>2, <1>3, <1>4, <1>5, <1>10, <2>1
  <2>2. CASE e # n + 1
    <3>1. d \in DOMAIN chainEvents /\ e \in DOMAIN chainEvents
      BY <1>3, <1>6, <2>2
    <3>2. chainEvents[d].ledger <= chainEvents[e].ledger
      BY <3>1 DEF MirrorInv
    <3>. QED
      BY <1>3, <1>5, <3>1, <3>2
  <2>. QED
    BY <2>1, <2>2
<1>12. \A e \in EventIds : handled'[e] > 0 =>
         e \in DOMAIN chainEvents' /\ chainEvents'[e].ledger <= lastLedger'
  <2>1. \A e \in EventIds : handled[e] > 0 =>
          e \in DOMAIN chainEvents /\ chainEvents[e].ledger <= lastLedger
    BY DEF MirrorInv
  <2>. QED
    BY <1>2, <1>3, <1>5, <1>6, <2>1
<1>13. EachEventOnce'
  <2>. SUFFICES ASSUME NEW e \in DOMAIN chainEvents'
                PROVE  /\ chainEvents'[e].ledger \in Oldest' .. lastLedger'
                            => handled'[e] > 0 \/ e \in cutPages'
                       /\ handled'[e] > 1 => twoLoops'
    BY DEF EachEventOnce
  <2>1. Oldest' = Oldest /\ lastLedger < latest
    BY <1>2 DEF Oldest, MirrorInv
  <2>2. CASE e \in DOMAIN chainEvents /\ chainEvents'[e].ledger = chainEvents[e].ledger
    BY <1>2, <2>1, <2>2 DEF MirrorInv, EachEventOnce
  <2>3. CASE e = n + 1 /\ chainEvents'[e].ledger = latest
    <3>1. e \in EventIds /\ e \notin DOMAIN chainEvents
      BY <1>1, <1>3, <2>3 DEF EventIds, n
    <3>2. ~(handled[e] > 0) /\ handled[e] \in 0 .. 2
      BY <1>1, <3>1 DEF MirrorInv, MirrorTypeOK
    <3>. QED
      BY <1>2, <1>3, <2>1, <2>3, <3>2
  <2>. QED
    BY <1>8, <2>2, <2>3
<1>14. /\ (lastLedger < latest)'
       /\ (\A l \in Loops : loop[l] <= lastLedger + 1)'
       /\ (~twoLoops =>
            /\ \A k, l \in Loops : loop[k] # Off /\ loop[l] # Off => k = l
            /\ \A l \in Loops : Polling(l) => loop[l] = NextStart)'
  BY <1>2 DEF MirrorInv, Polling, NextStart
<1>. QED
  BY <1>7, <1>10, <1>11, <1>12, <1>13, <1>14 DEF MirrorInv

LEMMA AnswerKeepsMirror ==
  ASSUME MirrorInv, NEW l \in Loops, PollAnswered(l)
  PROVE  MirrorInv'
<1>. DEFINE start == loop[l]
            page == Page(start)
<1>1. /\ Polling(l) /\ UNCHANGED <<chainEvents, latest, twoLoops>>
      /\ mirrored' = Mirrored(page)
      /\ handled' = [e \in EventIds |->
           IF e \in page /\ handled[e] < 2 THEN handled[e] + 1 ELSE handled[e]]
      /\ lastLedger' = LedgerAfter(page)
      /\ cutPages' = cutPages \cup Cut(page)
      /\ loop' = [loop EXCEPT ![l] = Sleeping] /\ pollTimer' = l
      /\ MirrorTypeOK
  BY DEF PollAnswered, Sleep, MirrorInv
<1>2. /\ DOMAIN chainEvents \subseteq EventIds
      /\ \A e \in DOMAIN chainEvents : chainEvents[e].ledger \in Nat /\ chainEvents[e].ledger >= 1
      /\ latest \in 1 .. MaxLedger /\ MaxLedger \in Nat
      /\ lastLedger \in Nat /\ Oldest \in Nat
  BY <1>1, EventsType
<1>3. /\ loop \in [Loops -> {Off, Sleeping} \cup 0 .. MaxLedger + 1]
      /\ start \in Int /\ start <= lastLedger + 1
      /\ handled \in [EventIds -> 0 .. 2]
  <2>1. loop \in [Loops -> {Off, Sleeping} \cup 0 .. MaxLedger + 1]
        /\ handled \in [EventIds -> 0 .. 2]
    BY <1>1 DEF MirrorTypeOK
  <2>2. start \in Int
    BY <1>2, <2>1 DEF Off, Sleeping
  <2>3. start <= lastLedger + 1
    BY DEF MirrorInv
  <2>. QED
    BY <2>1, <2>2, <2>3
<1>4. /\ page \subseteq DOMAIN chainEvents
      /\ \A e \in page : chainEvents[e].ledger >= start
  BY <1>1, <1>3, PageIsBeginning
<1>5. /\ LedgerAfter(page) \in lastLedger .. latest - 1
      /\ \A e \in page : chainEvents[e].ledger <= LedgerAfter(page)
      /\ \A e \in DOMAIN chainEvents :
           chainEvents[e].ledger \in lastLedger + 1 .. LedgerAfter(page)
             => e \in page \/ e \in Cut(page) \/ chainEvents[e].ledger < Oldest
  BY <1>3, PositionAfter
<1>6. Cut(page) \subseteq EventIds
  BY <1>2 DEF Cut
<1>. HIDE DEF page
<1>7. lastLedger' \in lastLedger .. latest - 1 /\ lastLedger' \in Nat
  BY <1>1, <1>2, <1>5
<1>8. \A e \in EventIds : /\ handled'[e] \in 0 .. 2 /\ handled[e] \in 0 .. 2
                          /\ e \notin page => handled'[e] = handled[e]
                          /\ e \in page => handled'[e] > 0
                          /\ handled[e] > 0 => handled'[e] > 0
                          /\ handled[e] = 0 => handled'[e] <= 1
  BY <1>1, <1>3
<1>9. MirrorTypeOK'
  <2>1. mirrored' \in [EventIds -> {"absent", "asRequested", "changed"}]
    BY <1>1 DEF Mirrored, MirrorTypeOK
  <2>2. loop' \in [Loops -> {Off, Sleeping} \cup 0 .. MaxLedger + 1]
    BY <1>1, <1>3
  <2>3. handled' \in [EventIds -> 0 .. 2]
    BY <1>1, <1>3
  <2>4. lastLedger' \in 0 .. MaxLedger
    BY <1>2, <1>7
  <2>5. cutPages' \subseteq EventIds
    BY <1>1, <1>6 DEF MirrorTypeOK
  <2>. QED
    BY <1>1, <2>1, <2>2, <2>3, <2>4, <2>5 DEF MirrorTypeOK
<1>10. \A k \in Loops : loop'[k] = IF k = l THEN Sleeping ELSE loop[k]
  BY <1>1, <1>3
<1>11. \A k \in Loops : loop'[k] <= lastLedger' + 1
  <2>1. \A k \in Loops : loop[k] <= lastLedger + 1 /\ loop[k] \in Int
    BY <1>2, <1>3 DEF MirrorInv, Off, Sleeping
  <2>. QED
    BY <1>2, <1>7, <1>10, <2>1 DEF Sleeping
<1>12. \A e \in EventIds : handled'[e] > 0 =>
         e \in DOMAIN chainEvents' /\ chainEvents'[e].ledger <= lastLedger'
  <2>. SUFFICES ASSUME NEW e \in EventIds, handled'[e] > 0
                PROVE  e \in DOMAIN chainEvents /\ chainEvents[e].ledger <= lastLedger'
    BY <1>1
  <2>1. CASE e \in page
    BY <1>1, <1>4, <1>5, <2>1
  <2>2. CASE e \notin page
    <3>1. e \in DOMAIN chainEvents /\ chainEvents[e].ledger <= lastLedger
      BY <1>8, <2>2 DEF MirrorInv
    <3>. QED
      BY <1>2, <1>7, <3>1
  <2>. QED
    BY <2>1, <2>2
<1>13. ASSUME ~twoLoops'
       PROVE  /\ start = NextStart
              /\ \A k \in Loops : loop'[k] # Off => k = l
  <2>1. /\ \A j, k \in Loops : loop[j] # Off /\ loop[k] # Off => j = k
        /\ \A k \in Loops : Polling(k) => loop[k] = NextStart
    BY <1>1, <1>13 DEF MirrorInv
  <2>. QED
    BY <1>1, <1>10, <2>1 DEF Polling
<1>14. ASSUME ~twoLoops', NEW e \in page PROVE handled[e] = 0
  <2>1. chainEvents[e].ledger > lastLedger
    BY <1>2, <1>4, <1>13, <1>14 DEF NextStart
  <2>2. e \in EventIds /\ chainEvents[e].ledger \in Nat
    BY <1>2, <1>4
  <2>3. ~(handled[e] > 0)
    BY <1>2, <2>1, <2>2 DEF MirrorInv
  <2>. QED
    BY <1>8, <2>2, <2>3
<1>15. EachEventOnce'
  <2>. SUFFICES ASSUME NEW e \in DOMAIN chainEvents
                PROVE  /\ chainEvents[e].ledger \in Oldest .. lastLedger'
                            => handled'[e] > 0 \/ e \in cutPages'
                       /\ handled'[e] > 1 => twoLoops'
    BY <1>1 DEF EachEventOnce, Oldest
  <2>1. /\ chainEvents[e].ledger \in Oldest .. lastLedger => handled[e] > 0 \/ e \in cutPages
        /\ handled[e] > 1 => twoLoops
    BY DEF MirrorInv, EachEventOnce
  <2>2. e \in EventIds /\ chainEvents[e].ledger \in Nat
    BY <1>2
  <2>3. ASSUME chainEvents[e].ledger \in Oldest .. lastLedger'
        PROVE  handled'[e] > 0 \/ e \in cutPages'
    <3>1. CASE chainEvents[e].ledger <= lastLedger
      BY <1>1, <1>2, <1>8, <2>1, <2>2, <2>3, <3>1
    <3>2. CASE chainEvents[e].ledger > lastLedger
      <4>1. e \in page \/ e \in Cut(page)
        BY <1>1, <1>2, <1>5, <1>7, <2>2, <2>3, <3>2
      <4>. QED
        BY <1>1, <1>8, <2>2, <4>1
    <3>. QED
      BY <1>2, <2>2, <3>1, <3>2
  <2>4. ASSUME handled'[e] > 1, ~twoLoops' PROVE FALSE
    <3>1. CASE e \in page
      BY <1>8, <1>14, <2>2, <2>4, <3>1
    <3>2. CASE e \notin page
      BY <1>1, <1>8, <2>1, <2>2, <2>4, <3>2
    <3>. QED
      BY <3>1, <3>2
  <2>. QED
    BY <2>3, <2>4
<1>16. ~twoLoops' =>
         /\ \A j, k \in Loops : loop'[j] # Off /\ loop'[k] # Off => j = k
         /\ \A k \in Loops : Polling(k)' => loop'[k] = NextStart'
  <2>1. \A k \in Loops : Polling(k)' => loop'[k] # Off /\ loop'[k] # Sleeping
    BY DEF Polling
  <2>. QED
    BY <1>10, <1>13, <2>1
<1>17. /\ (lastLedger < latest)'
       /\ (\A e \in DOMAIN chainEvents : chainEvents[e].ledger <= latest)'
       /\ (\A d, e \in DOMAIN chainEvents :
             d <= e => chainEvents[d].ledger <= chainEvents[e].ledger)'
  BY <1>1, <1>2, <1>7 DEF MirrorInv
<1>. QED
  BY <1>9, <1>11, <1>12, <1>15, <1>16, <1>17 DEF MirrorInv

LEMMA MirrorInvariant == MirrorSpec => []MirrorInv
<1>1. MirrorInit => MirrorInv
  <2>. SUFFICES ASSUME MirrorInit PROVE MirrorInv
    OBVIOUS
  <2>1. /\ chainEvents = <<>> /\ DOMAIN chainEvents = {} /\ latest = 1 /\ lastLedger = 0
        /\ loop = [l \in Loops |-> Off] /\ pollTimer = NoLoop
        /\ mirrored = [e \in EventIds |-> "absent"]
        /\ handled = [e \in EventIds |-> 0]
        /\ cutPages = {} /\ twoLoops = FALSE
        /\ MaxLedger \in Nat \ {0} /\ MaxEvents \in Nat
    BY EventMirrorAssumption DEF MirrorInit
  <2>2. \A l \in Loops : loop[l] = Off
    BY <2>1
  <2>3. MirrorTypeOK
    <3>1. /\ chainEvents \in Seq([ledger : 1 .. MaxLedger, kind : EventKinds])
          /\ Len(chainEvents) <= MaxEvents
      BY <2>1
    <3>2. /\ loop \in [Loops -> {Off, Sleeping} \cup 0 .. MaxLedger + 1]
          /\ mirrored \in [EventIds -> {"absent", "asRequested", "changed"}]
          /\ handled \in [EventIds -> 0 .. 2]
          /\ cutPages \subseteq EventIds /\ pollTimer \in Loops \cup {NoLoop}
      BY <2>1
    <3>3. latest \in 1 .. MaxLedger /\ lastLedger \in 0 .. MaxLedger
      BY <2>1
    <3>4. twoLoops \in BOOLEAN
      BY <2>1
    <3>. QED
      BY <3>1, <3>2, <3>3, <3>4 DEF MirrorTypeOK
  <2>4. \A l \in Loops : loop[l] <= lastLedger + 1 /\ ~Polling(l)
    BY <2>1, <2>2 DEF Off, Polling
  <2>5. \A e \in EventIds : ~(handled[e] > 0)
    BY <2>1
  <2>. QED
    BY <2>1, <2>2, <2>3, <2>4, <2>5 DEF MirrorInv, EachEventOnce
<1>2. MirrorInv /\ [MirrorNext]_mirrorVars => MirrorInv'
  <2>. SUFFICES ASSUME MirrorInv, [MirrorNext]_mirrorVars PROVE MirrorInv'
    OBVIOUS
  <2>1. ASSUME NEW kind \in EventKinds, Publish(kind) PROVE MirrorInv'
    BY <2>1, PublishKeepsMirror
  <2>2. CASE CloseLedger
    <3>1. /\ latest < MaxLedger /\ latest' = latest + 1
          /\ UNCHANGED <<chainEvents, lastLedger, loop, pollTimer, mirrored, handled,
                         cutPages, twoLoops>>
      BY <2>2 DEF CloseLedger, listenerVars
    <3>2. /\ latest \in 1 .. MaxLedger /\ MaxLedger \in Nat /\ Retention \in Nat
          /\ lastLedger \in Nat /\ Oldest \in Nat
          /\ \A e \in DOMAIN chainEvents : chainEvents[e].ledger \in Nat
      BY EventsType, EventMirrorAssumption DEF MirrorInv
    <3>3. MirrorTypeOK'
      BY <3>1, <3>2 DEF MirrorInv, MirrorTypeOK
    <3>4. Oldest' \in Nat /\ Oldest <= Oldest'
      BY <3>1, <3>2 DEF Oldest
    <3>5. EachEventOnce'
      BY <3>1, <3>2, <3>4 DEF MirrorInv, EachEventOnce
    <3>6. (lastLedger < latest)' /\ (\A e \in DOMAIN chainEvents : chainEvents[e].ledger <= latest)'
      BY <3>1, <3>2 DEF MirrorInv
    <3>. QED
      BY <3>1, <3>3, <3>5, <3>6 DEF MirrorInv, Polling, NextStart
  <2>3. ASSUME NEW e \in EventIds, ChangeMirrored(e) PROVE MirrorInv'
    <3>1. mirrored' \in [EventIds -> {"absent", "asRequested", "changed"}]
      BY <2>3 DEF ChangeMirrored, MirrorInv, MirrorTypeOK
    <3>2. UNCHANGED <<chainEvents, latest, lastLedger, loop, pollTimer, handled, cutPages, twoLoops>>
      BY <2>3 DEF ChangeMirrored
    <3>. QED
      BY <3>1, <3>2 DEF MirrorInv, MirrorTypeOK, EachEventOnce, Oldest, Polling, NextStart
  <2>4. ASSUME NEW l \in Loops, StartLoop(l) PROVE MirrorInv'
    <3>1. /\ loop[l] = Off /\ loop' = [loop EXCEPT ![l] = NextStart]
          /\ twoLoops' = (twoLoops \/ \E k \in Loops : loop[k] # Off)
          /\ UNCHANGED <<chainEvents, latest, lastLedger, pollTimer, mirrored, handled, cutPages>>
      BY <2>4 DEF StartLoop
    <3>2. NextStart # Off /\ pollTimer' \in Loops \cup {NoLoop}
      BY <3>1, EventsType DEF MirrorInv, MirrorTypeOK, NextStart, Off
    <3>. QED
      BY <3>1, <3>2, OneLoop
  <2>5. ASSUME NEW l \in Loops, TimerFires(l) PROVE MirrorInv'
    <3>1. /\ loop[l] = Sleeping /\ loop' = [loop EXCEPT ![l] = NextStart]
          /\ UNCHANGED <<chainEvents, latest, lastLedger, pollTimer, mirrored, handled,
                         cutPages, twoLoops>>
      BY <2>5 DEF TimerFires
    <3>2. loop[l] # Off /\ pollTimer' \in Loops \cup {NoLoop}
      BY <3>1 DEF MirrorInv, MirrorTypeOK, Off, Sleeping
    <3>. QED
      BY <3>1, <3>2, OneLoop
  <2>6. ASSUME NEW l \in Loops, PollAnswered(l) PROVE MirrorInv'
    BY <2>6, AnswerKeepsMirror
  <2>7. ASSUME NEW l \in Loops, PollFails(l) PROVE MirrorInv'
    <3>1. /\ loop[l] # Off /\ loop' = [loop EXCEPT ![l] = Sleeping] /\ pollTimer' = l
          /\ UNCHANGED <<chainEvents, latest, lastLedger, mirrored, handled, cutPages, twoLoops>>
      BY <2>7 DEF PollFails, Sleep, Polling
    <3>. QED
      BY <3>1, OneLoop
  <2>8. CASE StopListener
    <3>1. /\ pollTimer # NoLoop /\ pollTimer' = NoLoop
          /\ loop' = [loop EXCEPT ![pollTimer] = IF @ = Sleeping THEN Off ELSE @]
          /\ UNCHANGED <<chainEvents, latest, lastLedger, mirrored, handled, cutPages, twoLoops>>
      BY <2>8 DEF StopListener
    <3>2. pollTimer \in Loops /\ pollTimer' \in Loops \cup {NoLoop}
          /\ loop \in [Loops -> {Off, Sleeping} \cup 0 .. MaxLedger + 1]
      BY <3>1 DEF MirrorInv, MirrorTypeOK
    <3>3. CASE loop[pollTimer] = Sleeping
      <4>1. loop' = [loop EXCEPT ![pollTimer] = Off] /\ loop[pollTimer] # Off
        BY <3>1, <3>2, <3>3 DEF Off, Sleeping
      <4>. QED
        BY <3>1, <3>2, <4>1, OneLoop
    <3>4. CASE loop[pollTimer] # Sleeping
      <4>1. loop' = loop
        BY <3>1, <3>2, <3>4
      <4>. QED
        BY <3>1, <3>2, <4>1 DEF MirrorInv, MirrorTypeOK, EachEventOnce, Oldest, Polling, NextStart
    <3>. QED
      BY <3>3, <3>4
  <2>9. CASE UNCHANGED mirrorVars
    <3>1. UNCHANGED <<chainEvents, latest, lastLedger, loop, pollTimer, mirrored, handled,
                      cutPages, twoLoops>>
      BY <2>9 DEF mirrorVars
    <3>. QED
      BY <3>1 DEF MirrorInv, MirrorTypeOK, EachEventOnce, Oldest, Polling, NextStart
  <2>. QED
    BY <2>1, <2>2, <2>3, <2>4, <2>5, <2>6, <2>7, <2>8, <2>9 DEF MirrorNext
<1>. QED
  BY <1>1, <1>2, PTL DEF MirrorSpec

\* The listener passes over no event the RPC still has, but for those left out
\* by a page that ended in their ledger, and handles none twice unless two
\* loops have run (contractEventListener.ts), for any page size, retention
\* and number of loops.
THEOREM EventsOnce == MirrorSpec => []EachEventOnce
<1>1. MirrorInv => EachEventOnce
  BY DEF MirrorInv
<1>. QED
  BY <1>1, MirrorInvariant, PTL

-----------------------------------------------------------------------------
(* The rate limits.                                                        *)

\* The sum of the property is the one the lemmas of Arithmetic are about.
LEMMA SetSumIsSum ==
  ASSUME NEW f, NEW S
  PROVE  MapThenSumSet(LAMBDA u : f[u], S) = SumOn(f, S)
  BY DEF MapThenSumSet, MapThenFoldSet, SumOn, PartialSums, SumStep

\* The writes let through from tick a to tick b.
LetThrough(a, b) == SumOn(admitted, {u \in Ticks : a <= u /\ u <= b})

WindowStart == resetAt["write"] - Window60

\* In a window no more is let through than is counted and than the limit, and
\* its first request was; so of the minute before it, without that of the
\* window before, less than the limit was.
GateInv ==
  /\ GateTypeOK
  /\ \A u \in Ticks : u > tick => admitted[u] = 0
  /\ hits["write"] = 0 => resetAt["write"] = 0 /\ \A u \in Ticks : admitted[u] = 0
  /\ hits["write"] # 0 =>
       /\ WindowStart \in 0 .. tick /\ admitted[WindowStart] > 0
       /\ LetThrough(WindowStart, LastTick) <= hits["write"]
       /\ LetThrough(WindowStart, LastTick) <= Allowed["write"]
       /\ \A u \in Ticks : u >= resetAt["write"] => admitted[u] = 0
       /\ \A t \in Ticks : WindowStart - Window60 < t /\ t < WindowStart
                             => LetThrough(t, WindowStart - 1) < Allowed["write"]
  /\ \A t \in Ticks : LetThrough(t, t + Window60 - 1) < 2 * Allowed["write"]

LEMMA GateConstants ==
  /\ Window60 \in Nat \ {0} /\ LastTick \in Nat /\ MaxPerTick \in Nat
  /\ "write" \in Limiters /\ "global" \in Limiters
  /\ Allowed["write"] \in Nat \ {0} /\ Allowed["global"] \in Nat \ {0}
  BY GateAssumption DEF Limiters

\* A stretch of ticks is finite, and what it lets through is a number that
\* grows with the stretch; two stretches together let through what they do
\* apart.
LEMMA Stretches ==
  ASSUME admitted \in [Ticks -> Nat]
  PROVE  /\ \A a, b \in Int : LetThrough(a, b) \in Nat
         /\ \A a, b, c, d \in Int : c <= a /\ b <= d => LetThrough(a, b) <= LetThrough(c, d)
         /\ \A a, b, c \in Int : LetThrough(a, c) <= LetThrough(a, b - 1) + LetThrough(b, c)
         /\ \A a, b \in Int : (\A u \in Ticks : a <= u /\ u <= b => admitted[u] = 0)
                                => LetThrough(a, b) = 0
<1>. DEFINE Stretch(a, b) == {u \in Ticks : a <= u /\ u <= b}
<1>1. \A a, b \in Int : /\ IsFiniteSet(Stretch(a, b))
                        /\ \A u \in Stretch(a, b) : admitted[u] \in Nat /\ admitted[u] \in Int
  <2>1. IsFiniteSet(Ticks)
    BY GateConstants, FS_Interval DEF Ticks
  <2>. QED
    BY <2>1, FS_Subset
<1>2. ASSUME NEW a \in Int, NEW b \in Int PROVE LetThrough(a, b) = SumOn(admitted, Stretch(a, b))
  BY DEF LetThrough
<1>3. ASSUME NEW a \in Int, NEW b \in Int, NEW c \in Int
      PROVE  Stretch(a, c) \subseteq Stretch(a, b - 1) \cup Stretch(b, c)
             /\ Stretch(a, b - 1) \cap Stretch(b, c) = {}
  BY GateConstants DEF Ticks
<1>4. ASSUME NEW a \in Int, NEW b \in Int, NEW c \in Int, NEW d \in Int, c <= a, b <= d
      PROVE  Stretch(a, b) \in SUBSET Stretch(c, d)
  BY <1>4, GateConstants DEF Ticks
<1>5. ASSUME NEW a \in Int, NEW b \in Int,
             \A u \in Ticks : a <= u /\ u <= b => admitted[u] = 0
      PROVE  \A u \in Stretch(a, b) : admitted[u] = 0
  BY <1>5
<1>. HIDE DEF Stretch
<1>6. ASSUME NEW a \in Int, NEW b \in Int PROVE LetThrough(a, b) \in Nat
  BY <1>1, <1>2, SumNat
<1>7. ASSUME NEW a \in Int, NEW b \in Int, NEW c \in Int, NEW d \in Int, c <= a, b <= d
      PROVE  LetThrough(a, b) <= LetThrough(c, d)
  <2>1. Stretch(a, b) \in SUBSET Stretch(c, d)
    BY <1>4, <1>7
  <2>. QED
    BY <1>1, <1>2, <2>1, SumMonotone
<1>8. ASSUME NEW a \in Int, NEW b \in Int, NEW c \in Int
      PROVE  LetThrough(a, c) <= LetThrough(a, b - 1) + LetThrough(b, c)
  <2>. DEFINE E == Stretch(a, b - 1)
              F == Stretch(b, c)
  <2>1. b - 1 \in Int
    OBVIOUS
  <2>2. /\ IsFiniteSet(E) /\ IsFiniteSet(F) /\ E \cap F = {}
        /\ \A u \in E \cup F : admitted[u] \in Int /\ admitted[u] \in Nat
        /\ Stretch(a, c) \in SUBSET (E \cup F)
    BY <1>1, <1>3, <2>1
  <2>3. LetThrough(a, b - 1) = SumOn(admitted, E) /\ LetThrough(b, c) = SumOn(admitted, F)
        /\ LetThrough(a, c) = SumOn(admitted, Stretch(a, c))
    BY <1>2, <2>1
  <2>. HIDE DEF E, F
  <2>4. SumOn(admitted, E \cup F) = SumOn(admitted, E) + SumOn(admitted, F)
    BY <2>2, SumUnion
  <2>5. IsFiniteSet(E \cup F)
    BY <2>2, FS_Union
  <2>6. SumOn(admitted, Stretch(a, c)) <= SumOn(admitted, E \cup F)
    BY <2>2, <2>5, SumMonotone
  <2>. QED
    BY <2>3, <2>4, <2>6
<1>9. ASSUME NEW a \in Int, NEW b \in Int,
             \A u \in Ticks : a <= u /\ u <= b => admitted[u] = 0
      PROVE  LetThrough(a, b) = 0
  <2>1. \A u \in Stretch(a, b) : admitted[u] = 0
    BY <1>5, <1>9
  <2>. QED
    BY <1>1, <1>2, <2>1, SumZero
<1>. QED
  BY <1>6, <1>7, <1>8, <1>9

LEMMA StretchesNext ==
  ASSUME admitted' \in [Ticks -> Nat]
  PROVE  /\ \A a, b \in Int : LetThrough(a, b)' \in Nat
         /\ \A a, b, c, d \in Int : c <= a /\ b <= d => LetThrough(a, b)' <= LetThrough(c, d)'
         /\ \A a, b, c \in Int : LetThrough(a, c)' <= LetThrough(a, b - 1)' + LetThrough(b, c)'
  <1>1. (admitted \in [Ticks -> Nat] =>
         /\ \A a, b \in Int : LetThrough(a, b) \in Nat
         /\ \A a, b, c, d \in Int : c <= a /\ b <= d => LetThrough(a, b) <= LetThrough(c, d)
         /\ \A a, b, c \in Int : LetThrough(a, c) <= LetThrough(a, b - 1) + LetThrough(b, c))'
    BY Stretches, PTL
  <1>. QED
    BY <1>1

\* One more is let through at this tick.
LEMMA OneMore ==
  ASSUME GateTypeOK, admitted' = [admitted EXCEPT ![tick] = @ + 1]
  PROVE  \A a, b \in Int :
           LetThrough(a, b)' = IF a <= tick /\ tick <= b THEN LetThrough(a, b) + 1
                               ELSE LetThrough(a, b)
<1>. SUFFICES ASSUME NEW a \in Int, NEW b \in Int
              PROVE  LetThrough(a, b)' = IF a <= tick /\ tick <= b THEN LetThrough(a, b) + 1
                                         ELSE LetThrough(a, b)
  OBVIOUS
<1>. DEFINE S == {u \in Ticks : a <= u /\ u <= b}
<1>0. PICK more : more = admitted'
  OBVIOUS
<1>1. /\ tick \in Ticks /\ admitted \in [Ticks -> Nat]
      /\ more[tick] = admitted[tick] + 1
      /\ \A u \in Ticks : u # tick => more[u] = admitted[u]
  BY <1>0 DEF GateTypeOK
<1>2. LetThrough(a, b) = SumOn(admitted, S) /\ LetThrough(a, b)' = SumOn(more, S)
  BY <1>0 DEF LetThrough, Ticks
<1>3. IsFiniteSet(S)
  <2>1. IsFiniteSet(Ticks)
    BY GateConstants, FS_Interval DEF Ticks
  <2>. QED
    BY <2>1, FS_Subset
<1>4. \A u \in S : u \in Ticks /\ admitted[u] \in Int
  BY <1>1
<1>5. tick \in S <=> a <= tick /\ tick <= b
  BY <1>1
<1>. HIDE DEF S
<1>6. SumOn(admitted, S) \in Int
  BY <1>3, <1>4, SumRemove
<1>7. CASE tick \in S
  <2>1. more[tick] \in Int /\ admitted[tick] \in Int
    BY <1>1
  <2>2. \A u \in S \ {tick} : more[u] = admitted[u]
    BY <1>1, <1>4
  <2>4. \A u \in S : admitted[u] \in Int
    BY <1>4
  <2>3. SumOn(more, S) = SumOn(admitted, S) - admitted[tick] + more[tick]
    BY <1>3, <1>7, <2>1, <2>2, <2>4, SumExcept
  <2>. QED
    BY <1>1, <1>2, <1>5, <1>6, <1>7, <2>1, <2>3
<1>8. CASE tick \notin S
  <2>1. \A u \in S : admitted[u] \in Int /\ more[u] = admitted[u]
    BY <1>1, <1>4, <1>8
  <2>2. SumOn(more, S) = SumOn(admitted, S)
    BY <1>3, <2>1, SumCongruence
  <2>. QED
    BY <1>2, <1>5, <1>8, <2>2
<1>. QED
  BY <1>7, <1>8

LEMMA ChainSteps ==
  ASSUME NEW path
  PROVE  /\ DOMAIN Chain(path) = 1 .. Len(Chain(path))
         /\ Len(Chain(path)) = IF path = "other" THEN 1 ELSE 2
         /\ Chain(path)[1] = "global"
         /\ path # "other" => Chain(path)[2] = path
<1>. DEFINE Names == {"global", path}
            rest == IF path = "other" THEN <<>> ELSE <<path>>
<1>1. <<"global">> \in Seq(Names) /\ Len(<<"global">>) = 1
  OBVIOUS
<1>2. rest \in Seq(Names) /\ Len(rest) = (IF path = "other" THEN 0 ELSE 1)
  <2>1. /\ <<>> \in Seq(Names) /\ Len(<<>>) = 0
        /\ <<path>> \in Seq(Names) /\ Len(<<path>>) = 1
    OBVIOUS
  <2>2. (path = "other" /\ rest = <<>>) \/ (path # "other" /\ rest = <<path>>)
    OBVIOUS
  <2>. HIDE DEF rest, Names
  <2>3. CASE path = "other"
    BY <2>1, <2>2, <2>3
  <2>4. CASE path # "other"
    <3>1. rest = <<path>>
      BY <2>2, <2>4
    <3>2. rest \in Seq(Names) /\ Len(rest) = 1
      BY <2>1, <3>1, Zenon
    <3>. QED
      BY <2>4, <3>2
  <2>. QED
    BY <2>3, <2>4
<1>3. path # "other" => rest[1] = path
  OBVIOUS
<1>. HIDE DEF rest, Names
<1>4. Chain(path) = <<"global">> \o rest
  BY DEF Chain, rest
<1>5. /\ Chain(path) \in Seq(Names) /\ Len(Chain(path)) = 1 + Len(rest)
      /\ \A i \in 1 .. 1 + Len(rest) :
           Chain(path)[i] = IF i <= 1 THEN <<"global">>[i] ELSE rest[i - 1]
  BY <1>1, <1>2, <1>4, ConcatProperties
<1>6. DOMAIN Chain(path) = 1 .. Len(Chain(path))
  BY <1>5, LenProperties
<1>7. Len(Chain(path)) = IF path = "other" THEN 1 ELSE 2
  BY <1>2, <1>5
<1>8. Chain(path)[1] = <<"global">>[1]
  BY <1>2, <1>5
<1>9. path # "other" => Chain(path)[2] = rest[1]
  BY <1>2, <1>5
<1>. QED
  BY <1>3, <1>6, <1>7, <1>8, <1>9

\* What a request does to the limiter of writes: nothing; it is counted and
\* refused; or it is counted, in this window or as the first of the next, and
\* let through.
LEMMA WriteLimiter ==
  ASSUME GateTypeOK, NEW path \in {"other"} \cup (Limiters \ {"global"}),
         RequestArrives(path)
  PROVE  \/ /\ hits'["write"] = hits["write"] /\ resetAt'["write"] = resetAt["write"]
            /\ admitted' = admitted
         \/ /\ ~WindowOver("write") /\ hits'["write"] = hits["write"] + 1
            /\ resetAt'["write"] = resetAt["write"] /\ admitted' = admitted
         \/ /\ hits'["write"] = Counted("write") /\ Counted("write") <= Allowed["write"]
            /\ resetAt'["write"] = IF WindowOver("write") THEN tick + Window60
                                   ELSE resetAt["write"]
            /\ admitted' = [admitted EXCEPT ![tick] = @ + 1]
<1>1. /\ hits'["write"] = IF "write" \in Passed(path) THEN Counted("write") ELSE hits["write"]
      /\ resetAt'["write"] = IF "write" \in Passed(path) /\ WindowOver("write")
                             THEN tick + Window60 ELSE resetAt["write"]
      /\ admitted' = IF path = "write" /\ Refusing(path) = {}
                     THEN [admitted EXCEPT ![tick] = @ + 1] ELSE admitted
  BY GateConstants DEF RequestArrives
<1>2. CASE path # "write"
  <2>1. "write" \notin Passed(path)
    <3>1. \A i \in {1, 2} : (path = "other" /\ i = 2) \/ Chain(path)[i] # "write"
      BY <1>2, ChainSteps
    <3>2. Len(Chain(path)) = IF path = "other" THEN 1 ELSE 2
      BY ChainSteps
    <3>3. DOMAIN Chain(path) = 1 .. Len(Chain(path))
      BY ChainSteps
    <3>4. Refusing(path) # {} => Min(Refusing(path)) \in 1 .. Len(Chain(path))
      <4>1. Refusing(path) \in SUBSET (1 .. Len(Chain(path))) /\ Len(Chain(path)) \in Nat
        BY <3>2, <3>3 DEF Refusing
      <4>. QED
        BY <4>1, MinOfSome
    <3>5. CASE path = "other"
      <4>1. \A i \in 1 .. 1 : Chain(path)[i] = "global"
        BY ChainSteps
      <4>2. \A last \in {0, 1} : "write" \notin {Chain(path)[i] : i \in 1 .. last}
        BY <4>1
      <4>. QED
        BY <3>2, <3>4, <3>5, <4>2 DEF Passed
    <3>6. CASE path # "other"
      <4>1. \A last \in 0 .. 2 : "write" \notin {Chain(path)[i] : i \in 1 .. last}
        BY <3>1, <3>6
      <4>. QED
        BY <3>2, <3>4, <3>6, <4>1 DEF Passed
    <3>. QED
      BY <3>5, <3>6
  <2>. QED
    BY <1>1, <1>2, <2>1
<1>3. CASE path = "write"
  <2>1. /\ DOMAIN Chain("write") = 1 .. 2 /\ Len(Chain("write")) = 2
        /\ Chain("write")[1] = "global" /\ Chain("write")[2] = "write"
    BY ChainSteps
  <2>2. /\ 1 \in Refusing("write") <=> Counted("global") > Allowed["global"]
        /\ 2 \in Refusing("write") <=> Counted("write") > Allowed["write"]
        /\ Refusing("write") \in SUBSET (1 .. 2)
    BY <2>1 DEF Refusing
  <2>3. Counted("write") \in Nat /\ Allowed["write"] \in Nat \ {0}
    BY GateConstants DEF Counted, GateTypeOK
  <2>4. CASE Refusing("write") = {}
    <3>1. Passed("write") = {Chain("write")[i] : i \in 1 .. 2}
      BY <2>1, <2>4 DEF Passed
    <3>2. "write" \in Passed("write")
      <4>1. Chain("write")[2] = "write" /\ 2 \in 1 .. 2
        BY <2>1
      <4>. QED
        BY <3>1, <4>1
    <3>3. Counted("write") <= Allowed["write"]
      BY <2>2, <2>3, <2>4
    <3>. QED
      BY <1>1, <1>3, <2>4, <3>2, <3>3
  <2>5. CASE Refusing("write") # {}
    <3>1. admitted' = admitted
      BY <1>1, <1>3, <2>5
    <3>2. CASE "write" \notin Passed("write")
      BY <1>1, <1>3, <3>1, <3>2
    <3>3. CASE "write" \in Passed("write")
      <4>1. Min(Refusing("write")) \in Refusing("write")
            /\ \A y \in Refusing("write") : Min(Refusing("write")) <= y
        BY <2>2, <2>5, MinOfSome
      <4>2. Passed("write") = {Chain("write")[i] : i \in 1 .. Min(Refusing("write"))}
        BY <2>5 DEF Passed
      <4>3. Min(Refusing("write")) # 1
        <5>1. SUFFICES ASSUME Min(Refusing("write")) = 1 PROVE FALSE
          OBVIOUS
        <5>2. \A i \in 1 .. 1 : Chain("write")[i] = "global"
          BY <2>1
        <5>. QED
          BY <3>3, <4>2, <5>1, <5>2
      <4>4. 2 \in Refusing("write")
        BY <2>2, <4>1, <4>3
      <4>5. Counted("write") > Allowed["write"]
        BY <2>2, <4>4
      <4>6. ~WindowOver("write")
        BY <2>3, <4>5 DEF Counted
      <4>. QED
        BY <1>1, <1>3, <3>1, <3>3, <4>6 DEF Counted
    <3>. QED
      BY <3>2, <3>3
  <2>. QED
    BY <2>4, <2>5
<1>. QED
  BY <1>2, <1>3

\* From the windows to the minutes: one that begins in the window, one that
\* ends in it, and one before.
LEMMA AnyMinute ==
  ASSUME NEW s \in Nat, admitted' \in [Ticks -> Nat],
         LetThrough(s, LastTick)' <= Allowed["write"],
         \A t \in Ticks : s - Window60 < t /\ t < s
                            => LetThrough(t, s - 1)' < Allowed["write"],
         \A t \in Ticks : t <= s - Window60
                            => LetThrough(t, t + Window60 - 1)' < 2 * Allowed["write"]
  PROVE  \A t \in Ticks : LetThrough(t, t + Window60 - 1)' < 2 * Allowed["write"]
<1>. SUFFICES ASSUME NEW t \in Ticks
              PROVE  LetThrough(t, t + Window60 - 1)' < 2 * Allowed["write"]
  OBVIOUS
<1>. DEFINE last == t + Window60 - 1
<1>1. /\ t \in Int /\ last \in Int /\ s - 1 \in Int /\ LastTick \in Int /\ s \in Int
      /\ t \in 0 .. LastTick
      /\ Allowed["write"] \in Nat \ {0} /\ Window60 \in Nat \ {0}
  BY GateConstants DEF Ticks
<1>2. /\ LetThrough(t, last)' \in Nat /\ LetThrough(s, LastTick)' \in Nat
      /\ LetThrough(t, s - 1)' \in Nat /\ LetThrough(s, last)' \in Nat
  BY <1>1, StretchesNext
<1>3. CASE t <= s - Window60
  BY <1>3
<1>4. LetThrough(s, last)' <= LetThrough(s, LastTick)'
  <2>1. \A u \in Ticks : u <= LastTick
    BY <1>1 DEF Ticks
  <2>2. {u \in Ticks : s <= u /\ u <= last} \in SUBSET {u \in Ticks : s <= u /\ u <= LastTick}
    BY <2>1
  <2>3. IsFiniteSet(Ticks)
    BY GateConstants, FS_Interval DEF Ticks
  <2>4. IsFiniteSet({u \in Ticks : s <= u /\ u <= LastTick})
    BY <2>3, FS_Subset
  <2>5. \A u \in {v \in Ticks : s <= v /\ v <= LastTick} : admitted'[u] \in Nat
    OBVIOUS
  <2>6. SumOn(admitted', {u \in Ticks : s <= u /\ u <= last})
          <= SumOn(admitted', {u \in Ticks : s <= u /\ u <= LastTick})
    BY <2>2, <2>4, <2>5, SumMonotone
  <2>. QED
    BY <2>6 DEF LetThrough, Ticks
<1>5. CASE s <= t
  <2>1. LetThrough(t, last)' <= LetThrough(s, last)'
    BY <1>1, <1>5, StretchesNext
  <2>. QED
    BY <1>1, <1>2, <1>4, <2>1
<1>6. CASE s - Window60 < t /\ t < s
  <2>1. LetThrough(t, last)' <= LetThrough(t, s - 1)' + LetThrough(s, last)'
    BY <1>1, StretchesNext
  <2>2. LetThrough(t, s - 1)' < Allowed["write"]
    BY <1>6
  <2>. QED
    BY <1>1, <1>2, <1>4, <2>1, <2>2
<1>. QED
  BY <1>1, <1>3, <1>5, <1>6

\* A request that is let through keeps the invariant.
LEMMA LetThroughKeepsGate ==
  ASSUME GateInv, GateTypeOK', tick' = tick,
         hits'["write"] = Counted("write"), Counted("write") <= Allowed["write"],
         resetAt'["write"] = IF WindowOver("write") THEN tick + Window60 ELSE resetAt["write"],
         admitted' = [admitted EXCEPT ![tick] = @ + 1]
  PROVE  GateInv'
<1>. DEFINE w == "write"
<1>0. PICK s : s = WindowStart
  OBVIOUS
<1>1. /\ tick \in 0 .. LastTick /\ tick \in Ticks /\ LastTick \in Nat /\ Window60 \in Nat \ {0}
      /\ hits[w] \in Nat /\ resetAt[w] \in Nat /\ Allowed[w] \in Nat \ {0}
      /\ admitted \in [Ticks -> Nat] /\ admitted' \in [Ticks -> Nat]
      /\ \A u \in Ticks : u \in Nat /\ u <= LastTick
      /\ LastTick \in Int /\ tick \in Int
  <2>1. /\ Window60 \in Nat \ {0} /\ LastTick \in Nat /\ w \in Limiters
        /\ Allowed[w] \in Nat \ {0}
    BY GateConstants
  <2>2. tick \in Ticks /\ hits[w] \in Nat /\ resetAt[w] \in 0 .. LastTick + Window60
    BY <2>1 DEF GateInv, GateTypeOK
  <2>3. admitted \in [Ticks -> Nat] /\ admitted' \in [Ticks -> Nat]
    BY DEF GateInv, GateTypeOK, Ticks
  <2>. QED
    BY <2>1, <2>2, <2>3 DEF Ticks
<1>2. \A a, b \in Int :
        LetThrough(a, b)' = IF a <= tick /\ tick <= b THEN LetThrough(a, b) + 1
                            ELSE LetThrough(a, b)
  BY OneMore DEF GateInv
<1>3. /\ admitted'[tick] = admitted[tick] + 1
      /\ \A u \in Ticks : u # tick => admitted'[u] = admitted[u]
  BY <1>1
<1>4. \A u \in Ticks : u > tick => admitted'[u] = 0
  BY <1>1, <1>3 DEF GateInv
<1>5. \A t \in Ticks : LetThrough(t, t + Window60 - 1) < 2 * Allowed[w]
  BY DEF GateInv
<1>6. CASE ~WindowOver(w)
  <2>1. hits[w] # 0 /\ tick < resetAt[w]
    BY <1>1, <1>6 DEF GateInv, WindowOver
  <2>2. /\ s \in 0 .. tick /\ admitted[s] > 0
        /\ LetThrough(s, LastTick) <= hits[w] /\ LetThrough(s, LastTick) <= Allowed[w]
        /\ \A u \in Ticks : u >= resetAt[w] => admitted[u] = 0
        /\ \A t \in Ticks : s - Window60 < t /\ t < s => LetThrough(t, s - 1) < Allowed[w]
    BY <1>0, <2>1 DEF GateInv
  <2>3. /\ hits'[w] = hits[w] + 1 /\ resetAt'[w] = resetAt[w] /\ WindowStart' = s
        /\ s \in Int /\ s - 1 \in Int
    BY <1>0, <1>1, <1>6, <2>2 DEF Counted, WindowStart
  <2>4. LetThrough(s, LastTick) \in Nat
    BY <1>1, <2>3, Stretches
  <2>5. LetThrough(s, LastTick)' = LetThrough(s, LastTick) + 1
    BY <1>1, <1>2, <2>2, <2>3
  <2>6. LetThrough(s, LastTick)' <= hits'[w] /\ LetThrough(s, LastTick)' <= Allowed[w]
    BY <1>1, <1>6, <2>2, <2>3, <2>4, <2>5 DEF Counted
  <2>7. \A t \in Ticks : s - Window60 < t /\ t < s => LetThrough(t, s - 1)' < Allowed[w]
    BY <1>1, <1>2, <2>2, <2>3
  <2>8. \A t \in Ticks : t <= s - Window60
                           => LetThrough(t, t + Window60 - 1)' < 2 * Allowed[w]
    <3>. SUFFICES ASSUME NEW t \in Ticks, t <= s - Window60
                  PROVE  LetThrough(t, t + Window60 - 1)' < 2 * Allowed[w]
      OBVIOUS
    <3>1. t \in Int /\ t + Window60 - 1 \in Int /\ ~(tick <= t + Window60 - 1)
      BY <1>1, <2>2, <2>3
    <3>2. LetThrough(t, t + Window60 - 1)' = LetThrough(t, t + Window60 - 1)
      BY <1>2, <3>1
    <3>. QED
      BY <1>5, <3>2
  <2>9. s \in Ticks /\ s \in Nat
    BY <1>1, <2>2 DEF Ticks
  <2>10. admitted'[s] > 0 /\ s \in 0 .. tick'
    BY <1>1, <1>3, <2>2, <2>9
  <2>11. \A u \in Ticks : u >= resetAt'[w] => admitted'[u] = 0
    BY <1>1, <1>3, <2>1, <2>2, <2>3
  <2>12. hits'[w] # 0
    BY <1>1, <2>3
  <2>13. \A t \in Ticks : LetThrough(t, t + Window60 - 1)' < 2 * Allowed[w]
    BY <1>1, <2>6, <2>7, <2>8, <2>9, AnyMinute
  <2>. QED
    BY <1>4, <2>3, <2>6, <2>7, <2>10, <2>11, <2>12, <2>13 DEF GateInv, Ticks, LetThrough
<1>7. CASE WindowOver(w)
  <2>0. PICK now : now = tick
    OBVIOUS
  <2>1. hits'[w] = 1 /\ resetAt'[w] = tick + Window60 /\ WindowStart' = now
        /\ tick >= resetAt[w]
    BY <1>1, <2>0, <1>7 DEF Counted, WindowStart, WindowOver
  <2>2. \A u \in Ticks : u >= tick => admitted[u] = 0
    <3>1. CASE hits[w] = 0
      BY <3>1 DEF GateInv
    <3>2. CASE hits[w] # 0
      BY <1>1, <2>0, <2>1, <3>2 DEF GateInv
    <3>. QED
      BY <3>1, <3>2
  <2>3. LetThrough(now, LastTick) = 0
    BY <1>1, <2>0, <2>2, Stretches
  <2>4. LetThrough(now, LastTick)' = 1
    BY <1>1, <2>0, <1>2, <2>3
  <2>5. LetThrough(now, LastTick)' <= hits'[w] /\ LetThrough(now, LastTick)' <= Allowed[w]
    BY <1>1, <2>0, <2>1, <2>4
  <2>6. ASSUME NEW t \in Ticks, now - Window60 < t, t < now
        PROVE  LetThrough(t, now - 1)' < Allowed[w]
    <3>1. t \in Int /\ now - 1 \in Int
      BY <1>1, <2>0
    <3>2. LetThrough(t, now - 1)' = LetThrough(t, now - 1)
      BY <1>1, <2>0, <1>2, <3>1
    <3>3. CASE hits[w] = 0
      <4>1. LetThrough(t, now - 1) = 0
        BY <1>1, <2>0, <3>1, <3>3, Stretches DEF GateInv
      <4>. QED
        BY <1>1, <2>0, <3>2, <4>1
    <3>4. CASE hits[w] # 0
      <4>1. /\ s \in 0 .. tick /\ admitted[s] > 0 /\ LetThrough(s, LastTick) <= Allowed[w]
        BY <1>0, <3>4 DEF GateInv
      <4>2. s + 1 <= t /\ s \in Int /\ s + 1 \in Int /\ s \in Ticks
        BY <1>0, <1>1, <2>0, <2>1, <2>6, <3>1, <4>1, SMTT(20) DEF WindowStart, Ticks
      <4>3. /\ LetThrough(t, now - 1) <= LetThrough(s + 1, LastTick)
            /\ LetThrough(t, now - 1) \in Nat /\ LetThrough(s + 1, LastTick) \in Nat
            /\ LetThrough(s, LastTick) \in Nat
        <5>1. now - 1 <= LastTick
          BY <1>1, <2>0
        <5>2. LetThrough(t, now - 1) <= LetThrough(s + 1, LastTick)
          BY <1>1, <3>1, <4>2, <5>1, Stretches
        <5>3. LetThrough(t, now - 1) \in Nat
          BY <1>1, <3>1, Stretches
        <5>4. LetThrough(s + 1, LastTick) \in Nat /\ LetThrough(s, LastTick) \in Nat
          BY <1>1, <4>2, Stretches
        <5>. QED
          BY <5>2, <5>3, <5>4
      <4>4. LetThrough(s, LastTick) = admitted[s] + LetThrough(s + 1, LastTick)
        <5>. DEFINE S == {u \in Ticks : s <= u /\ u <= LastTick}
        <5>1. S \ {s} = {u \in Ticks : s + 1 <= u /\ u <= LastTick} /\ s \in S
          <6>1. \A u \in Ticks : (u # s /\ s <= u) <=> s + 1 <= u
            BY <1>1, <4>2
          <6>2. s <= s /\ s <= LastTick
            BY <1>1, <4>2
          <6>. QED
            BY <4>2, <6>1, <6>2
        <5>2. IsFiniteSet(S)
          <6>1. IsFiniteSet(Ticks)
            BY GateConstants, FS_Interval DEF Ticks
          <6>. QED
            BY <6>1, FS_Subset
        <5>3. \A u \in S : admitted[u] \in Int
          BY <1>1, <2>0
        <5>4. LetThrough(s, LastTick) = SumOn(admitted, S)
              /\ LetThrough(s + 1, LastTick) = SumOn(admitted, S \ {s})
          BY <5>1 DEF LetThrough
        <5>. HIDE DEF S
        <5>. QED
          BY <5>1, <5>2, <5>3, <5>4, SumRemove
      <4>5. admitted[s] \in Nat
        BY <1>1, <2>0, <4>2
      <4>. QED
        BY <1>1, <2>0, <3>2, <4>1, <4>3, <4>4, <4>5
    <3>. QED
      BY <3>3, <3>4
  <2>7. \A t \in Ticks : t <= now - Window60
                           => LetThrough(t, t + Window60 - 1)' < 2 * Allowed[w]
    <3>. SUFFICES ASSUME NEW t \in Ticks, t <= now - Window60
                  PROVE  LetThrough(t, t + Window60 - 1)' < 2 * Allowed[w]
      OBVIOUS
    <3>1. t \in Int /\ t + Window60 - 1 \in Int /\ ~(tick <= t + Window60 - 1)
      BY <1>1, <2>0
    <3>2. LetThrough(t, t + Window60 - 1)' = LetThrough(t, t + Window60 - 1)
      BY <1>2, <3>1
    <3>. QED
      BY <1>5, <3>2
  <2>8. admitted'[tick] > 0 /\ tick \in 0 .. tick'
    BY <1>1, <2>0, <1>3
  <2>9. \A u \in Ticks : u >= resetAt'[w] => admitted'[u] = 0
    BY <1>1, <2>0, <1>4, <2>1
  <2>10. \A t \in Ticks : LetThrough(t, t + Window60 - 1)' < 2 * Allowed[w]
    <3>1. \A t \in Ticks : now - Window60 < t /\ t < now => LetThrough(t, now - 1)' < Allowed[w]
      BY <2>6
    <3>2. tick \in Nat
      BY <1>1, <2>0
    <3>. QED
      BY <1>1, <2>0, <2>5, <2>7, <3>1, <3>2, AnyMinute
  <2>. QED
    <3>1. WindowStart' \in 0 .. tick' /\ (admitted[WindowStart])' > 0 /\ hits'[w] # 0
      BY <2>0, <2>1, <2>8
    <3>2. /\ LetThrough(WindowStart, LastTick)' <= hits'[w]
          /\ LetThrough(WindowStart, LastTick)' <= Allowed[w]
      BY <2>1, <2>5 DEF LetThrough, Ticks
    <3>3. \A t \in Ticks : now - Window60 < t /\ t < now => LetThrough(t, now - 1)' < Allowed[w]
      BY <2>6
    <3>4. \A t \in Ticks : (WindowStart - Window60 < t /\ t < WindowStart
                              => LetThrough(t, WindowStart - 1) < Allowed[w])'
      BY <2>1, <3>3 DEF LetThrough, Ticks
    <3>5. (\A u \in Ticks : u > tick => admitted[u] = 0)'
      BY <1>4 DEF Ticks
    <3>. QED
      BY <2>9, <2>10, <3>1, <3>2, <3>4, <3>5 DEF GateInv, Ticks
<1>. QED
  BY <1>6, <1>7

\* What changes nothing of the limiter of writes, at the same tick or a later one.
LEMMA GateStays ==
  ASSUME GateInv, GateTypeOK', tick' >= tick, resetAt'["write"] = resetAt["write"],
         admitted' = admitted,
         \/ hits'["write"] = hits["write"]
         \/ hits["write"] # 0 /\ hits'["write"] = hits["write"] + 1
  PROVE  GateInv'
<1>1. /\ tick \in Nat /\ tick' \in Nat /\ hits["write"] \in Nat
      /\ \A u \in Ticks : u \in Nat
  BY GateConstants DEF GateInv, GateTypeOK, Ticks
<1>2. /\ WindowStart' = WindowStart
      /\ \A a, b : LetThrough(a, b)' = LetThrough(a, b)
  BY DEF WindowStart, LetThrough, Ticks
<1>3. hits'["write"] = 0 => hits["write"] = 0
  BY <1>1
<1>4. ASSUME hits'["write"] # 0
      PROVE  /\ WindowStart \in 0 .. tick' /\ admitted[WindowStart] > 0
             /\ LetThrough(WindowStart, LastTick) <= hits'["write"]
             /\ LetThrough(WindowStart, LastTick) <= Allowed["write"]
             /\ \A u \in Ticks : u >= resetAt["write"] => admitted[u] = 0
             /\ \A t \in Ticks : WindowStart - Window60 < t /\ t < WindowStart
                                   => LetThrough(t, WindowStart - 1) < Allowed["write"]
  <2>1. hits["write"] # 0
    BY <1>4
  <2>2. /\ WindowStart \in 0 .. tick /\ admitted[WindowStart] > 0
        /\ LetThrough(WindowStart, LastTick) <= hits["write"]
        /\ LetThrough(WindowStart, LastTick) <= Allowed["write"]
        /\ \A u \in Ticks : u >= resetAt["write"] => admitted[u] = 0
        /\ \A t \in Ticks : WindowStart - Window60 < t /\ t < WindowStart
                              => LetThrough(t, WindowStart - 1) < Allowed["write"]
    BY <2>1 DEF GateInv
  <2>3. WindowStart \in 0 .. tick'
    BY <1>1, <2>2
  <2>4. WindowStart \in Int /\ LastTick \in Int /\ admitted \in [Ticks -> Nat]
    BY <2>2, GateConstants DEF GateInv, GateTypeOK
  <2>5. LetThrough(WindowStart, LastTick) \in Nat
    BY <2>4, Stretches
  <2>6. LetThrough(WindowStart, LastTick) <= hits'["write"]
    BY <1>1, <2>2, <2>5
  <2>. QED
    BY <2>2, <2>3, <2>6
<1>5. \A u \in Ticks : u > tick' => admitted[u] = 0
  BY <1>1 DEF GateInv
<1>6. /\ hits["write"] = 0 => resetAt["write"] = 0 /\ \A u \in Ticks : admitted[u] = 0
      /\ \A t \in Ticks : LetThrough(t, t + Window60 - 1) < 2 * Allowed["write"]
  BY DEF GateInv
<1>7. /\ (\A u \in Ticks : u > tick => admitted[u] = 0)'
      /\ (hits["write"] = 0 => resetAt["write"] = 0 /\ \A u \in Ticks : admitted[u] = 0)'
      /\ (\A t \in Ticks : LetThrough(t, t + Window60 - 1) < 2 * Allowed["write"])'
  BY <1>2, <1>3, <1>5, <1>6 DEF Ticks
<1>8. (hits["write"] # 0 =>
        /\ WindowStart \in 0 .. tick /\ admitted[WindowStart] > 0
        /\ LetThrough(WindowStart, LastTick) <= hits["write"]
        /\ LetThrough(WindowStart, LastTick) <= Allowed["write"]
        /\ \A u \in Ticks : u >= resetAt["write"] => admitted[u] = 0
        /\ \A t \in Ticks : WindowStart - Window60 < t /\ t < WindowStart
                              => LetThrough(t, WindowStart - 1) < Allowed["write"])'
  BY <1>2, <1>4 DEF Ticks, LetThrough
<1>. QED
  BY <1>7, <1>8 DEF GateInv

LEMMA RequestKeepsGate ==
  ASSUME GateInv, GateTypeOK', tick' = tick,
         NEW path \in {"other"} \cup (Limiters \ {"global"}), RequestArrives(path)
  PROVE  GateInv'
<1>. DEFINE w == "write"
<1>1. tick \in Nat /\ hits[w] \in Nat
  BY GateConstants DEF GateInv, GateTypeOK, Ticks
<1>2. ASSUME hits'[w] = hits[w], resetAt'[w] = resetAt[w], admitted' = admitted
      PROVE  GateInv'
  BY <1>1, <1>2, GateStays
<1>3. ASSUME ~WindowOver(w), hits'[w] = hits[w] + 1, resetAt'[w] = resetAt[w],
             admitted' = admitted
      PROVE  GateInv'
  <2>1. hits[w] # 0
    BY <1>1, <1>3 DEF WindowOver, GateInv
  <2>. QED
    BY <1>1, <1>3, <2>1, GateStays
<1>4. ASSUME hits'[w] = Counted(w), Counted(w) <= Allowed[w],
             resetAt'[w] = IF WindowOver(w) THEN tick + Window60 ELSE resetAt[w],
             admitted' = [admitted EXCEPT ![tick] = @ + 1]
      PROVE  GateInv'
  BY <1>4, LetThroughKeepsGate
<1>5. GateTypeOK
  BY DEF GateInv
<1>. HIDE DEF w
<1>. QED
  BY <1>2, <1>3, <1>4, <1>5, WriteLimiter DEF w

LEMMA RequestTypes ==
  ASSUME GateTypeOK, NEW path, RequestArrives(path)
  PROVE  /\ hits' \in [Limiters -> Nat] /\ resetAt' \in [Limiters -> 0..LastTick + Window60]
         /\ admitted' \in [Ticks -> Nat]
<1>1. /\ tick \in 0 .. LastTick /\ LastTick \in Nat /\ Window60 \in Nat
      /\ hits \in [Limiters -> Nat] /\ resetAt \in [Limiters -> 0..LastTick + Window60]
      /\ admitted \in [Ticks -> Nat]
  BY GateConstants DEF GateTypeOK, Ticks
<1>2. \A k \in Limiters : Counted(k) \in Nat
  BY <1>1 DEF Counted
<1>3. hits' \in [Limiters -> Nat]
  BY <1>1, <1>2 DEF RequestArrives
<1>4. tick + Window60 \in 0 .. LastTick + Window60
  BY <1>1
<1>5. resetAt' \in [Limiters -> 0..LastTick + Window60]
  BY <1>1, <1>4 DEF RequestArrives
<1>6. admitted' \in [Ticks -> Nat]
  <2>1. tick \in Ticks /\ admitted[tick] + 1 \in Nat
    BY <1>1 DEF Ticks
  <2>2. [admitted EXCEPT ![tick] = @ + 1] \in [Ticks -> Nat]
    BY <1>1, <2>1
  <2>. QED
    BY <1>1, <2>2 DEF RequestArrives
<1>. QED
  BY <1>3, <1>5, <1>6

LEMMA GateInvariant == GateSpec => []GateInv
<1>1. GateInit => GateInv
  <2>. SUFFICES ASSUME GateInit PROVE GateInv
    OBVIOUS
  <2>1. /\ tick = 0 /\ asked = 0 /\ form = "idle" /\ left = 0 /\ dueAt = 0
        /\ hits = [k \in Limiters |-> 0] /\ resetAt = [k \in Limiters |-> 0]
        /\ admitted = [t \in Ticks |-> 0]
    BY DEF GateInit
  <2>2. /\ Window60 \in Nat \ {0} /\ LastTick \in Nat /\ MaxPerTick \in Nat /\ "write" \in Limiters
        /\ Allowed["write"] \in Nat \ {0}
    BY GateConstants
  <2>3. GateTypeOK
    <3>1. /\ hits \in [Limiters -> Nat] /\ resetAt \in [Limiters -> 0..LastTick + Window60]
          /\ admitted \in [Ticks -> Nat]
      BY <2>1, <2>2
    <3>2. tick \in Ticks /\ asked \in 0 .. MaxPerTick /\ left \in 0 .. Window60
          /\ dueAt \in 0..LastTick + Window60
      BY <2>1, <2>2 DEF Ticks
    <3>. QED
      BY <2>1, <3>1, <3>2 DEF GateTypeOK
  <2>4. \A u \in Ticks : admitted[u] = 0
    BY <2>1
  <2>5. ASSUME NEW t \in Ticks
        PROVE  LetThrough(t, t + Window60 - 1) < 2 * Allowed["write"]
    <3>1. t \in Int /\ t + Window60 - 1 \in Int
      BY <2>2 DEF Ticks
    <3>2. LetThrough(t, t + Window60 - 1) = 0
      BY <2>3, <2>4, <3>1, Stretches DEF GateTypeOK
    <3>. QED
      BY <2>2, <3>2
  <2>6. hits["write"] = 0 /\ resetAt["write"] = 0
    BY <2>1, <2>2
  <2>. QED
    BY <2>3, <2>4, <2>5, <2>6 DEF GateInv
<1>2. GateInv /\ [GateNext]_gateVars => GateInv'
  <2>. SUFFICES ASSUME GateInv, [GateNext]_gateVars PROVE GateInv'
    OBVIOUS
  <2>0. /\ GateTypeOK /\ Window60 \in Nat \ {0} /\ LastTick \in Nat /\ MaxPerTick \in Nat
        /\ tick \in 0 .. LastTick
    BY GateConstants DEF GateInv, GateTypeOK, Ticks
  <2>1. CASE TickPasses
    <3>1. /\ tick < LastTick /\ tick' = tick + 1 /\ asked' = 0
          /\ UNCHANGED <<hits, resetAt, admitted, form, left, dueAt>>
      BY <2>1 DEF TickPasses
    <3>2. tick' \in Ticks /\ tick' >= tick /\ asked' \in 0 .. MaxPerTick
      BY <2>0, <3>1 DEF Ticks
    <3>3. GateTypeOK'
      BY <2>0, <3>1, <3>2 DEF GateTypeOK, Ticks
    <3>. QED
      BY <3>1, <3>2, <3>3, GateStays
  <2>2. ASSUME UNCHANGED <<tick, hits, resetAt, admitted>>, GateTypeOK' PROVE GateInv'
    BY <2>0, <2>2, GateStays
  <2>3. CASE SubmitForm
    <3>1. GateTypeOK'
      BY <2>0, <2>3 DEF SubmitForm, GateTypeOK, Ticks
    <3>. QED
      BY <2>2, <2>3, <3>1 DEF SubmitForm
  <2>4. CASE FormAnswered
    <3>1. left' \in 0 .. Window60 /\ dueAt' \in 0 .. LastTick + Window60
      BY <2>0, <2>4 DEF FormAnswered, RetryAfter, GateTypeOK
    <3>2. form' = "idle" /\ UNCHANGED <<tick, hits, resetAt, admitted, asked>>
      BY <2>4 DEF FormAnswered
    <3>3. GateTypeOK'
      BY <2>0, <3>1, <3>2 DEF GateTypeOK, Ticks
    <3>. QED
      BY <2>2, <3>2, <3>3
  <2>5. CASE CountDown
    <3>1. left' \in 0 .. Window60 /\ dueAt' \in 0 .. LastTick + Window60
      BY <2>0, <2>5 DEF CountDown, GateTypeOK
    <3>2. UNCHANGED <<tick, hits, resetAt, admitted, asked, form>>
      BY <2>5 DEF CountDown
    <3>3. GateTypeOK'
      BY <2>0, <3>1, <3>2 DEF GateTypeOK, Ticks
    <3>. QED
      BY <2>2, <3>2, <3>3
  <2>6. CASE FormArrives("other")
    <3>1. /\ RequestArrives("other") /\ form' \in {"accepted", "refused"}
          /\ UNCHANGED <<tick, asked, left, dueAt>>
      BY <2>6 DEF FormArrives
    <3>2. GateTypeOK'
      BY <2>0, <3>1, RequestTypes DEF GateTypeOK, Ticks
    <3>. QED
      BY <3>1, <3>2, RequestKeepsGate
  <2>7. ASSUME NEW path \in {"other"} \cup (Limiters \ {"global"}), OtherArrives(path)
        PROVE  GateInv'
    <3>1. /\ RequestArrives(path) /\ asked < MaxPerTick /\ asked' = asked + 1
          /\ UNCHANGED <<tick, form, left, dueAt>>
      BY <2>7 DEF OtherArrives
    <3>2. asked' \in 0 .. MaxPerTick
      BY <2>0, <3>1 DEF GateTypeOK
    <3>3. GateTypeOK'
      BY <2>0, <3>1, <3>2, RequestTypes DEF GateTypeOK, Ticks
    <3>. QED
      BY <3>1, <3>3, RequestKeepsGate
  <2>8. CASE UNCHANGED gateVars
    <3>1. UNCHANGED <<tick, hits, resetAt, admitted, asked, form, left, dueAt>>
      BY <2>8 DEF gateVars
    <3>2. GateTypeOK'
      BY <2>0, <3>1 DEF GateTypeOK, Ticks
    <3>. QED
      BY <2>2, <3>1, <3>2
  <2>. QED
    BY <2>1, <2>3, <2>4, <2>5, <2>6, <2>7, <2>8 DEF GateNext
<1>. QED
  BY <1>1, <1>2, PTL DEF GateSpec

\* In every minute fewer than twice the requests the limit allows are let
\* through (middleware/rateLimit.ts), for any limit and however the minute
\* lies to the windows: the argument needs that a window begins with a
\* request that was let through.
THEOREM TwiceTheLimit == GateSpec => []LessThanTwiceTheLimit
<1>1. GateInv => LessThanTwiceTheLimit
  <2>. SUFFICES ASSUME GateInv, NEW t \in Ticks
                PROVE  MapThenSumSet(LAMBDA u : admitted[u], {u \in t..t + Window60 - 1 : u \in Ticks})
                         < 2 * Allowed["write"]
    BY DEF LessThanTwiceTheLimit
  <2>. DEFINE S == {u \in t..t + Window60 - 1 : u \in Ticks}
  <2>1. S = {u \in Ticks : t <= u /\ u <= t + Window60 - 1}
    BY GateConstants DEF Ticks
  <2>2. LetThrough(t, t + Window60 - 1) = SumOn(admitted, S)
    BY <2>1 DEF LetThrough
  <2>. HIDE DEF S
  <2>3. MapThenSumSet(LAMBDA u : admitted[u], S) = SumOn(admitted, S)
    BY SetSumIsSum
  <2>4. LetThrough(t, t + Window60 - 1) < 2 * Allowed["write"]
    BY DEF GateInv
  <2>. QED
    BY <2>2, <2>3, <2>4 DEF S
<1>. QED
  BY <1>1, GateInvariant, PTL

-----------------------------------------------------------------------------
(* The listings.                                                           *)

\* A kept answer that nothing has overtaken is what the store would answer;
\* and the walk has seen all rows it relies on of the pages it has read.
ListingsInv ==
  /\ ListingsTypeOK
  /\ \A i \in DOMAIN rows : rows[i].at <= i
  /\ table = "transactions" => cache = NothingCached
  /\ \A p \in Pages : cache[p] # NoPage /\ cache[p].shifted = FALSE =>
       cache[p].data = Slice(p) /\ cache[p].total = Cardinality(There)
  /\ walk # NoPage /\ walk.shifted = FALSE =>
       /\ walk.kept \subseteq There
       /\ walk.over = TRUE => walk.kept \subseteq walk.seen
       /\ walk.over = FALSE =>
            \A i \in walk.kept : Rank(i) < (walk.next - 1) * PageLimit => i \in walk.seen

Row == [at : RowIds, there : BOOLEAN]

LEMMA QuotientAbove ==
  ASSUME NEW x \in Nat, NEW y \in Nat, NEW D \in Nat \ {0}, x * D <= y
  PROVE  x <= y \div D
<1>1. y \div D \in Nat /\ y < ((y \div D) + 1) * D
  OBVIOUS
<1>. DEFINE q == y \div D
<1>. HIDE DEF q
<1>2. ASSUME q + 1 <= x PROVE FALSE
  <2>1. q \in Nat /\ q + 1 \in Nat /\ D \in Nat /\ x \in Nat
    BY <1>1 DEF q
  <2>2. (q + 1) * D <= x * D
    BY <1>2, <2>1, ProductMonotone
  <2>3. y < (q + 1) * D
    BY <1>1 DEF q
  <2>4. (q + 1) * D \in Int /\ x * D \in Int
    BY <2>1
  <2>. QED
    BY <2>2, <2>3, <2>4
<1>3. q \in Nat
  BY <1>1 DEF q
<1>. QED
  BY <1>2, <1>3 DEF q

LEMMA RowsType ==
  ASSUME ListingsTypeOK
  PROVE  /\ Len(rows) \in 0 .. MaxRows /\ DOMAIN rows = 1 .. Len(rows)
         /\ DOMAIN rows \subseteq RowIds /\ MaxRows \in Nat \ {0} /\ PageLimit \in Nat \ {0}
         /\ \A i \in DOMAIN rows : /\ rows[i] \in Row /\ rows[i].at \in RowIds
                                   /\ rows[i].there \in BOOLEAN
<1>1. MaxRows \in Nat \ {0} /\ PageLimit \in Nat \ {0}
  BY ListingsAssumption
<1>2. rows \in Seq(Row) /\ Len(rows) <= MaxRows
  BY DEF ListingsTypeOK, Row
<1>. HIDE DEF Row
<1>3. Len(rows) \in Nat /\ DOMAIN rows = 1 .. Len(rows)
  BY <1>2, LenProperties
<1>4. \A i \in DOMAIN rows : rows[i] \in Row
  BY <1>2, <1>3, ElementOfSeq
<1>5. DOMAIN rows \subseteq RowIds
  BY <1>1, <1>2, <1>3 DEF RowIds
<1>. QED
  BY <1>1, <1>2, <1>3, <1>4, <1>5 DEF Row

LEMMA ThereIsFinite ==
  ASSUME ListingsTypeOK
  PROVE  /\ There \subseteq DOMAIN rows /\ There \subseteq RowIds /\ IsFiniteSet(There)
         /\ Cardinality(There) \in 0 .. MaxRows
         /\ \A i : Rank(i) \in Nat
         /\ \A i \in There : Rank(i) < Cardinality(There)
<1>1. /\ There \subseteq RowIds /\ There \subseteq DOMAIN rows /\ MaxRows \in Nat
      /\ \A i \in There : rows[i].at \in Nat /\ i \in Nat
  BY RowsType DEF There, RowIds
<1>2. IsFiniteSet(RowIds) /\ Cardinality(RowIds) = MaxRows
  BY <1>1, FS_Interval DEF RowIds
<1>3. IsFiniteSet(There) /\ Cardinality(There) \in Nat /\ Cardinality(There) <= MaxRows
  BY <1>1, <1>2, FS_Subset, FS_CardinalityType
<1>4. ASSUME NEW i PROVE Rank(i) \in Nat
  <2>1. IsFiniteSet({j \in There : Precedes(j, i)})
    BY <1>3, FS_Subset
  <2>. QED
    BY <2>1, FS_CardinalityType DEF Rank
<1>5. ASSUME NEW i \in There PROVE Rank(i) < Cardinality(There)
  <2>. DEFINE B == {j \in There : Precedes(j, i)}
  <2>1. ~Precedes(i, i)
    BY <1>1 DEF Precedes
  <2>2. B \subseteq There \ {i} /\ IsFiniteSet(There \ {i})
    BY <1>3, <2>1, FS_Subset
  <2>3. Cardinality(There \ {i}) = Cardinality(There) - 1
    BY <1>3, FS_RemoveElement
  <2>4. Cardinality(B) <= Cardinality(There \ {i})
    BY <2>2, FS_Subset
  <2>5. Rank(i) = Cardinality(B)
    BY DEF Rank
  <2>. QED
    BY <1>3, <1>4, <2>3, <2>4, <2>5
<1>. QED
  BY <1>1, <1>3, <1>4, <1>5

\* Rows that come do not move a row to an earlier place.
LEMMA RanksGrow ==
  ASSUME ListingsTypeOK, ListingsTypeOK', There \subseteq There',
         \A i \in DOMAIN rows : rows'[i].at = rows[i].at
  PROVE  \A i \in There : Rank(i) <= Rank(i)'
<1>. SUFFICES ASSUME NEW i \in There PROVE Rank(i) <= Rank(i)'
  OBVIOUS
<1>1. There \subseteq DOMAIN rows
  BY DEF There
<1>2. \A j \in There : Precedes(j, i) => Precedes(j, i)'
  BY <1>1 DEF Precedes
<1>. DEFINE B == {j \in There : Precedes(j, i)}
            C == {j \in There' : Precedes(j, i)'}
<1>3. B \subseteq C
  BY <1>2
<1>4. (ListingsTypeOK => IsFiniteSet(There))'
  BY ThereIsFinite, PTL
<1>5. IsFiniteSet(C)
  BY <1>4, FS_Subset
<1>6. Rank(i) = Cardinality(B) /\ Rank(i)' = Cardinality(C)
  BY DEF Rank
<1>. HIDE DEF B, C
<1>. QED
  BY <1>3, <1>5, <1>6, FS_Subset

LEMMA PageNumbers ==
  /\ MaxRows \in Nat \ {0} /\ PageLimit \in Nat \ {0}
  /\ 1 \in Pages
  /\ \A p \in Pages : /\ p \in Nat \ {0} /\ (p - 1) * PageLimit \in Nat /\ p * PageLimit \in Nat
                      /\ p * PageLimit = (p - 1) * PageLimit + PageLimit
                      /\ p * PageLimit < MaxRows => p + 1 \in Pages
<1>1. MaxRows \in Nat \ {0} /\ PageLimit \in Nat \ {0}
  BY ListingsAssumption
<1>. DEFINE all == MaxRows + PageLimit - 1
            last == all \div PageLimit
<1>2. all \in Nat /\ last \in Nat /\ 1 * PageLimit <= all
  BY <1>1, QuotientBound
<1>3. 1 \in Pages
  <2>1. 1 <= last
    BY <1>1, <1>2, QuotientAbove
  <2>. QED
    BY <1>2, <2>1 DEF Pages
<1>4. ASSUME NEW p \in Pages
      PROVE  /\ p \in Nat \ {0} /\ (p - 1) * PageLimit \in Nat /\ p * PageLimit \in Nat
             /\ p * PageLimit = (p - 1) * PageLimit + PageLimit
  BY <1>1, <1>2 DEF Pages
<1>5. ASSUME NEW p \in Pages, p * PageLimit < MaxRows PROVE p + 1 \in Pages
  <2>1. p \in Nat \ {0} /\ p * PageLimit \in Nat
    BY <1>4
  <2>2. (p + 1) * PageLimit = p * PageLimit + PageLimit
    BY <1>1, <2>1
  <2>3. (p + 1) * PageLimit <= all
    BY <1>1, <1>5, <2>1, <2>2
  <2>4. p + 1 <= last
    BY <1>1, <1>2, <2>1, <2>3, QuotientAbove
  <2>. QED
    BY <1>2, <2>1, <2>4 DEF Pages
<1>. QED
  BY <1>1, <1>3, <1>4, <1>5

\* Nothing is relied on that a change has overtaken.
LEMMA UnnoticedKeepsListings ==
  ASSUME ListingsInv, NEW K \in SUBSET RowIds, ListingsTypeOK', UNCHANGED table,
         table # "transactions",
         \A i \in DOMAIN rows' : rows'[i].at <= i,
         cache' = [p \in Pages |-> Shifted(cache[p])],
         \/ walk' = Shifted(walk)
         \/ walk' = IF walk = NoPage THEN NoPage ELSE [walk EXCEPT !.shifted = TRUE, !.kept = K]
  PROVE  ListingsInv'
<1>1. walk \in WalkRecord \cup {NoPage} /\ \A p \in Pages : cache[p] \in Answer \cup {NoPage}
  BY DEF ListingsInv, ListingsTypeOK
<1>2. \A a \in Answer \cup {NoPage} : Shifted(a) # NoPage => Shifted(a).shifted = TRUE
  BY DEF Shifted, Answer
<1>3. \A p \in Pages : cache'[p] # NoPage => cache'[p].shifted = TRUE
  BY <1>1, <1>2
<1>4. walk' # NoPage => walk'.shifted = TRUE
  BY <1>1 DEF Shifted, WalkRecord
<1>5. (table = "transactions" => cache = NothingCached)'
  OBVIOUS
<1>6. (\A p \in Pages : cache[p] # NoPage /\ cache[p].shifted = FALSE =>
         cache[p].data = Slice(p) /\ cache[p].total = Cardinality(There))'
  BY <1>3 DEF Pages
<1>7. (walk # NoPage /\ walk.shifted = FALSE =>
        /\ walk.kept \subseteq There
        /\ walk.over = TRUE => walk.kept \subseteq walk.seen
        /\ walk.over = FALSE =>
             \A i \in walk.kept : Rank(i) < (walk.next - 1) * PageLimit => i \in walk.seen)'
  BY <1>4
<1>. QED
  BY <1>5, <1>6, <1>7 DEF ListingsInv

\* The walk survives rows that come.
LEMMA GrowthKeepsListings ==
  ASSUME ListingsInv, ListingsTypeOK', UNCHANGED table,
         \A i \in DOMAIN rows' : rows'[i].at <= i,
         There \subseteq There', \A i \in DOMAIN rows : rows'[i].at = rows[i].at,
         cache' = NothingCached, UNCHANGED walk
  PROVE  ListingsInv'
<1>1. /\ ListingsTypeOK
      /\ walk # NoPage /\ walk.shifted = FALSE =>
           /\ walk.kept \subseteq There
           /\ walk.over = TRUE => walk.kept \subseteq walk.seen
           /\ walk.over = FALSE =>
                \A i \in walk.kept : Rank(i) < (walk.next - 1) * PageLimit => i \in walk.seen
  BY DEF ListingsInv
<1>2. \A i \in There : Rank(i) <= Rank(i)' /\ Rank(i) \in Nat
  BY <1>1, RanksGrow, ThereIsFinite
<1>3. (ListingsTypeOK => \A i : Rank(i) \in Nat)'
  BY ThereIsFinite, PTL
<1>4. ASSUME walk # NoPage, walk.shifted = FALSE
      PROVE  /\ walk.kept \subseteq There'
             /\ walk.over = TRUE => walk.kept \subseteq walk.seen
             /\ walk.over = FALSE =>
                  \A i \in walk.kept : Rank(i)' < (walk.next - 1) * PageLimit => i \in walk.seen
  <2>1. walk.kept \subseteq There
    BY <1>1, <1>4
  <2>2. walk.next \in Pages
    BY <1>1, <1>4 DEF ListingsTypeOK, WalkRecord
  <2>3. (walk.next - 1) * PageLimit \in Nat
    BY <2>2, PageNumbers
  <2>4. \A i : Rank(i)' \in Nat
    BY <1>3
  <2>. QED
    BY <1>1, <1>2, <1>4, <2>1, <2>3, <2>4
<1>5. \A p \in Pages : cache'[p] = NoPage
  BY DEF NothingCached
<1>6. (table = "transactions" => cache = NothingCached)'
  BY DEF NothingCached, Pages
<1>7. (\A p \in Pages : cache[p] # NoPage /\ cache[p].shifted = FALSE =>
         cache[p].data = Slice(p) /\ cache[p].total = Cardinality(There))'
  BY <1>5 DEF Pages
<1>8. (walk # NoPage /\ walk.shifted = FALSE =>
        /\ walk.kept \subseteq There
        /\ walk.over = TRUE => walk.kept \subseteq walk.seen
        /\ walk.over = FALSE =>
             \A i \in walk.kept : Rank(i) < (walk.next - 1) * PageLimit => i \in walk.seen)'
  BY <1>4
<1>. QED
  BY <1>6, <1>7, <1>8 DEF ListingsInv

\* What the change of a row, or a new one, leaves as it was.
LEMMA InsertRows ==
  ASSUME ListingsInv, Insert
  PROVE  /\ rows' \in Seq(Row) /\ Len(rows') <= MaxRows /\ UNCHANGED table
         /\ \A i \in DOMAIN rows' : rows'[i].at <= i
         /\ There \subseteq There' /\ \A i \in DOMAIN rows : rows'[i].at = rows[i].at
<1>. DEFINE n == Len(rows)
<1>1. /\ n \in 0 .. MaxRows /\ DOMAIN rows = 1 .. n /\ MaxRows \in Nat \ {0}
      /\ \A i \in DOMAIN rows : rows[i].at \in RowIds /\ rows[i].at <= i
  BY RowsType DEF ListingsInv
<1>2. /\ n < MaxRows /\ UNCHANGED table
      /\ \E later \in {0, 1} :
           rows' = Append(rows, [at |-> (IF rows = <<>> THEN 1 ELSE Last(rows).at + later),
                                 there |-> TRUE])
  BY DEF Insert
<1>3. PICK later \in {0, 1} :
        rows' = Append(rows, [at |-> (IF rows = <<>> THEN 1 ELSE Last(rows).at + later),
                              there |-> TRUE])
  BY <1>2
<1>4. PICK time : time = IF rows = <<>> THEN 1 ELSE Last(rows).at + later
  OBVIOUS
<1>5. rows \in Seq(Row)
  BY DEF ListingsInv, ListingsTypeOK, Row
<1>6. time \in RowIds /\ time <= n + 1
  <2>1. CASE rows = <<>>
    BY <1>1, <1>4, <2>1 DEF RowIds
  <2>2. CASE rows # <<>>
    <3>1. n \in 1 .. MaxRows
      BY <1>1, <1>5, <2>2, EmptySeq
    <3>2. Last(rows).at \in 1 .. n
      BY <1>1, <3>1 DEF Last, RowIds
    <3>. QED
      BY <1>1, <1>2, <1>4, <2>2, <3>2 DEF RowIds
  <2>. QED
    BY <2>1, <2>2
<1>7. PICK new \in Row : new.at = time /\ new = [at |-> time, there |-> TRUE]
  <2>1. [at |-> time, there |-> TRUE] \in Row
    BY <1>6 DEF Row
  <2>. QED
    BY <2>1
<1>8. rows' = Append(rows, new)
  BY <1>3, <1>4, <1>7
<1>9. /\ rows' \in Seq(Row) /\ Len(rows') = n + 1
      /\ \A i \in 1 .. n : rows'[i] = rows[i]
      /\ rows'[n + 1] = new
  BY <1>5, <1>8, AppendProperties
<1>10. DOMAIN rows' = 1 .. n + 1
  BY <1>9, LenProperties
<1>. HIDE DEF n
<1>11. \A i \in DOMAIN rows' : rows'[i].at <= i
  <2>. SUFFICES ASSUME NEW i \in DOMAIN rows' PROVE rows'[i].at <= i
    OBVIOUS
  <2>1. CASE i \in 1 .. n
    BY <1>1, <1>9, <2>1
  <2>2. CASE i = n + 1
    BY <1>6, <1>7, <1>9, <2>2
  <2>. QED
    BY <1>1, <1>10, <2>1, <2>2
<1>12. There \subseteq There'
  BY <1>1, <1>9, <1>10 DEF There
<1>13. Len(rows') <= MaxRows
  BY <1>1, <1>2, <1>9
<1>. QED
  BY <1>1, <1>2, <1>9, <1>11, <1>12, <1>13

LEMMA SetRows ==
  ASSUME ListingsInv, NEW i \in DOMAIN rows, NEW b \in BOOLEAN, SetThere(i, b)
  PROVE  /\ rows' \in Seq(Row) /\ Len(rows') <= MaxRows /\ UNCHANGED table
         /\ \A j \in DOMAIN rows' : rows'[j].at <= j
         /\ b = TRUE => There \subseteq There'
         /\ \A j \in DOMAIN rows : rows'[j].at = rows[j].at
<1>1. /\ rows \in Seq(Row) /\ Len(rows) <= MaxRows
      /\ \A j \in DOMAIN rows : rows[j] \in Row /\ rows[j].at <= j
  BY RowsType DEF ListingsInv, ListingsTypeOK, Row
<1>2. rows' = [rows EXCEPT ![i].there = b] /\ UNCHANGED table
  BY DEF SetThere
<1>3. PICK new \in Row : new = [rows[i] EXCEPT !.there = b] /\ new.at = rows[i].at /\ new.there = b
  <2>1. \A r \in Row : /\ [r EXCEPT !.there = b] \in Row
                       /\ [r EXCEPT !.there = b].at = r.at
                       /\ [r EXCEPT !.there = b].there = b
    BY DEF Row
  <2>2. rows[i] \in Row
    BY <1>1
  <2>. QED
    BY <2>1, <2>2
<1>4. rows' = [rows EXCEPT ![i] = new]
  BY <1>2, <1>3
<1>5. i \in 1 .. Len(rows) /\ Len(rows) \in Nat /\ DOMAIN rows = 1 .. Len(rows)
  BY <1>1, LenProperties
<1>6. rows' \in Seq(Row) /\ Len(rows') = Len(rows) /\ DOMAIN rows' = DOMAIN rows
      /\ \A j \in DOMAIN rows : rows'[j] = IF j = i THEN new ELSE rows[j]
  BY <1>1, <1>4, <1>5, ExceptSeq
<1>7. \A j \in DOMAIN rows : rows'[j].at = rows[j].at
  BY <1>3, <1>6
<1>8. b = TRUE => There \subseteq There'
  BY <1>3, <1>6 DEF There
<1>. QED
  BY <1>1, <1>2, <1>6, <1>7, <1>8

LEMMA ListedType == ASSUME ListingsTypeOK, NEW p PROVE Listed(p) \in Answer
<1>1. Slice(p) \in SUBSET RowIds /\ Cardinality(There) \in 0 .. MaxRows
  BY ThereIsFinite DEF Slice
<1>. QED
  BY <1>1 DEF Listed, Answer

\* A page is read: from the store, or from an answer that was kept.
LEMMA ReadKeepsWalk ==
  ASSUME ListingsInv, Walking, NEW answer \in Answer, Read(answer), UNCHANGED rows,
         answer.shifted = FALSE => /\ answer.data = Slice(walk.next)
                                   /\ answer.total = Cardinality(There)
  PROVE  /\ walk' \in WalkRecord
         /\ (walk # NoPage /\ walk.shifted = FALSE =>
               /\ walk.kept \subseteq There
               /\ walk.over = TRUE => walk.kept \subseteq walk.seen
               /\ walk.over = FALSE =>
                    \A i \in walk.kept : Rank(i) < (walk.next - 1) * PageLimit => i \in walk.seen)'
<1>1. /\ walk \in WalkRecord /\ walk # NoPage /\ walk.over = FALSE /\ walk.next \in Pages
      /\ walk.kept \in SUBSET RowIds /\ walk.seen \in SUBSET RowIds
      /\ walk.shifted \in BOOLEAN
  BY DEF ListingsInv, ListingsTypeOK, Walking, WalkRecord
<1>2. PICK n : n = walk.next
  OBVIOUS
<1>3. /\ n \in Nat \ {0} /\ (n - 1) * PageLimit \in Nat /\ n * PageLimit \in Nat
      /\ n * PageLimit = (n - 1) * PageLimit + PageLimit
      /\ n * PageLimit < MaxRows => n + 1 \in Pages
      /\ MaxRows \in Nat /\ PageLimit \in Nat
  BY <1>1, <1>2, PageNumbers
<1>4. /\ answer.data \in SUBSET RowIds /\ answer.total \in 0 .. MaxRows
      /\ answer.shifted \in BOOLEAN
  BY DEF Answer
<1>5. PICK over \in BOOLEAN : /\ over = (n * PageLimit >= answer.total)
                              /\ over = TRUE => n * PageLimit >= answer.total
                              /\ over = FALSE => ~(n * PageLimit >= answer.total)
  <2>1. CASE n * PageLimit >= answer.total
    <3>1. TRUE = (n * PageLimit >= answer.total)
      BY <2>1
    <3>. QED
      BY <2>1, <3>1
  <2>2. CASE ~(n * PageLimit >= answer.total)
    <3>1. FALSE = (n * PageLimit >= answer.total)
      BY <2>2
    <3>. QED
      BY <2>2, <3>1
  <2>. QED
    BY <2>1, <2>2
<1>6. PICK shifted \in BOOLEAN : shifted = (walk.shifted \/ answer.shifted)
  BY <1>1, <1>4, Zenon
<1>7. PICK next \in Pages : next = IF n + 1 \in Pages THEN n + 1 ELSE n
  BY <1>1, <1>2
<1>8. PICK seen \in SUBSET RowIds : seen = walk.seen \cup answer.data
  BY <1>1, <1>4
<1>9. walk' = [walk EXCEPT !.seen = seen, !.shifted = shifted, !.over = over, !.next = next]
  BY <1>2, <1>5, <1>6, <1>7, <1>8 DEF Read
<1>10. /\ walk' \in WalkRecord /\ walk'.seen = seen /\ walk'.shifted = shifted
       /\ walk'.over = over /\ walk'.next = next /\ walk'.kept = walk.kept
  BY <1>1, <1>9 DEF WalkRecord
<1>11. ASSUME shifted = FALSE
       PROVE  /\ walk.kept \subseteq There
              /\ over = TRUE => walk.kept \subseteq seen
              /\ over = FALSE =>
                   \A i \in walk.kept : Rank(i) < (next - 1) * PageLimit => i \in seen
  <2>1. walk.shifted = FALSE /\ answer.shifted = FALSE
    BY <1>1, <1>4, <1>6, <1>11, Zenon
  <2>2. /\ walk.kept \subseteq There
        /\ \A i \in walk.kept : Rank(i) < (n - 1) * PageLimit => i \in walk.seen
        /\ answer.data = Slice(n) /\ answer.total = Cardinality(There)
    BY <1>1, <1>2, <2>1 DEF ListingsInv
  <2>3. /\ Cardinality(There) \in 0 .. MaxRows
        /\ \A i : Rank(i) \in Nat
        /\ \A i \in There : Rank(i) < Cardinality(There)
    BY ThereIsFinite DEF ListingsInv
  <2>4. \A i \in walk.kept : Rank(i) < n * PageLimit => i \in seen
    <3>. SUFFICES ASSUME NEW i \in walk.kept, Rank(i) < n * PageLimit PROVE i \in seen
      OBVIOUS
    <3>1. CASE Rank(i) < (n - 1) * PageLimit
      BY <1>8, <2>2, <3>1
    <3>2. CASE ~(Rank(i) < (n - 1) * PageLimit)
      <4>1. Rank(i) \in (n - 1) * PageLimit .. n * PageLimit - 1
        BY <1>3, <2>3, <3>2
      <4>2. i \in Slice(n)
        BY <2>2, <4>1 DEF Slice
      <4>. QED
        BY <1>8, <2>2, <4>2
    <3>. QED
      BY <3>1, <3>2
  <2>5. CASE over = TRUE
    <3>1. Cardinality(There) <= n * PageLimit
      BY <1>3, <1>5, <2>2, <2>3, <2>5
    <3>2. \A i \in walk.kept : Rank(i) < n * PageLimit
      BY <1>3, <2>2, <2>3, <3>1
    <3>. QED
      BY <2>2, <2>4, <2>5, <3>2
  <2>6. CASE over = FALSE
    <3>1. n * PageLimit < MaxRows
      BY <1>3, <1>5, <2>2, <2>3, <2>6
    <3>2. next - 1 = n
      BY <1>3, <1>7, <3>1
    <3>. QED
      BY <2>2, <2>4, <2>6, <3>2
  <2>. QED
    BY <1>5, <2>5, <2>6
<1>12. There' = There /\ \A i : Rank(i)' = Rank(i)
  BY DEF There, Rank, Precedes
<1>. QED
  BY <1>10, <1>11, <1>12

LEMMA ListingsStep == ListingsInv /\ [ListingsNext]_listingVars => ListingsInv'
<1>. SUFFICES ASSUME ListingsInv, [ListingsNext]_listingVars PROVE ListingsInv'
  OBVIOUS
<1>. DEFINE Walk(w) ==
       w # NoPage /\ w.shifted = FALSE =>
         /\ w.kept \subseteq There
         /\ w.over = TRUE => w.kept \subseteq w.seen
         /\ w.over = FALSE =>
              \A i \in w.kept : Rank(i) < (w.next - 1) * PageLimit => i \in w.seen
<1>1. /\ ListingsTypeOK /\ table \in Tables
      /\ rows \in Seq(Row) /\ Len(rows) <= MaxRows
      /\ cache \in [Pages -> Answer \cup {NoPage}]
      /\ walk \in WalkRecord \cup {NoPage}
  BY DEF ListingsInv, ListingsTypeOK, Row
<1>2. /\ NothingCached \in [Pages -> Answer \cup {NoPage}]
      /\ [p \in Pages |-> Shifted(cache[p])] \in [Pages -> Answer \cup {NoPage}]
      /\ Shifted(walk) \in WalkRecord \cup {NoPage}
  <2>1. \A a \in Answer \cup {NoPage} : Shifted(a) \in Answer \cup {NoPage}
    BY DEF Shifted, Answer
  <2>2. \A w \in WalkRecord \cup {NoPage} : Shifted(w) \in WalkRecord \cup {NoPage}
    BY DEF Shifted, WalkRecord
  <2>. QED
    BY <1>1, <2>1, <2>2 DEF NothingCached
<1>3. ASSUME UNCHANGED <<table, rows>>, cache' \in [Pages -> Answer \cup {NoPage}],
             \A p \in Pages : cache'[p] = cache[p] \/ cache'[p] = NoPage \/ cache'[p] = Listed(p),
             table = "transactions" => cache' = NothingCached,
             walk' \in WalkRecord \cup {NoPage}, Walk(walk')
      PROVE  ListingsInv'
  <2>1. There' = There /\ (\A i : Rank(i)' = Rank(i)) /\ \A p : Slice(p)' = Slice(p)
    BY <1>3 DEF There, Rank, Precedes, Slice
  <2>2. ListingsTypeOK'
    BY <1>1, <1>3 DEF ListingsTypeOK, Row, Tables
  <2>3. \A p \in Pages : cache'[p] # NoPage /\ cache'[p].shifted = FALSE =>
          cache'[p].data = Slice(p) /\ cache'[p].total = Cardinality(There)
    BY <1>3 DEF ListingsInv, Listed
  <2>4. (\A p \in Pages : cache[p] # NoPage /\ cache[p].shifted = FALSE =>
           cache[p].data = Slice(p) /\ cache[p].total = Cardinality(There))'
    BY <2>1, <2>3 DEF Pages
  <2>5. (walk # NoPage /\ walk.shifted = FALSE =>
         /\ walk.kept \subseteq There
         /\ walk.over = TRUE => walk.kept \subseteq walk.seen
         /\ walk.over = FALSE =>
              \A i \in walk.kept : Rank(i) < (walk.next - 1) * PageLimit => i \in walk.seen)'
    BY <1>3, <2>1
  <2>6. (table = "transactions" => cache = NothingCached)'
    BY <1>3 DEF NothingCached, Pages
  <2>7. (\A i \in DOMAIN rows : rows[i].at <= i)'
    BY <1>3 DEF ListingsInv
  <2>. QED
    BY <2>2, <2>4, <2>5, <2>6, <2>7 DEF ListingsInv
<1>4. Walk(walk)
  BY DEF ListingsInv
<1>5. ASSUME Insert \/ \E i \in RowIds : i \in DOMAIN rows /\ SetThere(i, TRUE),
             cache' = NothingCached, UNCHANGED walk
      PROVE  ListingsInv'
  <2>1. /\ rows' \in Seq(Row) /\ Len(rows') <= MaxRows /\ UNCHANGED table
        /\ \A i \in DOMAIN rows' : rows'[i].at <= i
        /\ There \subseteq There' /\ \A i \in DOMAIN rows : rows'[i].at = rows[i].at
    BY <1>5, InsertRows, SetRows
  <2>2. ListingsTypeOK'
    BY <1>1, <1>2, <1>5, <2>1 DEF ListingsTypeOK, Row, Tables
  <2>. QED
    BY <1>5, <2>1, <2>2, GrowthKeepsListings
<1>6. ASSUME Insert \/ \E i \in RowIds, b \in BOOLEAN : i \in DOMAIN rows /\ SetThere(i, b),
             table # "transactions",
             NEW K \in SUBSET RowIds,
             cache' = [p \in Pages |-> Shifted(cache[p])],
             \/ walk' = Shifted(walk)
             \/ walk' = IF walk = NoPage THEN NoPage
                        ELSE [walk EXCEPT !.shifted = TRUE, !.kept = K]
      PROVE  ListingsInv'
  <2>1. /\ rows' \in Seq(Row) /\ Len(rows') <= MaxRows /\ UNCHANGED table
        /\ \A i \in DOMAIN rows' : rows'[i].at <= i
    BY <1>6, InsertRows, SetRows
  <2>2. walk' \in WalkRecord \cup {NoPage}
    <3>1. walk # NoPage => [walk EXCEPT !.shifted = TRUE, !.kept = K] \in WalkRecord
      BY <1>1 DEF WalkRecord
    <3>. QED
      BY <1>2, <1>6, <3>1
  <2>3. ListingsTypeOK'
    BY <1>1, <1>2, <1>6, <2>1, <2>2 DEF ListingsTypeOK, Row, Tables
  <2>. QED
    BY <1>6, <2>1, <2>3, UnnoticedKeepsListings
<1>7. /\ RowIds \in SUBSET RowIds
      /\ \A i \in There : i \in RowIds /\ i \in DOMAIN rows
      /\ \A i \in DOMAIN rows : i \in RowIds
  BY <1>1, RowsType DEF There
<1>8. CASE ListNewLoan
  <2>1. Insert /\ table # "transactions" /\ Unnoticed
    BY <1>8 DEF ListNewLoan
  <2>. QED
    BY <1>6, <1>7, <2>1 DEF Unnoticed
<1>9. CASE ListNewCollateral \/ ListNewAppraisal
  <2>1. Insert /\ InvalidateCache
    BY <1>9 DEF ListNewCollateral, ListNewAppraisal
  <2>. QED
    BY <1>5, <2>1 DEF InvalidateCache
<1>10. CASE ListNewTransaction
  <2>1. Insert /\ UNCHANGED walk /\ cache' = NothingCached
    BY <1>10 DEF ListNewTransaction, ListingsInv
  <2>. QED
    BY <1>5, <2>1
<1>11. ASSUME NEW i \in RowIds, Delist(i) PROVE ListingsInv'
  <2>1. /\ table # "transactions" /\ i \in There /\ SetThere(i, FALSE)
        /\ cache' = [p \in Pages |-> Shifted(cache[p])]
        /\ walk' = IF walk = NoPage THEN NoPage
                   ELSE [walk EXCEPT !.shifted = TRUE, !.kept = @ \ {i}]
    BY <1>11 DEF Delist
  <2>2. CASE walk = NoPage
    <3>1. walk' = Shifted(walk)
      BY <2>1, <2>2 DEF Shifted
    <3>. QED
      BY <1>6, <1>7, <2>1, <3>1
  <2>3. CASE walk # NoPage
    <3>1. PICK K \in SUBSET RowIds : K = walk.kept \ {i}
      BY <1>1, <2>3 DEF WalkRecord
    <3>2. walk' = IF walk = NoPage THEN NoPage
                  ELSE [walk EXCEPT !.shifted = TRUE, !.kept = K]
      BY <2>1, <3>1
    <3>. QED
      BY <1>6, <1>7, <2>1, <3>2
  <2>. QED
    BY <2>2, <2>3
<1>12. ASSUME NEW i \in RowIds, Relist(i) PROVE ListingsInv'
  <2>1. table # "transactions" /\ i \in DOMAIN rows /\ SetThere(i, TRUE) /\ Unnoticed
    BY <1>12 DEF Relist
  <2>. QED
    BY <1>6, <1>7, <2>1 DEF Unnoticed
<1>13. ASSUME NEW i \in RowIds, RelistCollateral(i) PROVE ListingsInv'
  <2>1. i \in DOMAIN rows /\ SetThere(i, TRUE) /\ InvalidateCache
    BY <1>13 DEF RelistCollateral
  <2>. QED
    BY <1>5, <2>1 DEF InvalidateCache
<1>14. CASE RowChanges
  <2>1. UNCHANGED <<table, rows, walk>> /\ cache' = NothingCached
    BY <1>14 DEF RowChanges, InvalidateCache
  <2>2. \A p \in Pages : cache'[p] = NoPage
    BY <2>1 DEF NothingCached
  <2>. QED
    BY <1>1, <1>2, <1>3, <1>4, <2>1, <2>2
<1>15. ASSUME NEW p \in Pages, AnswerExpires(p) PROVE ListingsInv'
  <2>1. /\ cache[p] # NoPage /\ cache' = [cache EXCEPT ![p] = NoPage]
        /\ UNCHANGED <<table, rows, walk>>
    BY <1>15 DEF AnswerExpires
  <2>2. cache' \in [Pages -> Answer \cup {NoPage}]
        /\ \A q \in Pages : cache'[q] = cache[q] \/ cache'[q] = NoPage
    BY <1>1, <2>1
  <2>3. table # "transactions"
    BY <2>1 DEF ListingsInv, NothingCached
  <2>. QED
    BY <1>1, <1>3, <1>4, <2>1, <2>2, <2>3
<1>16. table = "transactions" => cache = NothingCached
  BY DEF ListingsInv
<1>17. CASE StartWalk
  <2>1. /\ UNCHANGED <<table, rows, cache>>
        /\ walk' = [next |-> 1, seen |-> {}, kept |-> There, shifted |-> FALSE, over |-> FALSE]
    BY <1>17 DEF StartWalk
  <2>2. 1 \in Pages /\ There \in SUBSET RowIds /\ PageLimit \in Nat /\ \A i : Rank(i) \in Nat
    BY <1>1, PageNumbers, ThereIsFinite
  <2>3. walk' \in WalkRecord
    BY <2>1, <2>2 DEF WalkRecord
  <2>4. walk'.kept = There /\ walk'.over = FALSE /\ (walk'.next - 1) * PageLimit = 0
    BY <2>1, <2>2
  <2>5. Walk(walk')
    BY <2>2, <2>4
  <2>. QED
    BY <1>1, <1>3, <1>16, <2>1, <2>3, <2>5
<1>18. CASE EndWalk
  <2>1. UNCHANGED <<table, rows, cache>> /\ walk' = NoPage
    BY <1>18 DEF EndWalk
  <2>. QED
    BY <1>1, <1>3, <1>16, <2>1
<1>19. CASE UNCHANGED listingVars
  <2>1. UNCHANGED <<table, rows, cache, walk>>
    BY <1>19 DEF listingVars
  <2>. QED
    BY <1>1, <1>3, <1>4, <1>16, <2>1
<1>20. ASSUME UNCHANGED rows, Walking, NEW answer \in Answer, Read(answer),
              answer.shifted = FALSE => /\ answer.data = Slice(walk.next)
                                        /\ answer.total = Cardinality(There)
       PROVE  walk' \in WalkRecord \cup {NoPage} /\ Walk(walk')
  <2>1. /\ walk' \in WalkRecord
        /\ (walk # NoPage /\ walk.shifted = FALSE =>
               /\ walk.kept \subseteq There
               /\ walk.over = TRUE => walk.kept \subseteq walk.seen
               /\ walk.over = FALSE =>
                    \A i \in walk.kept : Rank(i) < (walk.next - 1) * PageLimit => i \in walk.seen)'
    BY <1>20, ReadKeepsWalk
  <2>2. There' = There /\ \A i : Rank(i)' = Rank(i)
    BY <1>20 DEF There, Rank, Precedes
  <2>. QED
    BY <2>1, <2>2
<1>21. ASSUME Walking
       PROVE  /\ Listed(walk.next) \in Answer /\ walk.next \in Pages
              /\ Listed(walk.next).data = Slice(walk.next)
              /\ Listed(walk.next).total = Cardinality(There)
  <2>1. walk.next \in Pages
    BY <1>1, <1>21 DEF Walking, WalkRecord
  <2>. QED
    BY <1>1, <2>1, ListedType DEF Listed
<1>22. CASE ReadStored
  <2>1. Walking /\ Read(Listed(walk.next)) /\ UNCHANGED <<table, rows, cache>>
    BY <1>22 DEF ReadStored
  <2>2. walk' \in WalkRecord \cup {NoPage} /\ Walk(walk')
    BY <1>20, <1>21, <2>1
  <2>. QED
    BY <1>1, <1>3, <1>16, <2>1, <2>2
<1>23. CASE ReadThroughCache /\ table # "transactions"
  <2>1. Walking /\ UNCHANGED <<table, rows>>
    BY <1>23 DEF ReadThroughCache
  <2>2. CASE cache[walk.next] # NoPage
    <3>1. Read(cache[walk.next]) /\ UNCHANGED cache
      BY <1>23, <2>2 DEF ReadThroughCache
    <3>2. /\ cache[walk.next] \in Answer
          /\ cache[walk.next].shifted = FALSE => /\ cache[walk.next].data = Slice(walk.next)
                                                 /\ cache[walk.next].total = Cardinality(There)
      BY <1>1, <1>21, <2>1, <2>2 DEF ListingsInv
    <3>3. walk' \in WalkRecord \cup {NoPage} /\ Walk(walk')
      BY <1>20, <2>1, <3>1, <3>2
    <3>. QED
      BY <1>1, <1>3, <1>16, <2>1, <3>1, <3>3
  <2>3. CASE cache[walk.next] = NoPage
    <3>1. /\ Read(Listed(walk.next))
          /\ cache' = [cache EXCEPT ![walk.next] = Listed(walk.next)]
      BY <1>23, <2>3 DEF ReadThroughCache
    <3>2. walk' \in WalkRecord \cup {NoPage} /\ Walk(walk')
      BY <1>20, <1>21, <2>1, <3>1
    <3>3. /\ cache' \in [Pages -> Answer \cup {NoPage}]
          /\ \A p \in Pages : cache'[p] = cache[p] \/ cache'[p] = Listed(p)
      BY <1>1, <1>21, <2>1, <3>1
    <3>. QED
      BY <1>1, <1>3, <1>23, <2>1, <3>2, <3>3
  <2>. QED
    BY <2>2, <2>3
<1>24. ASSUME \/ ReadLoans \/ ReadCollateral \/ ReadAppraisals
              \/ ReadCollateralV1 \/ ReadLoansV1 \/ ReadTransactions \/ ReadTransactionsV1
       PROVE  ListingsInv'
  <2>1. ReadStored \/ (ReadThroughCache /\ table # "transactions")
    BY <1>24 DEF ReadLoans, ReadCollateral, ReadAppraisals, ReadCollateralV1, ReadLoansV1,
                 ReadTransactions, ReadTransactionsV1
  <2>. QED
    BY <1>22, <1>23, <2>1
<1>. QED
  BY <1>8, <1>9, <1>10, <1>11, <1>12, <1>13, <1>14, <1>15, <1>17, <1>18, <1>19, <1>24
     DEF ListingsNext

LEMMA ListingsInvariant == ListingsSpec => []ListingsInv
<1>1. ListingsInit => ListingsInv
  <2>. SUFFICES ASSUME ListingsInit PROVE ListingsInv
    OBVIOUS
  <2>1. /\ table \in Tables /\ rows = <<>> /\ cache = NothingCached /\ walk = NoPage
        /\ MaxRows \in Nat
    BY ListingsAssumption DEF ListingsInit
  <2>2. /\ rows \in Seq([at : RowIds, there : BOOLEAN]) /\ Len(rows) <= MaxRows
        /\ DOMAIN rows = {}
    BY <2>1
  <2>3. cache \in [Pages -> Answer \cup {NoPage}] /\ \A p \in Pages : cache[p] = NoPage
    BY <2>1 DEF NothingCached
  <2>. QED
    BY <2>1, <2>2, <2>3 DEF ListingsInv, ListingsTypeOK
<1>. QED
  BY <1>1, ListingsStep, PTL DEF ListingsSpec

\* Who reads a listing to its end (the paginated handlers of index.ts behind
\* the response cache) sees every row that stayed, however many are inserted
\* between the pages and however old the cached ones are, unless something
\* was deleted or came unnoticed by the cache.
THEOREM WalksMissNothing == ListingsSpec => []WalkSeesWhatStays
<1>1. ListingsInv => WalkSeesWhatStays
  <2>. SUFFICES ASSUME ListingsInv, walk # NoPage, walk.over, ~walk.shifted
                PROVE  walk.kept \subseteq walk.seen
    BY DEF WalkSeesWhatStays
  <2>1. walk.shifted \in BOOLEAN /\ walk.over \in BOOLEAN
    BY DEF ListingsInv, ListingsTypeOK, WalkRecord
  <2>2. walk.shifted = FALSE /\ walk.over = TRUE
    BY <2>1, Zenon
  <2>. QED
    BY <2>2 DEF ListingsInv
<1>. QED
  BY <1>1, ListingsInvariant, PTL

-----------------------------------------------------------------------------
(* The interest rate.  Each of its quotients is monotone, and at the kink  *)
(* the flat part is full.                                                  *)

\* A quotient is a natural number, and grows with its dividend.
LEMMA QuotientMonotone ==
  ASSUME NEW a \in Nat, NEW b \in Nat, a <= b, NEW c \in Nat \ {0}
  PROVE  a \div c \in Nat /\ a \div c <= b \div c
<1>. DEFINE p == a \div c
            q == b \div c
<1>1. p \in Nat /\ q \in Nat /\ p * c <= a /\ b < (q + 1) * c
  OBVIOUS
<1>2. p * c < (q + 1) * c
  BY <1>1
<1>. HIDE DEF p, q
<1>3. ASSUME p >= q + 1 PROVE FALSE
  <2>1. p * c >= (q + 1) * c
    BY <1>1, <1>3
  <2>. QED  BY <1>1, <1>2, <2>1
<1>4. p <= q
  BY <1>1, <1>3
<1>. QED  BY <1>1, <1>4 DEF p, q

\* The two together: a share of s, in parts of the scale.
LEMMA ShareMonotone ==
  ASSUME NEW s \in Nat, NEW u \in Nat, NEW v \in Nat, u <= v
  PROVE  /\ (s * u) \div RateScale \in Nat
         /\ (s * u) \div RateScale <= (s * v) \div RateScale
<1>1. s * u \in Nat /\ s * v \in Nat /\ s * u <= s * v
  BY ProductMonotone
<1>. QED
  BY <1>1, QuotientMonotone, RateCurveAssumption

\* The curve is monotone in the utilisation.
LEMMA CurveMonotone ==
  ASSUME NEW m \in RateModels, NEW u \in Nat, NEW v \in Nat, u <= v
  PROVE  InterestRate(m, u) <= InterestRate(m, v)
<1>. DEFINE Flat(x) == (m.slope1 * x) \div RateScale
            Steep(x) == (m.slope2 * x) \div RateScale
<1>1. m.base \in Nat /\ m.slope1 \in Nat /\ m.slope2 \in Nat /\ m.kink \in Nat
  BY RateCurveAssumption
<1>2. \A x, y \in Nat : x <= y =>
        /\ Flat(x) \in Nat /\ Flat(y) \in Nat /\ Flat(x) <= Flat(y)
        /\ Steep(x) \in Nat /\ Steep(y) \in Nat /\ Steep(x) <= Steep(y)
  <2>. TAKE x, y \in Nat
  <2>. HAVE x <= y
  <2>1. y <= y
    OBVIOUS
  <2>2. /\ Flat(x) \in Nat /\ Flat(x) <= Flat(y)
        /\ Steep(x) \in Nat /\ Steep(x) <= Steep(y)
    BY <1>1, ShareMonotone
  <2>3. Flat(y) \in Nat /\ Steep(y) \in Nat
    BY <1>1, <2>1, ShareMonotone
  <2>. QED  BY <2>2, <2>3
<1>3. \A x \in Nat : InterestRate(m, x) =
        IF x <= m.kink THEN m.base + Flat(x)
        ELSE m.base + Flat(m.kink) + Steep(x - m.kink)
  BY DEF InterestRate
<1>. HIDE DEF Flat, Steep
<1>4. CASE v <= m.kink
  BY <1>1, <1>2, <1>3, <1>4
<1>5. CASE u <= m.kink /\ v > m.kink
  <2>1. Flat(u) <= Flat(m.kink) /\ Flat(u) \in Nat /\ Flat(m.kink) \in Nat
    BY <1>1, <1>2, <1>5
  <2>2. v - m.kink \in Nat /\ Steep(v - m.kink) \in Nat
    BY <1>1, <1>2, <1>5
  <2>. QED  BY <1>1, <1>3, <1>5, <2>1, <2>2
<1>6. CASE u > m.kink
  <2>1. u - m.kink \in Nat /\ v - m.kink \in Nat /\ u - m.kink <= v - m.kink
    BY <1>1, <1>6
  <2>2. /\ Steep(u - m.kink) <= Steep(v - m.kink)
        /\ Steep(u - m.kink) \in Nat /\ Steep(v - m.kink) \in Nat
    BY <1>2, <2>1
  <2>3. Flat(m.kink) \in Nat
    BY <1>1, <1>2
  <2>. QED  BY <1>1, <1>3, <1>6, <2>2, <2>3
<1>. QED  BY <1>1, <1>4, <1>5, <1>6

\* The rate is a number.
LEMMA CurveInteger ==
  ASSUME NEW m \in RateModels, NEW u \in Nat
  PROVE  InterestRate(m, u) \in Int
<1>1. m.base \in Nat /\ m.slope1 \in Nat /\ m.slope2 \in Nat /\ m.kink \in Nat
  BY RateCurveAssumption
<1>2. \A s, x \in Nat : (s * x) \div RateScale \in Nat
  BY ShareMonotone
<1>3. u > m.kink => u - m.kink \in Nat
  BY <1>1
<1>. QED  BY <1>1, <1>2, <1>3 DEF InterestRate

\* Utilisation is a natural number, whatever the totals.
LEMMA UtilizationNat ==
  ASSUME NEW b \in Nat, NEW l \in Nat PROVE Utilization(b, l) \in Nat
<1>. DEFINE share == (b * RateScale) \div l
<1>1. CASE l <= 0
  BY <1>1 DEF Utilization
<1>2. CASE l > 0
  <2>1. b * RateScale \in Nat
    BY RateCurveAssumption
  <2>2. share \in Nat
    BY <1>2, <2>1, QuotientMonotone
  <2>. QED  BY <1>2, <2>2, RateCurveAssumption DEF Utilization
<1>. QED  BY <1>1, <1>2

\* The types are kept.
LEMMA CurveTypes == CurveSpec => []CurveTypeOK
<1>1. CurveInit => CurveTypeOK
  BY RateCurveAssumption DEF CurveInit, CurveTypeOK
<1>2. CurveTypeOK /\ [CurveNext]_curveVars => CurveTypeOK'
  BY DEF CurveTypeOK, CurveNext, TotalsMove, curveVars
<1>. QED  BY <1>1, <1>2, PTL DEF CurveSpec

\* The rate never falls while utilisation rises (calcInterestRate), for every
\* scale, every parameters of the curve and every amounts.
THEOREM RateNeverFalls == CurveSpec => RateRises
<1>1. CurveTypeOK /\ CurveTypeOK' /\ [CurveNext]_curveVars =>
        [InUse' >= InUse
           => InterestRate(rateModel', InUse') >= InterestRate(rateModel, InUse)
        ]_curveVars
  <2>. SUFFICES ASSUME CurveTypeOK, CurveTypeOK', CurveNext, InUse' >= InUse
                PROVE  InterestRate(rateModel', InUse') >= InterestRate(rateModel, InUse)
    OBVIOUS
  <2>1. rateModel' = rateModel /\ rateModel \in RateModels
    BY DEF CurveNext, TotalsMove, CurveTypeOK
  <2>2. InUse \in Nat /\ InUse' \in Nat
    BY UtilizationNat, RateCurveAssumption DEF CurveTypeOK, InUse
  <2>3. InterestRate(rateModel, InUse) <= InterestRate(rateModel, InUse')
    BY <2>1, <2>2, CurveMonotone
  <2>4. InterestRate(rateModel, InUse) \in Int /\ InterestRate(rateModel, InUse') \in Int
    BY <2>1, <2>2, CurveInteger
  <2>. QED  BY <2>1, <2>3, <2>4
<1>. QED  BY <1>1, CurveTypes, PTL DEF CurveSpec, RateRises
=============================================================================

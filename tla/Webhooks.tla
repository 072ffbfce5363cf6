------------------------------ MODULE Webhooks ------------------------------
(***************************************************************************)
(* Webhook deliveries (backend/src/webhooks.ts).  fireWebhooks starts one  *)
(* delivery per registered webhook and awaits none of them; a delivery is  *)
(* attempted until the receiver accepts it, or attempts run out.  All of   *)
(* it is in memory.                                                        *)
(***************************************************************************)
EXTENDS Integers

CONSTANTS
  Hooks,             \* bound: webhook ids ever drawn
  MaxFired,          \* bound: events fired
  DeliveryAttempts,  \* MAX_ATTEMPTS
  NoDelivery

ASSUME WebhooksAssumption == MaxFired \in Nat /\ DeliveryAttempts \in Nat \ {0}

VARIABLES
  hooks,      \* the registered webhooks
  hookIds,    \* ids drawn so far
  fired,      \* number of events fired
  delivery    \* webhook and event -> its entry in deliveryLogs

webhookVars == <<hooks, hookIds, fired, delivery>>

DeliveryIds == Hooks \X (1 .. MaxFired)

\* copies counts the requests that reached the receiver.
Delivery == [stage : {"sent", "received", "backoff", "over"},
             attempts : 1 .. DeliveryAttempts,
             copies : 0 .. DeliveryAttempts, deliveredAt : BOOLEAN]

WebhooksTypeOK ==
  /\ hooks \subseteq hookIds /\ hookIds \subseteq Hooks
  /\ fired \in 0 .. MaxFired
  /\ delivery \in [DeliveryIds -> Delivery \cup {NoDelivery}]

NoDeliveries == [d \in DeliveryIds |-> NoDelivery]

WebhooksInit ==
  /\ hooks = {} /\ hookIds = {} /\ fired = 0
  /\ delivery = NoDeliveries

-----------------------------------------------------------------------------
RegisterWebhook(h) ==
  /\ h \notin hookIds
  /\ hooks' = hooks \cup {h} /\ hookIds' = hookIds \cup {h}
  /\ UNCHANGED <<fired, delivery>>

\* Deliveries under way go on.
DeleteWebhook(h) ==
  /\ h \in hooks
  /\ hooks' = hooks \ {h}
  /\ UNCHANGED <<hookIds, fired, delivery>>

FireWebhooks ==
  /\ fired < MaxFired
  /\ fired' = fired + 1
  /\ delivery' = [d \in DeliveryIds |->
       IF d[1] \in hooks /\ d[2] = fired + 1
       THEN [stage |-> "sent", attempts |-> 1, copies |-> 0, deliveredAt |-> FALSE]
       ELSE delivery[d]]
  /\ UNCHANGED <<hooks, hookIds>>

-----------------------------------------------------------------------------
(* One attempt: the request reaches the receiver, and its answer the       *)
(* backend, or either is lost.                                             *)

Stage(d, stage) == delivery[d] # NoDelivery /\ delivery[d].stage = stage

ChangeDelivery(d, entry) ==
  /\ delivery' = [delivery EXCEPT ![d] = entry]
  /\ UNCHANGED <<hooks, hookIds, fired>>

Arrives(d) ==
  /\ Stage(d, "sent")
  /\ ChangeDelivery(d, [delivery[d] EXCEPT !.stage = "received", !.copies = @ + 1])

\* Armed unless the attempts have run out.
AfterAttempt(d) == IF delivery[d].attempts < DeliveryAttempts THEN "backoff" ELSE "over"

\* Mutant: no return after a success.
AcceptedGoingOn(d) ==
  /\ Stage(d, "received")
  /\ ChangeDelivery(d, [delivery[d] EXCEPT !.stage = AfterAttempt(d), !.deliveredAt = TRUE])

\* res.ok.
Accepted(d) ==
  /\ Stage(d, "received")
  /\ ChangeDelivery(d, [delivery[d] EXCEPT !.stage = "over", !.deliveredAt = TRUE])

\* Another status, or fetch throws, before or after the request arrived.
AttemptFails(d) ==
  /\ Stage(d, "sent") \/ Stage(d, "received")
  /\ ChangeDelivery(d, [delivery[d] EXCEPT !.stage = AfterAttempt(d)])

TryAgain(d) ==
  /\ Stage(d, "backoff")
  /\ ChangeDelivery(d, [delivery[d] EXCEPT !.stage = "sent", !.attempts = @ + 1])

\* The process restarts.
WebhooksLost ==
  /\ hooks' = {} /\ delivery' = NoDeliveries
  /\ UNCHANGED <<hookIds, fired>>

WebhooksNext ==
  \/ \E h \in Hooks : RegisterWebhook(h) \/ DeleteWebhook(h)
  \/ FireWebhooks \/ WebhooksLost
  \/ \E d \in DeliveryIds :
       Arrives(d) \/ Accepted(d) \/ AttemptFails(d) \/ TryAgain(d)

WebhooksSpec == WebhooksInit /\ [][WebhooksNext]_webhookVars

-----------------------------------------------------------------------------
(* Properties.                                                             *)

\* A receiver gets copies of an event as long as its acceptance is lost, and
\* none after it was logged: whatever the lost answers and deregistrations.
NoCopyOnceAccepted ==
  [][\A d \in DeliveryIds :
       delivery[d] # NoDelivery /\ delivery[d].deliveredAt /\ delivery'[d] # NoDelivery
         => delivery'[d].copies = delivery[d].copies]_webhookVars
=============================================================================

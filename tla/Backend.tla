------------------------------ MODULE Backend ------------------------------
(***************************************************************************)
(* The parts of the backend process that share no state with one another:  *)
(* the HTTP server with its RPC calls (Requests, RpcPool), the wallet      *)
(* sessions, the event listener, the webhook deliveries, the alerts, the   *)
(* listings, the migrations, the loan service of the v1 router, the rate   *)
(* limits with the form that meets them, the appraisals and the interest   *)
(* curve.                                                                  *)
(*                                                                         *)
(* A behaviour follows one of them and leaves the others as they start:    *)
(* as no action of one reads or writes a variable of another, whatever     *)
(* holds of one part in such a behaviour holds of it among the others.     *)
(***************************************************************************)
EXTENDS Requests, Sessions, EventMirror, Webhooks, Alerts, Listings, Migrations,
        LoanService, Gate, Appraisals, RateCurve

VARIABLE part   \* the part that is followed

Parts == {"requests", "sessions", "mirror", "webhooks", "alerts", "listings",
          "migrations", "services", "gate", "appraisals", "curve"}

BackendInit ==
  /\ part \in Parts
  /\ RequestsInit /\ SessionsInit /\ MirrorInit /\ WebhooksInit
  /\ AlertsInit /\ ListingsInit /\ MigrationsInit
  /\ LoanServiceInit /\ GateInit /\ AppraisalsInit /\ CurveInit
  /\ table = "loans" \/ part = "listings"
  /\ value = (CHOOSE v \in Values : TRUE) \/ part = "services"
  /\ worth = (CHOOSE v \in Worths : TRUE) \/ part = "appraisals"
  /\ rateModel = (CHOOSE m \in RateModels : TRUE) \/ part = "curve"

Others(p) ==
  /\ p # "requests" => UNCHANGED allRequestVars
  /\ p # "sessions" => UNCHANGED sessionVars
  /\ p # "mirror" => UNCHANGED mirrorVars
  /\ p # "webhooks" => UNCHANGED webhookVars
  /\ p # "alerts" => UNCHANGED alertVars
  /\ p # "listings" => UNCHANGED listingVars
  /\ p # "migrations" => UNCHANGED migrationVars
  /\ p # "services" => UNCHANGED serviceVars
  /\ p # "gate" => UNCHANGED gateVars
  /\ p # "appraisals" => UNCHANGED appraisalVars
  /\ p # "curve" => UNCHANGED curveVars

Follow(p) == part = p /\ UNCHANGED part /\ Others(p)

BackendNext ==
  \/ RequestsNext /\ Follow("requests")
  \/ SessionsNext /\ Follow("sessions")
  \/ MirrorNext /\ Follow("mirror")
  \/ WebhooksNext /\ Follow("webhooks")
  \/ AlertsNext /\ Follow("alerts")
  \/ ListingsNext /\ Follow("listings")
  \/ MigrationsNext /\ Follow("migrations")
  \/ LoanServiceNext /\ Follow("services")
  \/ GateNext /\ Follow("gate")
  \/ AppraisalsNext /\ Follow("appraisals")
  \/ CurveNext /\ Follow("curve")

backendVars ==
  <<part, allRequestVars, sessionVars, mirrorVars, webhookVars, alertVars,
    listingVars, migrationVars, serviceVars, gateVars, appraisalVars, curveVars>>

BackendSpec == BackendInit /\ [][BackendNext]_backendVars /\ MirrorFairness
=============================================================================

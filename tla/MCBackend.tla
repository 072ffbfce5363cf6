----------------------------- MODULE MCBackend -----------------------------
(***************************************************************************)
(* The instance of Backend that TLC checks: a repayment, which is made of  *)
(* two RPC calls, and a health check, which may do without its call;       *)
(* limits of two and three requests; curves that rise slowly, steeply and  *)
(* not at all.                                                             *)
(***************************************************************************)
EXTENDS Backend

CONSTANTS repay, health

MCEndpoint == (repay :> "repay") @@ (health :> "health")
MCHash == [p \in Sends |-> "body"]
MCMethods == {"getAccount", "prepareTransaction"}

MCAllowed == [k \in {"global", "write"} |-> IF k = "global" THEN 3 ELSE 2]

MCRateModels == [base : {0, 2}, slope1 : {3, 50}, slope2 : {0, 450}, kink : {0, 8}]
=============================================================================

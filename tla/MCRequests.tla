----------------------------- MODULE MCRequests -----------------------------
(***************************************************************************)
(* A repayment and a liquidation of one loan by one user for one amount:   *)
(* the bodies of POST /api/loan/repay and POST /api/loan/liquidate have    *)
(* the same fields, so that both have the same hash.                       *)
(***************************************************************************)
EXTENDS Requests, TLC

CONSTANTS repay, liquidate

MCEndpoint == (repay :> "repay") @@ (liquidate :> "liquidate")
MCHash == [p \in Sends |-> "borrower, loan_id, amount"]
MCMethods == {"getAccount", "prepareTransaction"}
=============================================================================

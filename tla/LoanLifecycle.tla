--------------------------- MODULE LoanLifecycle ---------------------------
(***************************************************************************)
(* The life cycle every loan promises to follow, whatever part of the      *)
(* system keeps its status: the table TRANSITIONS and the function         *)
(* transition() of backend/src/loanStateMachine.ts.  The contract (module  *)
(* Lending) is compared with this module.                                  *)
(***************************************************************************)
CONSTANT LoanIds

VARIABLE status      \* status[i]: the life-cycle status of loan i

LoanStatus == {"pending", "active", "repaid", "liquidated", "at_risk"}

TRANSITIONS ==
  [pending    |-> {"active"},
   active     |-> {"repaid", "liquidated", "at_risk"},
   at_risk    |-> {"repaid", "liquidated", "active"},
   repaid     |-> {},
   liquidated |-> {}]

Init == status = [i \in LoanIds |-> "pending"]

\* transition(): any move outside the table throws InvalidTransitionError.
Transition(i, next) ==
  /\ next \in TRANSITIONS[status[i]]
  /\ status' = [status EXCEPT ![i] = next]

Next == \E i \in LoanIds : \E next \in LoanStatus : Transition(i, next)

Spec == Init /\ [][Next]_status
=============================================================================

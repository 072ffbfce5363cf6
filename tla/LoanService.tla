---------------------------- MODULE LoanService ----------------------------
(***************************************************************************)
(* The loan and collateral services behind the v1 router.  A call builds   *)
(* unsigned transactions over the RPC, each with the sequence number its   *)
(* account has at that moment; a batch builds all of its own at once.  The *)
(* webhook is fired, and a liquidation is written to the store, when the   *)
(* transaction is built: before the wallet signs and submits it, and       *)
(* whether or not it ever does.                                            *)
(***************************************************************************)
EXTENDS Integers, FiniteSets

CONSTANTS
  ServiceCalls, \* requests to the API
  BatchSize,
  Debt,        \* the amount of the loan
  Values,      \* appraised values of its collateral; 0: deleted
  MaxSequence  \* bound: transactions of an account

ASSUME LoanServiceAssumption ==
  {BatchSize, Debt, MaxSequence} \subseteq Nat \ {0} /\ Values \subseteq Nat

VARIABLES
  calls,       \* call -> what it is about to answer
  ledger,      \* account -> the sequence number of its last transaction
  accepted,    \* the transactions the ledger took, by call and place
  announced,   \* the calls whose webhook was fired
  liquidated,  \* the liquidation events in the store
  loanStatus,
  value,       \* the appraised value of the collateral in the store
  told         \* transaction -> its status as the API last told it

serviceVars ==
  <<calls, ledger, accepted, announced, liquidated, loanStatus, value, told>>

Kinds == {"register", "batch", "request", "repay", "liquidate", "view"}
\* The items of a batch belong to one owner.
Places == 1..BatchSize
Signers == {"borrower", "liquidator"}

\* The account that signs, and the transactions that are built.
Signer(kind) == IF kind = "liquidate" THEN "liquidator" ELSE "borrower"
Built(kind) ==
  CASE kind = "batch" -> Places [] kind = "view" -> {} [] OTHER -> {1}

\* sequence: that of each transaction; 0 until its account was read.
Call == [kind : Kinds, state : {"idle", "building", "answered", "refused"},
         sequence : [Places -> 0..MaxSequence + 1]]
Unused == [kind |-> "view", state |-> "idle", sequence |-> [i \in Places |-> 0]]

LoanServiceTypeOK ==
  /\ calls \in [ServiceCalls -> Call]
  /\ ledger \in [Signers -> 0..MaxSequence]
  /\ accepted \subseteq ServiceCalls \X Places
  /\ announced \subseteq ServiceCalls /\ liquidated \subseteq ServiceCalls
  /\ loanStatus \in {"active", "repaid", "liquidated"}
  /\ value \in Values \cup {0}
  /\ told \in [ServiceCalls \X Places -> {"pending", "success"}]

LoanServiceInit ==
  /\ calls = [c \in ServiceCalls |-> Unused]
  /\ ledger = [a \in Signers |-> 0]
  /\ accepted = {} /\ announced = {} /\ liquidated = {}
  /\ loanStatus = "active"
  /\ value \in Values
  /\ told = [t \in ServiceCalls \X Places |-> "pending"]

-----------------------------------------------------------------------------
Starts(c, kind) ==
  calls' = [calls EXCEPT ![c] = [Unused EXCEPT !.kind = kind, !.state = "building"]]
Refused(c, kind) ==
  calls' = [calls EXCEPT ![c] = [Unused EXCEPT !.kind = kind, !.state = "refused"]]

\* A body that does not match the schema is refused; otherwise the handler
\* goes to the RPC.
Received(c, kind) ==
  /\ calls[c].state = "idle"
  /\ Starts(c, kind) \/ Refused(c, kind)
  /\ UNCHANGED <<ledger, accepted, announced, liquidated, loanStatus, value, told>>

RegisterCollateralV1(c) == Received(c, "register")
BatchRegisterCollateral(c) == Received(c, "batch")
RequestNewLoan(c) == Received(c, "request")
RepayLoanV1(c) == Received(c, "repay")

\* GET /loan/:id and GET /health/:loanId simulate a call and submit nothing.
GetLoanOnChain(c) == Received(c, "view")
GetHealthFactor(c) == Received(c, "view")

\* The health factor, with 10000 for 1; no value gives none.
Liquidatable(v) == v > 0 /\ v * 8000 < Debt * 10000

\* The status of the loan is not looked at.
LiquidateLoanV1(c) ==
  /\ Received(c, "liquidate")
  /\ calls'[c].state = "building" => Liquidatable(value)

\* Mutant: a batch numbers its transactions one after the other.
NumberedInTurn(c, i) == ledger[Signer(calls[c].kind)] + i

NextSequence(c, i) == ledger[Signer(calls[c].kind)] + 1

\* buildContractTx reads the account; the builder takes the number after.
ReadAccount(c, i) ==
  /\ calls[c].state = "building" /\ i \in Built(calls[c].kind)
  /\ calls[c].sequence[i] = 0
  /\ calls' = [calls EXCEPT ![c].sequence[i] = NextSequence(c, i)]
  /\ UNCHANGED <<ledger, accepted, announced, liquidated, loanStatus, value, told>>

\* One failing RPC call fails the whole request.
BuildFails(c) ==
  /\ calls[c].state = "building"
  /\ Refused(c, calls[c].kind)
  /\ UNCHANGED <<ledger, accepted, announced, liquidated, loanStatus, value, told>>

\* All transactions are prepared, and the caller is answered.
AllBuilt(c, kinds) ==
  /\ calls[c].state = "building" /\ calls[c].kind \in kinds
  /\ \A i \in Built(calls[c].kind) : calls[c].sequence[i] # 0
  /\ calls' = [calls EXCEPT ![c].state = "answered"]
  /\ UNCHANGED <<ledger, accepted, value, told>>

RegisteredOrViewed(c) ==
  /\ AllBuilt(c, {"register", "batch", "view"})
  /\ UNCHANGED <<announced, liquidated, loanStatus>>

\* The webhook is fired first.
LoanTxBuilt(c) ==
  /\ AllBuilt(c, {"request", "repay"})
  /\ announced' = announced \cup {c}
  /\ UNCHANGED <<liquidated, loanStatus>>

\* So is that of a liquidation, after the loan and its collateral were marked
\* and the event and the transaction were written.
LiquidationBuilt(c) ==
  /\ AllBuilt(c, {"liquidate"})
  /\ announced' = announced \cup {c}
  /\ liquidated' = liquidated \cup {c}
  /\ loanStatus' = "liquidated"

\* The wallet signs a transaction and submits it; the ledger takes the one
\* that carries the next sequence number of the account.
LedgerTakes(c, i) ==
  LET a == Signer(calls[c].kind)
  IN  /\ calls[c].state = "answered" /\ i \in Built(calls[c].kind)
      /\ calls[c].sequence[i] = ledger[a] + 1 /\ ledger[a] < MaxSequence
      /\ ledger' = [ledger EXCEPT ![a] = @ + 1]
      /\ accepted' = accepted \cup {<<c, i>>}
      /\ UNCHANGED <<calls, announced, liquidated, loanStatus, value, told>>

\* GET /transactions/:hash/status: what the RPC does not know is pending, also
\* when it has forgotten it or can no longer be accepted.
TellStatus(c, i) ==
  /\ calls[c].state = "answered" /\ i \in Built(calls[c].kind)
  /\ \E s \in {"pending"} \cup (IF <<c, i>> \in accepted THEN {"success"} ELSE {}) :
       told' = [told EXCEPT ![<<c, i>>] = s]
  /\ UNCHANGED <<calls, ledger, accepted, announced, liquidated, loanStatus, value>>

\* Handlers of index.ts in the meantime: the repayment that closes the loan,
\* and an appraisal or the deletion of the collateral.
RepaidMeanwhile ==
  /\ loanStatus = "active" /\ loanStatus' = "repaid"
  /\ UNCHANGED <<calls, ledger, accepted, announced, liquidated, value, told>>

ValueChanges(v) ==
  /\ v # value /\ value' = v
  /\ UNCHANGED <<calls, ledger, accepted, announced, liquidated, loanStatus, told>>

LoanServiceNext ==
  \/ \E c \in ServiceCalls :
       \/ RegisterCollateralV1(c) \/ BatchRegisterCollateral(c)
       \/ RequestNewLoan(c) \/ RepayLoanV1(c) \/ LiquidateLoanV1(c)
       \/ GetLoanOnChain(c) \/ GetHealthFactor(c)
       \/ BuildFails(c)
       \/ RegisteredOrViewed(c) \/ LoanTxBuilt(c) \/ LiquidationBuilt(c)
       \/ \E i \in Places : ReadAccount(c, i) \/ LedgerTakes(c, i) \/ TellStatus(c, i)
  \/ RepaidMeanwhile
  \/ \E v \in Values \cup {0} : ValueChanges(v)

LoanServiceSpec == LoanServiceInit /\ [][LoanServiceNext]_serviceVars

-----------------------------------------------------------------------------
(* Properties.                                                             *)

\* However the reads of a batch interleave with what else its wallet submits,
\* the ledger takes at most one of the transactions of one call: they all
\* carry the number of the moment, and none is built again.
BatchTakenOnce ==
  \A c \in ServiceCalls : Cardinality({i \in Places : <<c, i>> \in accepted}) <= 1
=============================================================================

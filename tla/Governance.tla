----------------------------- MODULE Governance -----------------------------
(***************************************************************************)
(* Who governs contracts/stellarkraal: the two-step transfer of the admin  *)
(* role, the two-step upgrade with its timelock, and the admin's use of    *)
(* the emergency pause (module Pausable).  Addresses that call a function  *)
(* have signed for it (require_auth).  execute_upgrade asks for no         *)
(* signature: anyone may call it.                                          *)
(***************************************************************************)
EXTENDS Pausable

CONSTANTS
  Addresses,
  Hashes,       \* WASM hashes an admin may propose
  FirstWasm,    \* the code the contract is deployed with
  Timelock,     \* UPGRADE_TIMELOCK_SECS
  None          \* no proposal, no pending admin

ASSUME GovernanceAssumption ==
  /\ Timelock \in Nat
  /\ None \notin Addresses /\ None \notin Hashes
  /\ FirstWasm \notin Hashes

VARIABLES
  admin,          \* ADMIN
  pendingAdmin,   \* PENDING_ADMIN
  pendingWasm,    \* DataKey::PendingWasm
  upgradeTime,    \* DataKey::UpgradeTime, 0 when there is none
  wasm,           \* the code the contract runs
  proposer,       \* history: who proposed pendingAdmin
  proposedAt      \* history: when each hash was last proposed, 0 if never

adminVars == <<admin, pendingAdmin, proposer>>
upgradeVars == <<pendingWasm, upgradeTime, wasm, proposedAt>>
vars == <<now, pauseVars, adminVars, upgradeVars>>

GovernanceTypeOK ==
  /\ PausableTypeOK
  /\ admin \in Addresses
  /\ pendingAdmin \in Addresses \cup {None}
  /\ proposer \in Addresses \cup {None}
  /\ pendingWasm \in Hashes \cup {None}
  /\ wasm \in Hashes \cup {FirstWasm}
  /\ upgradeTime \in Nat
  /\ proposedAt \in [Hashes -> Nat]

Init ==
  /\ PausableInit
  /\ admin \in Addresses
  /\ pendingAdmin = None /\ proposer = None
  /\ pendingWasm = None /\ upgradeTime = 0
  /\ wasm = FirstWasm
  /\ proposedAt = [h \in Hashes |-> 0]

-----------------------------------------------------------------------------
(* The admin role.                                                         *)

\* A new proposal replaces the one before it.
ProposeNewAdmin(caller, new) ==
  /\ caller = admin
  /\ pendingAdmin' = new /\ proposer' = caller
  /\ UNCHANGED <<now, pauseVars, admin, upgradeVars>>

AcceptAdminRole(new) ==
  /\ pendingAdmin # None /\ new = pendingAdmin
  /\ admin' = new
  /\ pendingAdmin' = None /\ proposer' = None
  /\ UNCHANGED <<now, pauseVars, upgradeVars>>

-----------------------------------------------------------------------------
(* Upgrades.  A change of admin leaves a pending upgrade in place.         *)

\* Mutant: replacing a pending hash keeps the time of the first proposal.
ProposeUpgradeKeepingTime(caller, hash) ==
  /\ caller = admin
  /\ pendingWasm' = hash
  /\ upgradeTime' = IF pendingWasm = None THEN now ELSE upgradeTime
  /\ proposedAt' = [proposedAt EXCEPT ![hash] = now]
  /\ UNCHANGED <<now, pauseVars, adminVars, wasm>>

ProposeUpgrade(caller, hash) ==
  /\ caller = admin
  /\ pendingWasm' = hash
  /\ upgradeTime' = now
  /\ proposedAt' = [proposedAt EXCEPT ![hash] = now]
  /\ UNCHANGED <<now, pauseVars, adminVars, wasm>>

ExecuteUpgrade ==
  /\ pendingWasm # None
  /\ now >= upgradeTime + Timelock
  /\ wasm' = pendingWasm
  /\ pendingWasm' = None /\ upgradeTime' = 0
  /\ UNCHANGED <<now, pauseVars, adminVars, proposedAt>>

CancelUpgrade(caller) ==
  /\ caller = admin
  /\ pendingWasm # None
  /\ pendingWasm' = None /\ upgradeTime' = 0
  /\ UNCHANGED <<now, pauseVars, adminVars, wasm, proposedAt>>

-----------------------------------------------------------------------------
(* The pause.                                                              *)

\* Bound: a pause that would outlast the clock is not explored.
PauseBy(caller) ==
  /\ caller = admin
  /\ now + pauseDur <= MaxTime
  /\ Pause
  /\ UNCHANGED <<now, adminVars, upgradeVars>>

UnpauseBy(caller) ==
  /\ caller = admin
  /\ Unpause
  /\ UNCHANGED <<now, adminVars, upgradeVars>>

SetPauseDurationBy(caller, duration) ==
  /\ caller = admin
  /\ SetPauseDuration(duration)
  /\ UNCHANGED <<now, adminVars, upgradeVars>>

Time == CloseLedger /\ UNCHANGED <<pauseVars, adminVars, upgradeVars>>

-----------------------------------------------------------------------------
Role == \E a \in Addresses :
          \/ \E b \in Addresses : ProposeNewAdmin(a, b)
          \/ AcceptAdminRole(a)

Upgrading ==
  \/ \E a \in Addresses :
       \/ \E h \in Hashes : ProposeUpgrade(a, h)
       \/ CancelUpgrade(a)
  \/ ExecuteUpgrade

Pausing == \E a \in Addresses :
             \/ PauseBy(a) \/ UnpauseBy(a)
             \/ \E d \in PauseDurations : SetPauseDurationBy(a, d)

Next == Role \/ Upgrading \/ Pausing \/ Time

\* Stellar closes a ledger every few seconds; nobody has to call the contract.
Spec == Init /\ [][Next]_vars /\ WF_vars(Time)

-----------------------------------------------------------------------------
(* Properties.                                                             *)

\* Whoever may accept the role was chosen by the admin in office: no proposal
\* of a former admin survives the handover.
ProposalIsAdmins == pendingAdmin # None => proposer = admin

\* The contract runs new code only when that very hash has waited the whole
\* timelock since it was last proposed, however proposals were replaced,
\* cancelled and repeated and whoever holds the role meanwhile.
TimelockRespected ==
  [][wasm' # wasm =>
       /\ proposedAt[wasm'] # 0
       /\ now >= proposedAt[wasm'] + Timelock]_vars

\* A pause lapses without anybody calling unpause.
PauseLapses == IsPaused ~> ~IsPaused
=============================================================================

-------------------------- MODULE GovernanceProofs --------------------------
(***************************************************************************)
(* Safety of Governance for every set of addresses and hashes and every    *)
(* timelock.  That the timelock is respected needs a stronger invariant,   *)
(* PendingTimed: the stored time is the time the pending hash itself was   *)
(* proposed.  PauseLapses is a liveness property and is left to TLC.       *)
(***************************************************************************)
EXTENDS Governance, TLAPS

PendingTimed ==
  pendingWasm # None => upgradeTime = proposedAt[pendingWasm] /\ upgradeTime # 0

GovernanceInv == GovernanceTypeOK /\ ProposalIsAdmins /\ PendingTimed

LEMMA GovernanceInit == Init => GovernanceInv
<1>. SUFFICES ASSUME Init PROVE GovernanceInv
  OBVIOUS
<1>1. PausableTypeOK
  <2>1. 1 \in 1 .. MaxTime
    BY PausableAssumption
  <2>. QED
    BY <2>1, PausableAssumption DEF Init, PausableInit, PausableTypeOK
<1>2. GovernanceTypeOK
  BY <1>1 DEF Init, GovernanceTypeOK
<1>3. ProposalIsAdmins /\ PendingTimed
  BY DEF Init, ProposalIsAdmins, PendingTimed
<1>. QED
  BY <1>2, <1>3 DEF GovernanceInv

LEMMA RoleStep == GovernanceInv /\ Role => GovernanceInv'
<1>. SUFFICES ASSUME GovernanceInv, Role PROVE GovernanceInv'
  OBVIOUS
<1>1. ASSUME NEW a \in Addresses, NEW b \in Addresses, ProposeNewAdmin(a, b)
      PROVE  GovernanceInv'
  BY <1>1 DEF ProposeNewAdmin, GovernanceInv, GovernanceTypeOK, PausableTypeOK,
              ProposalIsAdmins, PendingTimed, pauseVars, upgradeVars
<1>2. ASSUME NEW a \in Addresses, AcceptAdminRole(a)
      PROVE  GovernanceInv'
  BY <1>2 DEF AcceptAdminRole, GovernanceInv, GovernanceTypeOK, PausableTypeOK,
              ProposalIsAdmins, PendingTimed, pauseVars, upgradeVars
<1>. QED
  BY <1>1, <1>2 DEF Role

LEMMA UpgradingStep == GovernanceInv /\ Upgrading => GovernanceInv'
<1>. SUFFICES ASSUME GovernanceInv, Upgrading PROVE GovernanceInv'
  OBVIOUS
<1>1. ASSUME NEW a \in Addresses, NEW h \in Hashes, ProposeUpgrade(a, h)
      PROVE  GovernanceInv'
  <2>1. now \in Nat /\ now # 0
    BY PausableAssumption DEF GovernanceInv, GovernanceTypeOK, PausableTypeOK
  <2>. QED
    BY <1>1, <2>1
       DEF ProposeUpgrade, GovernanceInv, GovernanceTypeOK, PausableTypeOK,
           ProposalIsAdmins, PendingTimed, pauseVars, adminVars
<1>2. ASSUME NEW a \in Addresses, CancelUpgrade(a)
      PROVE  GovernanceInv'
  BY <1>2 DEF CancelUpgrade, GovernanceInv, GovernanceTypeOK, PausableTypeOK,
              ProposalIsAdmins, PendingTimed, pauseVars, adminVars
<1>3. CASE ExecuteUpgrade
  BY <1>3 DEF ExecuteUpgrade, GovernanceInv, GovernanceTypeOK, PausableTypeOK,
              ProposalIsAdmins, PendingTimed, pauseVars, adminVars
<1>. QED
  BY <1>1, <1>2, <1>3 DEF Upgrading

\* The pause and the clock touch neither the role nor the upgrade.
LEMMA PausingStep == GovernanceInv /\ (Pausing \/ Time) => GovernanceInv'
<1>. SUFFICES ASSUME GovernanceInv, Pausing \/ Time
              PROVE  PausableTypeOK' /\ UNCHANGED <<adminVars, upgradeVars>>
  BY DEF GovernanceInv, GovernanceTypeOK, ProposalIsAdmins, PendingTimed,
         adminVars, upgradeVars
<1>1. /\ now \in 1 .. MaxTime /\ paused \in BOOLEAN /\ pauseExp \in Nat
      /\ pauseDur \in Nat /\ MaxTime \in Nat
  BY PausableAssumption DEF GovernanceInv, GovernanceTypeOK, PausableTypeOK
<1>2. ASSUME NEW a \in Addresses, PauseBy(a)
      PROVE  PausableTypeOK' /\ UNCHANGED <<adminVars, upgradeVars>>
  <2>1. now + pauseDur \in Nat
    BY <1>1
  <2>. QED
    BY <1>1, <1>2, <2>1 DEF PauseBy, Pause, PausableTypeOK
<1>3. ASSUME NEW a \in Addresses, UnpauseBy(a)
      PROVE  PausableTypeOK' /\ UNCHANGED <<adminVars, upgradeVars>>
  BY <1>1, <1>3 DEF UnpauseBy, Unpause, PausableTypeOK
<1>4. ASSUME NEW a \in Addresses, NEW d \in PauseDurations, SetPauseDurationBy(a, d)
      PROVE  PausableTypeOK' /\ UNCHANGED <<adminVars, upgradeVars>>
  BY <1>1, <1>4, PausableAssumption
     DEF SetPauseDurationBy, SetPauseDuration, PausableTypeOK
<1>5. ASSUME Time
      PROVE  PausableTypeOK' /\ UNCHANGED <<adminVars, upgradeVars>>
  <2>1. now' \in 1 .. MaxTime
    BY <1>1, <1>5 DEF Time, CloseLedger
  <2>. QED
    BY <1>1, <1>5, <2>1 DEF Time, PausableTypeOK, pauseVars
<1>. QED
  BY <1>2, <1>3, <1>4, <1>5 DEF Pausing

LEMMA GovernanceStep == GovernanceInv /\ [Next]_vars => GovernanceInv'
<1>1. GovernanceInv /\ UNCHANGED vars => GovernanceInv'
  BY DEF vars, pauseVars, adminVars, upgradeVars, GovernanceInv,
         GovernanceTypeOK, PausableTypeOK, ProposalIsAdmins, PendingTimed
<1>. QED
  BY <1>1, RoleStep, UpgradingStep, PausingStep DEF Next

LEMMA GovernanceInvariant == Spec => []GovernanceInv
<1>. QED
  BY GovernanceInit, GovernanceStep, PTL DEF Spec

\* The pending admin was chosen by the admin in office.
THEOREM HandoverByChoice == Spec => []ProposalIsAdmins
<1>1. GovernanceInv => ProposalIsAdmins
  BY DEF GovernanceInv
<1>. QED
  BY <1>1, GovernanceInvariant, PTL

\* No code runs before it has waited the timelock since its last proposal.
THEOREM UpgradeWaits == Spec => TimelockRespected
<1>1. GovernanceInv /\ [Next]_vars
        => [wasm' # wasm => /\ proposedAt[wasm'] # 0
                            /\ now >= proposedAt[wasm'] + Timelock]_vars
  <2>. SUFFICES ASSUME GovernanceInv, Next, wasm' # wasm
                PROVE  /\ proposedAt[wasm'] # 0
                       /\ now >= proposedAt[wasm'] + Timelock
    OBVIOUS
  <2>1. ExecuteUpgrade
    BY DEF Next, Role, Upgrading, Pausing, Time, ProposeNewAdmin, AcceptAdminRole,
           ProposeUpgrade, CancelUpgrade, PauseBy, UnpauseBy, SetPauseDurationBy,
           upgradeVars
  <2>. QED
    BY <2>1 DEF ExecuteUpgrade, GovernanceInv, PendingTimed
<1>. QED
  BY <1>1, GovernanceInvariant, PTL DEF Spec, TimelockRespected
=============================================================================

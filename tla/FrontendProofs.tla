--------------------------- MODULE FrontendProofs ---------------------------
(***************************************************************************)
(* Theorems about the parts of the frontend that Frontend composes, each   *)
(* for every value of its constants, and the reason why they hold of the   *)
(* frontend as a whole, as in BackendProofs.                               *)
(***************************************************************************)
EXTENDS Frontend, SequenceTheorems, FiniteSetTheorems, TLAPS

-----------------------------------------------------------------------------
(* The composition.                                                        *)

\* A step of the frontend is a step of each of its parts, or leaves it alone.
LEMMA StepOfEachSide ==
  [FrontendNext]_frontendVars =>
    /\ [SubmissionsNext]_submissionVars /\ [WalletsNext]_walletVars
    /\ [ScreensNext]_screenVars /\ [DraftsNext]_draftVars
    /\ [ListViewsNext]_listVars /\ [LoanWizardNext]_wizardVars
    /\ [ToastsNext]_toastVars /\ [DialogsNext]_dialogVars
    /\ [PreferencesNext]_preferenceVars /\ [RatesNext]_rateVars
    /\ [CountersNext]_counterVars
<1>1. UNCHANGED frontendVars =>
        /\ UNCHANGED <<submissionVars, walletVars, screenVars, draftVars>>
        /\ UNCHANGED <<listVars, wizardVars, toastVars, dialogVars>>
        /\ UNCHANGED <<preferenceVars, rateVars, counterVars>>
  BY DEF frontendVars
<1>. QED
  BY <1>1 DEF FrontendNext, On, Beside

\* The parts of the frontend share no state: it behaves as each of them is
\* specified, so that whatever is proved of one of them holds of it.
THEOREM FrontendImplementsItsParts ==
  FrontendSpec => /\ SubmissionsSpec /\ WalletsSpec /\ ScreensSpec /\ DraftsSpec
                  /\ ListViewsSpec /\ LoanWizardSpec /\ ToastsSpec /\ DialogsSpec
                  /\ PreferencesSpec /\ RatesSpec /\ CountersSpec
<1>1. FrontendInit =>
        /\ SubmissionsInit /\ WalletsInit /\ ScreensInit /\ DraftsInit
        /\ ListViewsInit /\ LoanWizardInit /\ ToastsInit /\ DialogsInit
        /\ PreferencesInit /\ RatesInit /\ CountersInit
  BY DEF FrontendInit
<1>. QED
  BY <1>1, StepOfEachSide, PTL
     DEF FrontendSpec, SubmissionsSpec, WalletsSpec, ScreensSpec, DraftsSpec, ListViewsSpec,
         LoanWizardSpec, ToastsSpec, DialogsSpec, PreferencesSpec, RatesSpec, CountersSpec

-----------------------------------------------------------------------------
(* The transaction that is submitted.                                      *)

Stage(k) == IF sub[k] = NotSent THEN "none" ELSE sub[k].stage

\* A submission that has not failed.  Unless excused there is one at a time,
\* a transaction that was applied is that one's, and the transaction of one
\* that has failed can no longer be applied.
Live(k) == Stage(k) \notin {"none", "failed"}

SubmissionInv ==
  /\ second \in Nat /\ rpcSecond \in Nat
  /\ sub \in [Clicks -> Submission \cup {NotSent}]
  /\ DOMAIN appliedAt \subseteq Clicks /\ mempool \subseteq Clicks
  /\ \A k \in Clicks : Stage(k) \in {"signing", "sending", "polling"} => sub[k].built <= second
  /\ \A k \in Clicks : Stage(k) \in {"sending", "polling"} => sub[k].built <= sub[k].sent
  /\ \A k \in Applied : appliedAt[k] \in Nat /\ appliedAt[k] <= MaxTime(k)
  /\ \A k \in Clicks : Stage(k) \in {"none", "building", "signing", "sending"}
                         => k \notin mempool /\ k \notin Applied
  /\ excused \/ /\ \A j, k \in Clicks : Live(j) /\ Live(k) => j = k
                /\ \A k \in Clicks : Stage(k) = "failed" =>
                     k \notin Applied /\ (k \in mempool => second > MaxTime(k))

\* What a change of one submission's stage leaves to be shown.
LEMMA StageOf ==
  ASSUME SubmissionInv, NEW k \in Clicks, NEW s \in Submission, sub' = [sub EXCEPT ![k] = s]
  PROVE  /\ sub' \in [Clicks -> Submission \cup {NotSent}]
         /\ \A j \in Clicks : /\ sub'[j] = IF j = k THEN s ELSE sub[j]
                              /\ Stage(j)' = IF j = k THEN s.stage ELSE Stage(j)
  BY SubmissionsAssumption DEF SubmissionInv, Stage

LEMMA SubmissionStep ==
  SubmissionInv /\ [SubmissionsNext]_submissionVars => SubmissionInv'
<1>. SUFFICES ASSUME SubmissionInv, [SubmissionsNext]_submissionVars PROVE SubmissionInv'
  OBVIOUS
<1>1. /\ Bound \in Nat /\ PollFor \in Nat /\ Bound <= PollFor /\ NotSent \notin Submission
      /\ second \in Nat /\ rpcSecond \in Nat
      /\ sub \in [Clicks -> Submission \cup {NotSent}]
      /\ \A k \in Clicks : Stage(k) # "none" =>
           /\ sub[k] \in Submission /\ sub[k].built \in Nat /\ sub[k].sent \in Nat
           /\ sub[k].stage = Stage(k)
      /\ \A k \in Clicks, st \in Stages : At(k, st) => Stage(k) = st
  <2>1. \A s \in Submission : s.built \in Nat /\ s.sent \in Nat /\ s.stage \in Stages
    BY DEF Submission
  <2>2. Bound \in Nat /\ PollFor \in Nat /\ Bound <= PollFor /\ NotSent \notin Submission
    BY SubmissionsAssumption
  <2>3. \A k \in Clicks, st \in Stages : At(k, st) => Stage(k) = st
    BY DEF At, Stage
  <2>. QED
    BY <2>1, <2>2, <2>3 DEF SubmissionInv, Stage
<1>. DEFINE Chain == /\ mempool' = mempool /\ appliedAt' = appliedAt /\ Applied' = Applied
                     /\ second' = second /\ rpcSecond' = rpcSecond
<1>2. ASSUME UNCHANGED chainVars PROVE Chain
  BY <1>2 DEF chainVars, Applied
<1>3. ASSUME NEW k \in Clicks, Click(k) PROVE SubmissionInv'
  <2>. DEFINE s == [stage |-> "building", seq |-> 0, built |-> 0, sent |-> 0]
  <2>1. s \in Submission /\ s.stage = "building" /\ s.built = 0 /\ s.sent = 0
    BY DEF Submission, Stages
  <2>2. sub' = [sub EXCEPT ![k] = s] /\ Chain /\ Stage(k) = "none"
    BY <1>2, <1>3 DEF Click, Stage
  <2>3. /\ sub' \in [Clicks -> Submission \cup {NotSent}]
        /\ \A j \in Clicks : /\ sub'[j] = IF j = k THEN s ELSE sub[j]
                             /\ Stage(j)' = IF j = k THEN s.stage ELSE Stage(j)
    <3>. HIDE DEF s
    <3>. QED
      BY <2>1, <2>2, StageOf
  <2>4. excused' \/ (~excused /\ \A j \in Clicks : ~Live(j))
    <3>1. ASSUME NEW j \in Clicks, InFlight = {} PROVE ~Live(j)
      BY <1>1, <1>3, <3>1 DEF InFlight, Click, Enabled, Live, Stage
    <3>. QED
      BY <1>3, <3>1 DEF Click
  <2>. HIDE DEF s
  <2>. QED
    BY <1>1, <2>1, <2>2, <2>3, <2>4 DEF SubmissionInv, Live, MaxTime
<1>4. ASSUME NEW k \in Clicks, Built(k) PROVE SubmissionInv'
  <2>1. PICK n \in Nat : n = SequenceSeen + 1
    <3>. DEFINE V == {j \in Clicks : Visible(j)}
    <3>1. Cardinality(V) \in Nat
      BY SubmissionsAssumption, FS_Subset, FS_CardinalityType
    <3>. QED
      BY <3>1 DEF SequenceSeen
  <2>. DEFINE s == [sub[k] EXCEPT !.stage = "signing", !.seq = n, !.built = second]
  <2>2. sub[k] \in Submission /\ Stage(k) = "building"
    BY <1>1, <1>4 DEF Built, At, Stages
  <2>3. s \in Submission /\ s.stage = "signing" /\ s.built = second
    BY <1>1, <2>2 DEF Submission, Stages
  <2>4. sub' = [sub EXCEPT ![k] = s] /\ Chain /\ excused' = excused
    BY <1>1, <1>2, <1>4, <2>1 DEF Built
  <2>5. /\ sub' \in [Clicks -> Submission \cup {NotSent}]
        /\ \A j \in Clicks : /\ sub'[j] = IF j = k THEN s ELSE sub[j]
                             /\ Stage(j)' = IF j = k THEN s.stage ELSE Stage(j)
    <3>. HIDE DEF s
    <3>. QED
      BY <2>3, <2>4, StageOf
  <2>. HIDE DEF s
  <2>. QED
    BY <1>1, <2>2, <2>3, <2>4, <2>5 DEF SubmissionInv, Live, MaxTime
<1>5. ASSUME NEW k \in Clicks, Signed(k) PROVE SubmissionInv'
  <2>. DEFINE s == [sub[k] EXCEPT !.stage = "sending", !.sent = second]
  <2>2. sub[k] \in Submission /\ Stage(k) = "signing"
    BY <1>1, <1>5 DEF Signed, At, Stages
  <2>3. s \in Submission /\ s.stage = "sending" /\ s.built = sub[k].built /\ s.sent = second
    BY <1>1, <2>2 DEF Submission, Stages
  <2>4. sub' = [sub EXCEPT ![k] = s] /\ Chain /\ excused' = excused
    BY <1>1, <1>2, <1>5 DEF Signed
  <2>5. /\ sub' \in [Clicks -> Submission \cup {NotSent}]
        /\ \A j \in Clicks : /\ sub'[j] = IF j = k THEN s ELSE sub[j]
                             /\ Stage(j)' = IF j = k THEN s.stage ELSE Stage(j)
    <3>. HIDE DEF s
    <3>. QED
      BY <2>3, <2>4, StageOf
  <2>. HIDE DEF s
  <2>. QED
    BY <1>1, <2>2, <2>3, <2>4, <2>5 DEF SubmissionInv, Live, MaxTime
\* The other steps of a submission change its stage alone.
<1>6. ASSUME NEW k \in Clicks, Stage(k) # "none", NEW stage \in Stages, To(k, stage)
      PROVE  /\ sub' \in [Clicks -> Submission \cup {NotSent}]
             /\ \A j \in Clicks : /\ Stage(j)' = IF j = k THEN stage ELSE Stage(j)
                                  /\ Stage(j) # "none" =>
                                       /\ sub'[j].built = sub[j].built
                                       /\ sub'[j].sent = sub[j].sent
  <2>. DEFINE s == [sub[k] EXCEPT !.stage = stage]
  <2>1. /\ s \in Submission /\ s.stage = stage
        /\ s.built = sub[k].built /\ s.sent = sub[k].sent
    BY <1>1, <1>6 DEF Submission
  <2>2. sub' = [sub EXCEPT ![k] = s]
    BY <1>1, <1>6 DEF To
  <2>3. /\ sub' \in [Clicks -> Submission \cup {NotSent}]
        /\ \A j \in Clicks : /\ sub'[j] = IF j = k THEN s ELSE sub[j]
                             /\ Stage(j)' = IF j = k THEN s.stage ELSE Stage(j)
    <3>. HIDE DEF s
    <3>. QED
      BY <2>1, <2>2, StageOf
  <2>. HIDE DEF s
  <2>. QED
    BY <2>1, <2>3
<1>7. ASSUME NEW k \in Clicks, Sent(k) PROVE SubmissionInv'
  <2>1. Stage(k) = "sending" /\ To(k, "polling") /\ "polling" \in Stages
    BY <1>1, <1>7 DEF Sent, Stages
  <2>2. /\ sub' \in [Clicks -> Submission \cup {NotSent}]
        /\ \A j \in Clicks : /\ Stage(j)' = IF j = k THEN "polling" ELSE Stage(j)
                             /\ Stage(j) # "none" =>
                                  /\ sub'[j].built = sub[j].built /\ sub'[j].sent = sub[j].sent
    BY <2>1, <1>6
  <2>3. /\ appliedAt' = appliedAt /\ Applied' = Applied /\ second' = second
        /\ rpcSecond' = rpcSecond /\ excused' = excused
        /\ mempool' \subseteq mempool \cup {k}
    BY <1>7 DEF Sent, Applied
  <2>. QED
    BY <1>1, <2>1, <2>2, <2>3 DEF SubmissionInv, Live, MaxTime, Applied
<1>8. ASSUME NEW k \in Clicks, Refused(k) PROVE SubmissionInv'
  <2>1. Stage(k) \in {"building", "signing", "sending"} /\ To(k, "failed") /\ "failed" \in Stages
    BY <1>1, <1>8 DEF Refused, Fail, Stages
  <2>2. /\ sub' \in [Clicks -> Submission \cup {NotSent}]
        /\ \A j \in Clicks : /\ Stage(j)' = IF j = k THEN "failed" ELSE Stage(j)
                             /\ Stage(j) # "none" =>
                                  /\ sub'[j].built = sub[j].built /\ sub'[j].sent = sub[j].sent
    BY <2>1, <1>6
  <2>3. Chain /\ excused' = excused
    BY <1>2, <1>8 DEF Refused
  <2>. QED
    BY <1>1, <2>1, <2>2, <2>3 DEF SubmissionInv, Live, MaxTime, Applied
<1>9. ASSUME NEW k \in Clicks, AnswerLost(k) PROVE SubmissionInv'
  <2>1. Stage(k) \in {"sending", "polling"} /\ To(k, "failed") /\ "failed" \in Stages
    BY <1>1, <1>9 DEF AnswerLost, Fail, Stages
  <2>2. /\ sub' \in [Clicks -> Submission \cup {NotSent}]
        /\ \A j \in Clicks : /\ Stage(j)' = IF j = k THEN "failed" ELSE Stage(j)
                             /\ Stage(j) # "none" =>
                                  /\ sub'[j].built = sub[j].built /\ sub'[j].sent = sub[j].sent
    BY <2>1, <1>6
  <2>3. /\ appliedAt' = appliedAt /\ Applied' = Applied /\ second' = second
        /\ rpcSecond' = rpcSecond /\ excused' /\ mempool' \subseteq mempool \cup {k}
    BY <1>9 DEF AnswerLost, Applied
  <2>. QED
    BY <1>1, <2>1, <2>2, <2>3 DEF SubmissionInv, Live, MaxTime, Applied
<1>10. ASSUME NEW k \in Clicks, Found(k) PROVE SubmissionInv'
  <2>1. Stage(k) = "polling" /\ To(k, "done") /\ "done" \in Stages
    BY <1>1, <1>10 DEF Found, Stages
  <2>2. /\ sub' \in [Clicks -> Submission \cup {NotSent}]
        /\ \A j \in Clicks : /\ Stage(j)' = IF j = k THEN "done" ELSE Stage(j)
                             /\ Stage(j) # "none" =>
                                  /\ sub'[j].built = sub[j].built /\ sub'[j].sent = sub[j].sent
    BY <2>1, <1>6
  <2>3. Chain /\ excused' = excused
    BY <1>2, <1>10 DEF Found
  <2>. QED
    BY <1>1, <2>1, <2>2, <2>3 DEF SubmissionInv, Live, MaxTime, Applied
\* When the polls end the time bound has passed, and an RPC that is not late
\* would have known of the transaction.
<1>11. ASSUME NEW k \in Clicks, GiveUpPolling(k) PROVE SubmissionInv'
  <2>1. Stage(k) = "polling" /\ To(k, "failed") /\ "failed" \in Stages
    BY <1>1, <1>11 DEF GiveUpPolling, Fail, Stages
  <2>2. /\ sub' \in [Clicks -> Submission \cup {NotSent}]
        /\ \A j \in Clicks : /\ Stage(j)' = IF j = k THEN "failed" ELSE Stage(j)
                             /\ Stage(j) # "none" =>
                                  /\ sub'[j].built = sub[j].built /\ sub'[j].sent = sub[j].sent
    BY <2>1, <1>6
  <2>3. Chain /\ (excused \/ rpcSecond + 1 < second => excused')
    BY <1>2, <1>11 DEF GiveUpPolling
  <2>4. second > MaxTime(k)
    BY <1>1, <1>11, <2>1 DEF GiveUpPolling, PollsOver, MaxTime, SubmissionInv
  <2>5. ASSUME k \in Applied, ~(rpcSecond + 1 < second) PROVE FALSE
    <3>1. appliedAt[k] \in Nat /\ appliedAt[k] <= MaxTime(k) /\ MaxTime(k) \in Nat
      BY <1>1, <2>1, <2>5 DEF SubmissionInv, MaxTime
    <3>2. ~(appliedAt[k] <= rpcSecond)
      BY <1>11, <2>5 DEF GiveUpPolling, Visible
    <3>. QED
      BY <1>1, <2>4, <2>5, <3>1, <3>2
  <2>. QED
    BY <1>1, <2>1, <2>2, <2>3, <2>4, <2>5 DEF SubmissionInv, Live, MaxTime, Applied
<1>12. ASSUME NEW k \in Clicks, LedgerApplies(k) PROVE SubmissionInv'
  <2>1. /\ k \in mempool /\ second <= MaxTime(k)
        /\ sub' = sub /\ second' = second /\ rpcSecond' = rpcSecond /\ excused' = excused
        /\ mempool' = mempool \ {k}
        /\ Applied' = Applied \cup {k}
        /\ \A j \in Applied \cup {k} : appliedAt'[j] = IF j = k THEN second ELSE appliedAt[j]
    BY <1>12 DEF LedgerApplies, Applied
  <2>2. \A j \in Clicks : Stage(j)' = Stage(j) /\ MaxTime(j)' = MaxTime(j)
    BY <2>1 DEF Stage, MaxTime
  <2>3. Stage(k) \notin {"none", "building", "signing", "sending"} /\ k \in Clicks
    BY <2>1 DEF SubmissionInv
  <2>4. excused \/ Stage(k) # "failed"
    <3>1. MaxTime(k) \in Nat
      BY <1>1, <2>3 DEF MaxTime
    <3>. QED
      BY <1>1, <2>1, <3>1 DEF SubmissionInv
  <2>5. \A j \in Clicks : Live(j)' = Live(j)
    BY <2>2 DEF Live
  <2>6. \A j \in Applied' : appliedAt'[j] \in Nat /\ appliedAt'[j] <= MaxTime(j)'
    <3>. TAKE j \in Applied'
    <3>1. j \in Clicks /\ (j = k \/ j \in Applied)
      BY <2>1, <2>3 DEF SubmissionInv, Applied
    <3>. QED
      BY <1>1, <2>1, <2>2, <3>1 DEF SubmissionInv
  <2>7. DOMAIN appliedAt' \subseteq Clicks /\ mempool' \subseteq Clicks
    BY <2>1 DEF SubmissionInv, Applied
  <2>. QED
    BY <1>1, <2>1, <2>2, <2>3, <2>4, <2>5, <2>6, <2>7 DEF SubmissionInv
<1>13. CASE ButtonResets
  <2>1. Chain /\ sub' = sub /\ excused' = excused
    BY <1>2, <1>13 DEF ButtonResets
  <2>. QED
    BY <2>1 DEF SubmissionInv, Live, Stage, MaxTime
<1>14. CASE Tick \/ RpcCatchesUp
  <2>1. /\ sub' = sub /\ excused' = excused /\ mempool' = mempool /\ appliedAt' = appliedAt
        /\ second' \in Nat /\ rpcSecond' \in Nat /\ second <= second'
    BY <1>1, <1>14 DEF Tick, RpcCatchesUp
  <2>2. /\ Applied' = Applied
        /\ \A j \in Clicks : Stage(j)' = Stage(j) /\ MaxTime(j)' = MaxTime(j)
    BY <2>1 DEF Stage, MaxTime, Applied
  <2>3. \A j \in Clicks : Stage(j) = "failed" => MaxTime(j) \in Nat
    BY <1>1 DEF MaxTime
  <2>4. \A j \in Clicks : Live(j)' = Live(j)
    BY <2>2 DEF Live
  <2>5. \A j \in Clicks : Stage(j) \in {"signing", "sending", "polling"} =>
                             sub[j].built <= second /\ sub[j].built <= second'
    BY <1>1, <2>1 DEF SubmissionInv
  <2>6. \A j \in Clicks : Stage(j) = "failed" /\ second > MaxTime(j) => second' > MaxTime(j)
    BY <1>1, <2>1, <2>3
  <2>. QED
    BY <2>1, <2>2, <2>4, <2>5, <2>6 DEF SubmissionInv, Applied
<1>15. CASE UNCHANGED submissionVars
  BY <1>15 DEF SubmissionInv, Live, Stage, MaxTime, Applied, submissionVars
<1>. QED
  BY <1>3, <1>4, <1>5, <1>7, <1>8, <1>9, <1>10, <1>11, <1>12, <1>13, <1>14, <1>15
     DEF SubmissionsNext

\* However often the user clicks, one transaction is applied at most, unless
\* the exceptions that OneTransaction names have happened.
THEOREM TransactionsAppliedOnce == SubmissionsSpec => []OneTransaction
<1>1. SubmissionsInit => SubmissionInv
  BY DEF SubmissionsInit, SubmissionInv, Stage, Live, Applied
<1>2. SubmissionInv => OneTransaction
  <2>. SUFFICES ASSUME SubmissionInv, ~excused PROVE ~(Cardinality(Applied) > 1)
    BY DEF OneTransaction
  <2>1. \A j, k \in Applied : j = k
    BY DEF SubmissionInv, Live, Applied, Stage
  <2>2. Applied = {} \/ \E k : Applied = {k}
    BY <2>1
  <2>. QED
    <3>1. Cardinality(Applied) \in {0, 1}
      BY <2>2, FS_EmptySet, FS_Singleton
    <3>. QED
      BY <3>1
<1>. QED
  BY <1>1, <1>2, SubmissionStep, PTL DEF SubmissionsSpec

-----------------------------------------------------------------------------
(* The wallet connection.                                                  *)

\* What an account that was disconnected may still be found in.
WalletInv ==
  /\ WalletsTypeOK
  /\ persisted \notin departed
  /\ \A v \in Views : {view[v].address, view[v].restoring} \cap departed \subseteq view[v].before

LEMMA WalletStep ==
  WalletInv /\ [WalletsNext]_walletVars => WalletInv'
<1>. SUFFICES ASSUME WalletInv, [WalletsNext]_walletVars PROVE WalletInv'
  OBVIOUS
<1>1. /\ NoWallet \notin Wallets /\ persisted \in Wallets \cup {NoWallet} /\ account \in Wallets
      /\ departed \subseteq Wallets /\ view \in [Views -> ViewState]
      /\ persisted \notin departed
      /\ \A v \in Views : {view[v].address, view[v].restoring} \cap departed \subseteq view[v].before
  BY WalletSessionAssumption DEF WalletInv, WalletsTypeOK
<1>2. \A r \in ViewState, m \in {"detect", "restore", "over"},
         w \in Wallets \cup {NoWallet}, b \in BOOLEAN :
        /\ r.address \in Wallets \cup {NoWallet} /\ r.before \subseteq Wallets
        /\ [r EXCEPT !.mount = m] \in ViewState
        /\ [r EXCEPT !.connecting = b] \in ViewState
        /\ [r EXCEPT !.mount = m, !.restoring = w] \in ViewState
        /\ [r EXCEPT !.mount = m, !.address = w] \in ViewState
        /\ [r EXCEPT !.connecting = b, !.address = w] \in ViewState
  <2>. SUFFICES ASSUME NEW r \in ViewState, NEW m \in {"detect", "restore", "over"},
                       NEW w \in Wallets \cup {NoWallet}, NEW b \in BOOLEAN
                PROVE  /\ r.address \in Wallets \cup {NoWallet} /\ r.before \subseteq Wallets
                       /\ [r EXCEPT !.mount = m] \in ViewState
                       /\ [r EXCEPT !.connecting = b] \in ViewState
                       /\ [r EXCEPT !.mount = m, !.restoring = w] \in ViewState
                       /\ [r EXCEPT !.mount = m, !.address = w] \in ViewState
                       /\ [r EXCEPT !.connecting = b, !.address = w] \in ViewState
    OBVIOUS
  <2>1. r.address \in Wallets \cup {NoWallet} /\ r.before \subseteq Wallets
    BY DEF ViewState
  <2>2. [r EXCEPT !.mount = m] \in ViewState
    BY DEF ViewState
  <2>3. [r EXCEPT !.connecting = b] \in ViewState
    BY DEF ViewState
  <2>4. [r EXCEPT !.mount = m, !.restoring = w] \in ViewState
    BY DEF ViewState
  <2>5. [r EXCEPT !.mount = m, !.address = w] \in ViewState
    BY DEF ViewState
  <2>6. [r EXCEPT !.connecting = b, !.address = w] \in ViewState
    BY DEF ViewState
  <2>. QED
    BY <2>1, <2>2, <2>3, <2>4, <2>5, <2>6
<1>3. Mounted \in ViewState /\ Mounted.address = NoWallet /\ Mounted.restoring = NoWallet
  BY DEF Mounted, ViewState
<1>4. CASE LoadPage
  BY <1>1, <1>3, <1>4 DEF LoadPage, WalletInv, WalletsTypeOK
<1>5. ASSUME NEW w \in Wallets, ChangeAccount(w) PROVE WalletInv'
  BY <1>1, <1>5 DEF ChangeAccount, WalletInv, WalletsTypeOK
\* A step of one view, which keeps its history, and takes no account that was
\* disconnected but one it has.
<1>6. ASSUME NEW v \in Views, NEW r \in ViewState, view' = [view EXCEPT ![v] = r],
             account' = account, persisted' \in Wallets \cup {NoWallet},
             departed' \subseteq departed, persisted' \notin departed',
             r.before = view[v].before,
             {r.address, r.restoring} \cap departed' \subseteq {view[v].address, view[v].restoring}
      PROVE  WalletInv'
  <2>1. \A u \in Views : view'[u] = IF u = v THEN r ELSE view[u]
    BY <1>1, <1>6
  <2>2. view' \in [Views -> ViewState]
    BY <1>1, <1>6
  <2>3. ASSUME NEW u \in Views
        PROVE  {view'[u].address, view'[u].restoring} \cap departed' \subseteq view'[u].before
    <3>1. CASE u = v
      BY <1>1, <1>6, <2>1, <3>1
    <3>2. CASE u # v
      BY <1>1, <1>6, <2>1, <3>2
    <3>. QED
      BY <3>1, <3>2
  <2>. QED
    BY <1>1, <1>6, <2>2, <2>3 DEF WalletInv, WalletsTypeOK
<1>7. ASSUME NEW v \in Views, Detected(v) PROVE WalletInv'
  <2>1. PICK m \in {"restore", "over"} : view' = [view EXCEPT ![v].mount = m, ![v].restoring = persisted]
    BY <1>7 DEF Detected
  <2>. DEFINE r == [view[v] EXCEPT !.mount = m, !.restoring = persisted]
  <2>2. r \in ViewState
    BY <1>1, <1>2
  <2>3. r.before = view[v].before /\ r.address = view[v].address /\ r.restoring = persisted
    BY <1>1 DEF ViewState
  <2>4. /\ view' = [view EXCEPT ![v] = r]
        /\ account' = account /\ persisted' = persisted /\ departed' = departed
    BY <1>1, <1>7, <2>1 DEF Detected
  <2>. HIDE DEF r
  <2>. QED
    BY <1>1, <1>6, <2>2, <2>3, <2>4
<1>8. ASSUME NEW v \in Views, DetectionFails(v) \/ RestoreFails(v) PROVE WalletInv'
  <2>. DEFINE r == [view[v] EXCEPT !.mount = "over"]
  <2>1. r \in ViewState
    BY <1>1, <1>2
  <2>2. /\ r.before = view[v].before /\ r.address = view[v].address
        /\ r.restoring = view[v].restoring
    BY <1>1 DEF ViewState
  <2>3. /\ view' = [view EXCEPT ![v] = r]
        /\ account' = account /\ persisted' \in {persisted, NoWallet} /\ departed' = departed
    BY <1>8 DEF DetectionFails, RestoreFails
  <2>. HIDE DEF r
  <2>. QED
    BY <1>1, <1>6, <2>1, <2>2, <2>3
<1>9. ASSUME NEW v \in Views, Restored(v) PROVE WalletInv'
  <2>. DEFINE r == [view[v] EXCEPT !.mount = "over", !.address = view[v].restoring]
  <2>1. view[v].restoring \in Wallets \cup {NoWallet}
    BY <1>1 DEF ViewState
  <2>2. r \in ViewState
    BY <1>1, <1>2, <2>1
  <2>3. /\ r.before = view[v].before /\ r.address = view[v].restoring
        /\ r.restoring = view[v].restoring
    BY <1>1 DEF ViewState
  <2>4. /\ view' = [view EXCEPT ![v] = r]
        /\ account' = account /\ persisted' = persisted /\ departed' = departed
    BY <1>9 DEF Restored
  <2>. HIDE DEF r
  <2>. QED
    BY <1>1, <1>6, <2>2, <2>3, <2>4
<1>10. ASSUME NEW v \in Views, Connect(v) \/ ConnectFails(v) PROVE WalletInv'
  <2>1. PICK b \in BOOLEAN : view' = [view EXCEPT ![v].connecting = b]
    BY <1>10 DEF Connect, ConnectFails
  <2>. DEFINE r == [view[v] EXCEPT !.connecting = b]
  <2>2. r \in ViewState
    BY <1>1, <1>2
  <2>3. /\ r.before = view[v].before /\ r.address = view[v].address
        /\ r.restoring = view[v].restoring
    BY <1>1 DEF ViewState
  <2>4. /\ view' = [view EXCEPT ![v] = r]
        /\ account' = account /\ persisted' = persisted /\ departed' = departed
    BY <1>10, <2>1 DEF Connect, ConnectFails
  <2>. HIDE DEF r
  <2>. QED
    BY <1>1, <1>6, <2>2, <2>3, <2>4
<1>11. ASSUME NEW v \in Views, Connected(v) \/ ConnectRefused(v) PROVE WalletInv'
  <2>1. PICK w \in {account, NoWallet} :
          /\ view' = [view EXCEPT ![v].connecting = FALSE, ![v].address = w]
          /\ persisted' = w /\ account' = account
          /\ departed' \subseteq departed /\ w \notin departed'
    BY <1>1, <1>11 DEF Connected, ConnectRefused
  <2>. DEFINE r == [view[v] EXCEPT !.connecting = FALSE, !.address = w]
  <2>2. r \in ViewState
    BY <1>1, <1>2
  <2>3. /\ r.before = view[v].before /\ r.address = w
        /\ r.restoring = view[v].restoring
    BY <1>1 DEF ViewState
  <2>4. view' = [view EXCEPT ![v] = r]
    BY <2>1
  <2>. HIDE DEF r
  <2>5. {r.address, r.restoring} \cap departed' \subseteq {view[v].address, view[v].restoring}
    BY <2>1, <2>3
  <2>6. persisted' \in Wallets \cup {NoWallet} /\ persisted' \notin departed'
    BY <1>1, <2>1
  <2>7. account' = account /\ departed' \subseteq departed /\ r.before = view[v].before
    BY <2>1, <2>3
  <2>. QED
    BY <1>6, <2>2, <2>4, <2>5, <2>6, <2>7
\* An account that is disconnected is noted in every view that has it.
<1>12. ASSUME NEW v \in Views, Disconnect(v) PROVE WalletInv'
  <2>1. PICK w \in Wallets : w = view[v].address
    BY <1>1, <1>2, <1>12 DEF Disconnect, Shows
  <2>. DEFINE a(u) == IF u = v THEN NoWallet ELSE view[u].address
              b(u) == IF w \in {view[u].address, view[u].restoring}
                      THEN view[u].before \cup {w} ELSE view[u].before
              r(u) == [view[u] EXCEPT !.address = a(u), !.before = b(u)]
  <2>2. /\ view' = [u \in Views |-> r(u)]
        /\ persisted' = NoWallet /\ departed' = departed \cup {w} /\ account' = account
    BY <1>12, <2>1 DEF Disconnect, Shows, Kept
  <2>3. ASSUME NEW u \in Views
        PROVE  /\ r(u) \in ViewState
               /\ r(u).address = a(u) /\ r(u).before = b(u) /\ r(u).restoring = view[u].restoring
    <3>1. a(u) \in Wallets \cup {NoWallet} /\ b(u) \in SUBSET Wallets
      BY <1>1, <1>2
    <3>. HIDE DEF a, b
    <3>. QED
      BY <1>1, <3>1 DEF ViewState
  <2>4. ASSUME NEW u \in Views
        PROVE  {view'[u].address, view'[u].restoring} \cap departed' \subseteq view'[u].before
    <3>1. view'[u] = r(u)
      BY <2>2
    <3>2. /\ view'[u].address = a(u) /\ view'[u].before = b(u)
          /\ view'[u].restoring = view[u].restoring
      BY <2>3, <3>1
    <3>. HIDE DEF r
    <3>3. ASSUME NEW x \in {a(u), view[u].restoring}, x \in departed \cup {w} PROVE x \in b(u)
      <4>1. x # NoWallet
        BY <1>1, <3>3
      <4>2. x \in {view[u].address, view[u].restoring}
        BY <3>3, <4>1
      <4>3. CASE x = w
        BY <4>2, <4>3
      <4>4. CASE x \in departed
        <5>1. x \in view[u].before
          BY <1>1, <4>2, <4>4
        <5>. QED
          BY <5>1
      <4>. QED
        BY <3>3, <4>3, <4>4
    <3>. QED
      BY <2>2, <3>2, <3>3
  <2>5. view' \in [Views -> ViewState]
    <3>. HIDE DEF r
    <3>. QED
      BY <2>2, <2>3
  <2>. QED
    BY <1>1, <2>2, <2>4, <2>5 DEF WalletInv, WalletsTypeOK
<1>13. CASE UNCHANGED walletVars
  BY <1>13 DEF walletVars, WalletInv, WalletsTypeOK
<1>. QED
  BY <1>4, <1>5, <1>7, <1>8, <1>9, <1>10, <1>11, <1>12, <1>13 DEF WalletsNext

\* An account that was disconnected is shown by no other view than those that
\* had it by then, until it is connected again.
THEOREM DisconnectedAccountsStayAway == WalletsSpec => []DisconnectedStaysAway
<1>1. WalletsInit => WalletInv
  BY WalletSessionAssumption DEF WalletsInit, WalletInv, WalletsTypeOK, Mounted, ViewState
<1>2. WalletInv => DisconnectedStaysAway
  BY DEF WalletInv, DisconnectedStaysAway, Shows
<1>. QED
  BY <1>1, <1>2, WalletStep, PTL DEF WalletsSpec

-----------------------------------------------------------------------------
(* The lists and the address bar.                                          *)

\* An entry of the browser's history, whatever its page.
EntryShape == [on : {"list", "elsewhere"}, filters : Filters, page : Int,
               limit : Limits \cup {DefaultLimit}]

\* What waits to be written into the URL is what the bar shows.
ListInv ==
  /\ entries \in Seq(EntryShape) /\ at \in 1 .. Len(entries)
  /\ {bar, debounced} \subseteq Filters \cup {NoBar}
  /\ strayed \in BOOLEAN
  /\ debounced # NoBar => debounced = bar
  /\ bar # NoBar /\ debounced = NoBar /\ ~strayed => bar = entries[at].filters

LEMMA EntryShapes ==
  /\ NoBar \notin Filters /\ EmptyFilters \in Filters
  /\ Plain \in EntryShape /\ Plain.filters = EmptyFilters
  /\ Away \in EntryShape
  /\ \A e \in EntryShape : e.filters \in Filters
  /\ \A e \in EntryShape, f \in Filters :
       [e EXCEPT !.filters = f] \in EntryShape /\ [e EXCEPT !.filters = f].filters = f
  /\ \A e \in EntryShape, p \in Int :
       [e EXCEPT !.page = p] \in EntryShape /\ [e EXCEPT !.page = p].filters = e.filters
  /\ \A e \in EntryShape, p \in Int, l \in Limits :
       /\ [e EXCEPT !.limit = l, !.page = p] \in EntryShape
       /\ [e EXCEPT !.limit = l, !.page = p].filters = e.filters
<1>1. NoBar \notin Filters /\ EmptyFilters \in Filters
  BY ListViewsAssumption DEF Filters, EmptyFilters
<1>2. Plain \in EntryShape /\ Plain.filters = EmptyFilters
  BY <1>1 DEF Plain, EntryShape
<1>3. Away \in EntryShape
  BY <1>2 DEF Away, EntryShape
<1>. QED
  BY <1>1, <1>2, <1>3 DEF EntryShape

\* What a navigation to an entry does to the history.
LEMMA PushedEntry ==
  ASSUME ListInv, NEW e \in EntryShape, Pushed(e)
  PROVE  entries' \in Seq(EntryShape) /\ at' \in 1 .. Len(entries') /\ entries'[at'] = e
<1>1. entries \in Seq(EntryShape) /\ at \in 1 .. Len(entries) /\ at \in Nat /\ Len(entries) \in Nat
  BY DEF ListInv
<1>. DEFINE past == SubSeq(entries, 1, at)
<1>2. past \in Seq(EntryShape) /\ Len(past) = at
  BY <1>1, SubSeqProperties
<1>3. /\ Append(past, e) \in Seq(EntryShape) /\ Len(Append(past, e)) = at + 1
      /\ Append(past, e)[at + 1] = e
  <2>. HIDE DEF past
  <2>. QED
    BY <1>1, <1>2, AppendProperties
<1>. QED
  BY <1>1, <1>3 DEF Pushed

LEMMA ListStep ==
  ListInv /\ [ListViewsNext]_listVars => ListInv'
<1>. SUFFICES ASSUME ListInv, [ListViewsNext]_listVars PROVE ListInv'
  OBVIOUS
<1>1. /\ entries \in Seq(EntryShape) /\ at \in 1 .. Len(entries) /\ entries[at] \in EntryShape
      /\ {bar, debounced} \subseteq Filters \cup {NoBar} /\ NoBar \notin Filters
      /\ strayed \in BOOLEAN
  <2>1. entries[at] \in EntryShape
    BY ElementOfSeq DEF ListInv
  <2>. QED
    BY <2>1, EntryShapes DEF ListInv
<1>2. ASSUME NEW f \in Filters, Apply(f), at' = at
      PROVE  /\ entries' \in Seq(EntryShape) /\ at' \in 1 .. Len(entries')
             /\ entries'[at'].filters = f /\ strayed' = FALSE
  <2>1. PICK e : e = [Plain EXCEPT !.filters = f]
    OBVIOUS
  <2>2. e \in EntryShape /\ e.filters = f
    BY <2>1, EntryShapes
  <2>3. entries' = [entries EXCEPT ![at] = e]
    BY <1>2, <2>1 DEF Apply
  <2>4. /\ entries' \in Seq(EntryShape) /\ Len(entries') = Len(entries) /\ entries'[at] = e
    BY <1>1, <2>2, <2>3, ExceptSeq
  <2>. QED
    BY <1>1, <1>2, <2>2, <2>4 DEF Apply
\* The bar and the URL are changed together.
<1>3. ASSUME NEW f \in Filters, bar' = f, Immediate(f), at' = at PROVE ListInv'
  BY <1>1, <1>2, <1>3 DEF Immediate, ListInv
\* Another page or another size of the page has the same filters.
<1>4. ASSUME NEW e \in EntryShape, Pushed(e), e.filters = entries[at].filters,
             UNCHANGED <<bar, debounced, strayed>>
      PROVE  ListInv'
  BY <1>1, <1>4, PushedEntry DEF ListInv
\* Where the user arrives the bar is mounted from the URL, or left to stray.
<1>5. ASSUME NEW e \in EntryShape, Arrive(e), entries' \in Seq(EntryShape),
             at' \in 1 .. Len(entries'), entries'[at'] = e
      PROVE  ListInv'
  <2>1. CASE e.on = "list" /\ entries[at].on = "list"
    BY <1>1, <1>5, <2>1 DEF Arrive, ListInv
  <2>2. CASE ~(e.on = "list" /\ entries[at].on = "list")
    <3>1. debounced' = NoBar /\ strayed' = FALSE /\ bar' \in {e.filters, NoBar}
      BY <1>5, <2>2 DEF Arrive
    <3>2. e.filters \in Filters
      BY EntryShapes
    <3>. QED
      BY <1>5, <3>1, <3>2 DEF ListInv
  <2>. QED
    BY <2>1, <2>2
<1>6. ASSUME NEW q \in Queries, SetQuery(q) PROVE ListInv'
  <2>1. bar \in Filters /\ bar' = [bar EXCEPT !.query = q] /\ debounced' = bar'
    BY <1>1, <1>6 DEF SetQuery
  <2>2. bar' \in Filters
    BY <2>1 DEF Filters
  <2>. QED
    BY <1>1, <1>6, <2>1, <2>2 DEF SetQuery, ListInv
<1>7. ASSUME NEW c \in Chips, Toggle(c) PROVE ListInv'
  <2>1. /\ bar \in Filters
        /\ bar' = [bar EXCEPT !.chips = IF c \in @ THEN @ \ {c} ELSE @ \cup {c}]
        /\ Immediate(bar') /\ at' = at
    BY <1>1, <1>7 DEF Toggle
  <2>2. PICK f : f = bar'
    OBVIOUS
  <2>3. f \in Filters
    BY <2>1, <2>2 DEF Filters
  <2>. QED
    BY <1>3, <2>1, <2>2, <2>3
<1>8. CASE ClearAll
  BY <1>3, <1>8, EntryShapes DEF ClearAll
<1>9. CASE QueryDebounced
  <2>1. /\ debounced \in Filters /\ debounced = bar /\ Apply(debounced) /\ bar' = bar
        /\ at' = at /\ debounced' = NoBar
    BY <1>1, <1>9 DEF QueryDebounced, ListInv
  <2>2. PICK f \in Filters : f = debounced
    BY <2>1
  <2>. QED
    BY <1>1, <1>2, <2>1, <2>2 DEF ListInv
<1>10. ASSUME NEW p \in 1 .. MaxTotal, SetPage(p) PROVE ListInv'
  <2>1. PICK e : e = [entries[at] EXCEPT !.page = p]
    OBVIOUS
  <2>2. e \in EntryShape /\ e.filters = entries[at].filters
    <3>1. p \in Int
      OBVIOUS
    <3>. QED
      BY <1>1, <2>1, <3>1, EntryShapes
  <2>. QED
    BY <1>4, <1>10, <2>1, <2>2 DEF SetPage
<1>11. ASSUME NEW l \in Limits, SetLimit(l) PROVE ListInv'
  <2>1. PICK e : e = [entries[at] EXCEPT !.limit = l, !.page = 1]
    OBVIOUS
  <2>2. e \in EntryShape /\ e.filters = entries[at].filters
    <3>1. 1 \in Int
      OBVIOUS
    <3>. QED
      BY <1>1, <2>1, <3>1, EntryShapes
  <2>. QED
    BY <1>4, <1>11, <2>1, <2>2 DEF SetLimit
<1>12. ASSUME NEW e \in {Plain, Away}, FollowLink(e) PROVE ListInv'
  <2>1. e \in EntryShape
    BY EntryShapes
  <2>. QED
    BY <1>5, <1>12, <2>1, PushedEntry DEF FollowLink
<1>13. ASSUME NEW i \in 1 .. MaxEntries, BackOrForward(i) PROVE ListInv'
  <2>1. i \in 1 .. Len(entries) /\ entries' = entries /\ at' = i /\ Arrive(entries[i])
    BY <1>1, <1>13 DEF BackOrForward
  <2>2. PICK e : e = entries[i]
    OBVIOUS
  <2>3. e \in EntryShape
    BY <1>1, <2>1, <2>2
  <2>. QED
    BY <1>1, <1>5, <2>1, <2>2, <2>3
<1>14. CASE Reload
  <2>1. /\ bar' \in {entries[at].filters, NoBar} /\ debounced' = NoBar /\ strayed' = FALSE
        /\ entries' = entries /\ at' = at
    BY <1>14 DEF Reload
  <2>2. entries[at].filters \in Filters
    BY <1>1, EntryShapes
  <2>. QED
    BY <1>1, <2>1, <2>2 DEF ListInv
<1>15. ASSUME UNCHANGED <<entries, at, bar, debounced, strayed>> PROVE ListInv'
  BY <1>15 DEF ListInv
<1>16. ASSUME NEW n \in 0 .. MaxTotal, ItemsLoaded(n) PROVE ListInv'
  BY <1>15, <1>16 DEF ItemsLoaded
<1>17. CASE ItemsFail \/ RetryItems \/ UNCHANGED listVars
  BY <1>15, <1>17 DEF ItemsFail, RetryItems, listVars
<1>. QED
  BY <1>6, <1>7, <1>8, <1>9, <1>10, <1>11, <1>12, <1>13, <1>14, <1>16, <1>17 DEF ListViewsNext

\* The list is filtered by what the bar above it shows, but while a search text
\* is being typed and after the user moved under the mounted bar.
THEOREM FiltersAreTheBars == ListViewsSpec => []ListFollowsBar
<1>1. ListViewsInit => ListInv
  <2>. SUFFICES ASSUME ListViewsInit PROVE ListInv
    OBVIOUS
  <2>1. entries \in Seq(EntryShape) /\ Len(entries) = 1 /\ entries[1] = Plain
    <3>1. Plain \in EntryShape /\ entries = <<Plain>>
      BY EntryShapes DEF ListViewsInit
    <3>. QED
      BY <3>1
  <2>2. /\ at = 1 /\ bar \in {EmptyFilters, NoBar} /\ debounced = NoBar /\ strayed = FALSE
    BY DEF ListViewsInit
  <2>3. entries[at].filters = EmptyFilters /\ EmptyFilters \in Filters
    BY <2>1, <2>2, EntryShapes
  <2>4. {bar, debounced} \subseteq Filters \cup {NoBar} /\ at \in 1 .. Len(entries)
    BY <2>1, <2>2, <2>3
  <2>. QED
    BY <2>1, <2>2, <2>3, <2>4 DEF ListInv
<1>2. ListInv => ListFollowsBar
  BY DEF ListInv, ListFollowsBar
<1>. QED
  BY <1>1, <1>2, ListStep, PTL DEF ListViewsSpec

-----------------------------------------------------------------------------
(* The draft of the form.                                                  *)

\* A tab whose form belongs to its account, and whose offer does.
Rightful(r, held, draft) ==
  /\ r.form # Nought => /\ r.form \in 1 .. Len(held)
                        /\ r.account \in held[r.form] \/ r.crossed
  /\ r.submitting => r.form # Nought
  /\ r.offer => r.crossed \/ draft = Nought \/ draft.account = r.account

DraftInv ==
  /\ heldFor \in Seq(SUBSET Accounts) /\ Len(heldFor) <= MaxTexts
  /\ tab \in [Tabs -> TabState]
  /\ saved # Nought => /\ saved \in [account : Accounts, text : 1 .. Len(heldFor)]
                       /\ saved.account \in heldFor[saved.text]
  /\ \A t \in Tabs : Rightful(tab[t], heldFor, saved)

LEMMA DraftStep ==
  DraftInv /\ [DraftsNext]_draftVars => DraftInv'
<1>. SUFFICES ASSUME DraftInv, [DraftsNext]_draftVars PROVE DraftInv'
  OBVIOUS
<1>1. /\ heldFor \in Seq(SUBSET Accounts) /\ Len(heldFor) \in Nat /\ MaxTexts \in Nat
      /\ Len(heldFor) <= MaxTexts /\ Nought \notin 1 .. MaxTexts
      /\ \A x \in 1 .. Len(heldFor) : x \in Texts /\ heldFor[x] \subseteq Accounts
      /\ saved # Nought => /\ saved \in [account : Accounts, text : 1 .. Len(heldFor)]
                           /\ saved.account \in heldFor[saved.text]
  BY FormDraftsAssumption DEF DraftInv, Texts
<1>2. /\ tab \in [Tabs -> TabState]
      /\ \A t \in Tabs : tab[t] \in TabState /\ Rightful(tab[t], heldFor, saved)
  BY DEF DraftInv
<1>3. \A r \in TabState :
        /\ r.account \in Accounts /\ r.form \in Texts \cup {Nought}
        /\ r.submitting \in BOOLEAN /\ r.offer \in BOOLEAN /\ r.crossed \in BOOLEAN
  BY DEF TabState
\* A tab is left as rightful as it was while the texts keep their accounts and
\* no other draft is saved.
<1>4. ASSUME NEW r \in TabState, Rightful(r, heldFor, saved), saved' \in {saved, Nought},
             Len(heldFor') \in Nat, Len(heldFor) <= Len(heldFor'),
             \A x \in 1 .. Len(heldFor) : heldFor[x] \subseteq heldFor'[x]
      PROVE  Rightful(r, heldFor', saved')
  BY <1>1, <1>4 DEF Rightful
<1>5. ASSUME NEW t \in Tabs, NEW r \in TabState, tab' = [tab EXCEPT ![t] = r],
             Rightful(r, heldFor', saved'), saved' \in {saved, Nought}, heldFor' = heldFor
      PROVE  DraftInv'
  <2>1. \A u \in Tabs : Rightful(tab'[u], heldFor', saved')
    <3>1. ASSUME NEW u \in Tabs PROVE tab'[u] = IF u = t THEN r ELSE tab[u]
      BY <1>2, <1>5
    <3>2. ASSUME NEW u \in Tabs, u # t PROVE Rightful(tab'[u], heldFor', saved')
      <4>1. PICK q : q = tab[u]
        OBVIOUS
      <4>2. q \in TabState /\ Rightful(q, heldFor, saved)
        BY <1>2, <4>1
      <4>3. Rightful(q, heldFor', saved')
        BY <1>1, <1>4, <1>5, <4>2
      <4>. QED
        BY <3>1, <3>2, <4>1, <4>3 DEF Rightful
    <3>3. Rightful(tab'[t], heldFor', saved')
      BY <1>5, <3>1 DEF Rightful
    <3>. QED
      BY <3>2, <3>3
  <2>2. tab' \in [Tabs -> TabState]
    BY <1>2, <1>5
  <2>. QED
    BY <1>1, <1>5, <2>1, <2>2 DEF DraftInv
<1>6. ASSUME NEW t \in Tabs, NEW a \in Accounts, OpenForm(t, a) PROVE DraftInv'
  <2>1. PICK b \in BOOLEAN : b = Offered(a)
    BY DEF Offered
  <2>. DEFINE r == Blank(a, b)
  <2>2. /\ r \in TabState /\ r.form = Nought /\ r.submitting = FALSE /\ r.offer = b
        /\ r.account = a
    BY DEF Blank, TabState
  <2>3. tab' = [tab EXCEPT ![t] = r] /\ heldFor' = heldFor /\ saved' = saved
    BY <1>6, <2>1 DEF OpenForm
  <2>. HIDE DEF r
  <2>4. Rightful(r, heldFor', saved')
    BY <2>1, <2>2, <2>3 DEF Rightful, Offered
  <2>. QED
    BY <1>5, <2>2, <2>3, <2>4
<1>7. ASSUME NEW t \in Tabs, NEW a \in Accounts, SwitchAccount(t, a) PROVE DraftInv'
  <2>1. PICK b \in BOOLEAN : b = (tab[t].offer \/ Offered(a))
    BY DEF Offered
  <2>. DEFINE r == [tab[t] EXCEPT !.account = a, !.offer = b, !.crossed = TRUE]
  <2>2. /\ r \in TabState /\ r.form = tab[t].form /\ r.submitting = tab[t].submitting
        /\ r.crossed
    BY <1>2 DEF TabState
  <2>3. tab' = [tab EXCEPT ![t] = r] /\ heldFor' = heldFor /\ saved' = saved
    BY <1>2, <1>7, <2>1 DEF SwitchAccount
  <2>. HIDE DEF r
  <2>4. Rightful(r, heldFor', saved')
    BY <1>2, <2>2, <2>3 DEF Rightful
  <2>. QED
    BY <1>5, <2>2, <2>3, <2>4
<1>8. ASSUME NEW t \in Tabs, TypeText(t) PROVE DraftInv'
  <2>. DEFINE n == Len(heldFor) + 1
              r == [tab[t] EXCEPT !.form = n]
  <2>1. n \in Texts
    BY <1>1, <1>8 DEF TypeText, Texts
  <2>2. /\ r \in TabState /\ r.form = n /\ r.account = tab[t].account
        /\ r.submitting = tab[t].submitting /\ r.offer = tab[t].offer /\ r.crossed = tab[t].crossed
    BY <1>2, <2>1 DEF TabState
  <2>3. tab' = [tab EXCEPT ![t] = r] /\ saved' = saved
    BY <1>8 DEF TypeText
  <2>4. /\ heldFor' \in Seq(SUBSET Accounts) /\ Len(heldFor') = n
        /\ heldFor'[n] = {tab[t].account}
        /\ \A x \in 1 .. Len(heldFor) : heldFor'[x] = heldFor[x]
    <3>1. PICK A \in SUBSET Accounts : A = {tab[t].account}
      BY <1>2, <1>3
    <3>2. heldFor' = Append(heldFor, A)
      BY <1>8, <3>1 DEF TypeText
    <3>. QED
      BY <1>1, <3>1, <3>2, AppendProperties
  <2>5. Rightful(r, heldFor', saved')
    <3>1. Rightful(tab[t], heldFor, saved) /\ ~tab[t].submitting
      BY <1>2, <1>8 DEF TypeText
    <3>. HIDE DEF r
    <3>2. r.form \in 1 .. Len(heldFor') /\ r.account \in heldFor'[r.form] /\ ~r.submitting
      BY <1>1, <2>2, <2>4, <3>1
    <3>3. r.offer => r.crossed \/ saved' = Nought \/ saved'.account = r.account
      BY <2>2, <2>3, <3>1 DEF Rightful
    <3>. QED
      BY <3>2, <3>3 DEF Rightful
  <2>. HIDE DEF r
  <2>6. \A u \in Tabs : Rightful(tab'[u], heldFor', saved')
    <3>1. ASSUME NEW u \in Tabs PROVE tab'[u] = IF u = t THEN r ELSE tab[u]
      BY <1>2, <2>3
    <3>2. ASSUME NEW u \in Tabs, u # t PROVE Rightful(tab'[u], heldFor', saved')
      <4>1. PICK q : q = tab[u]
        OBVIOUS
      <4>2. q \in TabState /\ Rightful(q, heldFor, saved)
        BY <1>2, <4>1
      <4>3. Rightful(q, heldFor', saved')
        BY <1>1, <1>4, <2>3, <2>4, <4>2
      <4>. QED
        BY <3>1, <3>2, <4>1, <4>3 DEF Rightful
    <3>3. Rightful(tab'[t], heldFor', saved')
      BY <2>5, <3>1 DEF Rightful
    <3>. QED
      BY <3>2, <3>3
  <2>7. tab' \in [Tabs -> TabState]
    BY <1>2, <2>2, <2>3
  <2>8. saved' # Nought => /\ saved' \in [account : Accounts, text : 1 .. Len(heldFor')]
                           /\ saved'.account \in heldFor'[saved'.text]
    BY <1>1, <2>3, <2>4
  <2>9. Len(heldFor') <= MaxTexts
    BY <1>1, <2>1, <2>4 DEF Texts
  <2>. QED
    BY <2>4, <2>6, <2>7, <2>8, <2>9 DEF DraftInv
\* What is saved is from now on held for the account of the tab; the tabs of
\* other accounts may be offered it.
<1>9. ASSUME NEW t \in Tabs, AutoSave(t) PROVE DraftInv'
  <2>1. PICK x \in 1 .. Len(heldFor) : x = tab[t].form
    BY <1>2, <1>9 DEF AutoSave, Rightful
  <2>2. PICK a \in Accounts : a = tab[t].account
    BY <1>2, <1>3
  <2>3. PICK A \in SUBSET Accounts : A = heldFor[x] \cup {a}
    BY <1>1
  <2>4. /\ heldFor' \in Seq(SUBSET Accounts) /\ Len(heldFor') = Len(heldFor)
        /\ heldFor'[x] = A
        /\ \A y \in 1 .. Len(heldFor) : y # x => heldFor'[y] = heldFor[y]
    <3>1. heldFor' = [heldFor EXCEPT ![x] = A]
      BY <1>9, <2>1, <2>2, <2>3 DEF AutoSave
    <3>. QED
      BY <1>1, <3>1, ExceptSeq
  <2>5. saved' = [account |-> a, text |-> x]
    BY <1>9, <2>1, <2>2 DEF AutoSave
  <2>. DEFINE r(u) == IF tab[u].account # a THEN [tab[u] EXCEPT !.crossed = TRUE] ELSE tab[u]
  <2>6. tab' = [u \in Tabs |-> r(u)]
    BY <1>9, <2>2 DEF AutoSave
  <2>7. ASSUME NEW u \in Tabs
        PROVE  /\ r(u) \in TabState /\ r(u).account = tab[u].account
               /\ r(u).form = tab[u].form /\ r(u).submitting = tab[u].submitting
               /\ r(u).offer = tab[u].offer
               /\ tab[u].crossed \/ tab[u].account # a => r(u).crossed
    BY <1>2 DEF TabState
  <2>. HIDE DEF r
  <2>8. \A y \in 1 .. Len(heldFor) : heldFor[y] \subseteq heldFor'[y]
    BY <2>3, <2>4
  <2>9. ASSUME NEW u \in Tabs PROVE Rightful(r(u), heldFor', saved')
    <3>1. Rightful(tab[u], heldFor, saved)
      BY <1>2
    <3>2. r(u).form # Nought => /\ r(u).form \in 1 .. Len(heldFor')
                                /\ r(u).account \in heldFor'[r(u).form] \/ r(u).crossed
      <4>. SUFFICES ASSUME r(u).form # Nought
                    PROVE  /\ r(u).form \in 1 .. Len(heldFor')
                           /\ r(u).account \in heldFor'[r(u).form] \/ r(u).crossed
        OBVIOUS
      <4>1. /\ tab[u].form \in 1 .. Len(heldFor)
            /\ tab[u].account \in heldFor[tab[u].form] \/ tab[u].crossed
        BY <2>7, <3>1 DEF Rightful
      <4>. QED
        BY <2>4, <2>7, <2>8, <4>1
    <3>3. r(u).submitting => r(u).form # Nought
      BY <2>7, <3>1 DEF Rightful
    <3>4. saved'.account = r(u).account \/ r(u).crossed
      BY <2>5, <2>7
    <3>. QED
      BY <3>2, <3>3, <3>4 DEF Rightful
  <2>10. \A u \in Tabs : Rightful(tab'[u], heldFor', saved')
    BY <2>6, <2>9 DEF Rightful
  <2>11. tab' \in [Tabs -> TabState]
    BY <2>6, <2>7
  <2>12. /\ saved' \in [account : Accounts, text : 1 .. Len(heldFor')]
         /\ saved'.account \in heldFor'[saved'.text]
    BY <2>3, <2>4, <2>5
  <2>. QED
    BY <1>1, <2>4, <2>10, <2>11, <2>12 DEF DraftInv
<1>10. ASSUME NEW t \in Tabs, RestoreDraft(t) PROVE DraftInv'
  <2>1. PICK x \in 1 .. Len(heldFor) : x = saved.text
    BY <1>1, <1>10 DEF RestoreDraft
  <2>. DEFINE r == [tab[t] EXCEPT !.form = x, !.offer = FALSE]
  <2>2. /\ r \in TabState /\ r.form = x /\ r.offer = FALSE
        /\ r.account = tab[t].account /\ r.crossed = tab[t].crossed
    BY <1>1, <1>2 DEF TabState
  <2>3. tab' = [tab EXCEPT ![t] = r] /\ heldFor' = heldFor /\ saved' = saved
    BY <1>10, <2>1 DEF RestoreDraft
  <2>. HIDE DEF r
  <2>4. tab[t].account \in heldFor[x] \/ tab[t].crossed
    <3>1. tab[t].crossed \/ saved.account = tab[t].account
      BY <1>2, <1>10 DEF RestoreDraft, Rightful
    <3>. QED
      BY <1>1, <1>10, <2>1, <3>1 DEF RestoreDraft
  <2>5. x # Nought
    BY <1>1
  <2>6. Rightful(r, heldFor', saved')
    BY <2>2, <2>3, <2>4, <2>5 DEF Rightful
  <2>. QED
    BY <1>5, <2>2, <2>3, <2>6
<1>11. ASSUME NEW t \in Tabs, DismissDraft(t) PROVE DraftInv'
  <2>. DEFINE r == [tab[t] EXCEPT !.offer = FALSE]
  <2>1. /\ r \in TabState /\ r.form = tab[t].form /\ r.submitting = tab[t].submitting
        /\ r.offer = FALSE /\ r.account = tab[t].account /\ r.crossed = tab[t].crossed
    BY <1>2 DEF TabState
  <2>2. tab' = [tab EXCEPT ![t] = r] /\ heldFor' = heldFor /\ saved' = Nought
    BY <1>11 DEF DismissDraft
  <2>. HIDE DEF r
  <2>3. Rightful(r, heldFor', saved')
    BY <1>2, <2>1, <2>2 DEF Rightful
  <2>. QED
    BY <1>5, <2>1, <2>2, <2>3
<1>12. ASSUME NEW t \in Tabs, SubmitForm(t) \/ RegistrationFails(t) PROVE DraftInv'
  <2>1. PICK b \in BOOLEAN : /\ tab' = [tab EXCEPT ![t].submitting = b]
                             /\ b => tab[t].form # Nought
    BY <1>12 DEF SubmitForm, RegistrationFails
  <2>. DEFINE r == [tab[t] EXCEPT !.submitting = b]
  <2>2. /\ r \in TabState /\ r.form = tab[t].form /\ r.submitting = b
        /\ r.offer = tab[t].offer /\ r.account = tab[t].account /\ r.crossed = tab[t].crossed
    BY <1>2 DEF TabState
  <2>3. tab' = [tab EXCEPT ![t] = r] /\ heldFor' = heldFor /\ saved' = saved
    BY <1>12, <2>1 DEF SubmitForm, RegistrationFails
  <2>. HIDE DEF r
  <2>4. Rightful(r, heldFor', saved')
    BY <1>2, <2>1, <2>2, <2>3 DEF Rightful
  <2>. QED
    BY <1>5, <2>2, <2>3, <2>4
<1>13. ASSUME NEW t \in Tabs, RegistrationSucceeds(t) PROVE DraftInv'
  <2>. DEFINE r == [tab[t] EXCEPT !.submitting = FALSE, !.form = Nought]
  <2>1. /\ r \in TabState /\ r.form = Nought /\ r.submitting = FALSE
    BY <1>2 DEF TabState
  <2>2. tab' = [tab EXCEPT ![t] = r] /\ heldFor' = heldFor /\ saved' = Nought
    BY <1>13 DEF RegistrationSucceeds
  <2>. HIDE DEF r
  <2>3. Rightful(r, heldFor', saved')
    BY <2>1, <2>2 DEF Rightful
  <2>. QED
    BY <1>5, <2>1, <2>2, <2>3
<1>14. CASE UNCHANGED draftVars
  BY <1>14 DEF draftVars, DraftInv, Rightful
<1>. QED
  BY <1>6, <1>7, <1>8, <1>9, <1>10, <1>11, <1>12, <1>13, <1>14 DEF DraftsNext

\* A form registers what was typed or saved for its own account, but for the
\* crossings of accounts that OwnDraftOnly names.
THEOREM DraftsStayWithTheirAccount == DraftsSpec => []OwnDraftOnly
<1>1. DraftsInit => DraftInv
  <2>. SUFFICES ASSUME DraftsInit PROVE DraftInv
    OBVIOUS
  <2>1. heldFor = <<>> /\ heldFor \in Seq(SUBSET Accounts) /\ Len(heldFor) = 0 /\ saved = Nought
    BY DEF DraftsInit
  <2>2. \A t \in Tabs : \E a \in Accounts : tab[t] = Blank(a, FALSE)
    BY DEF DraftsInit
  <2>3. \A a \in Accounts : /\ Blank(a, FALSE) \in TabState /\ Blank(a, FALSE).form = Nought
                            /\ ~Blank(a, FALSE).submitting /\ ~Blank(a, FALSE).offer
    BY DEF Blank, TabState
  <2>4. tab \in [Tabs -> TabState]
    BY <2>3 DEF DraftsInit
  <2>5. \A t \in Tabs : Rightful(tab[t], heldFor, saved)
    BY <2>2, <2>3 DEF Rightful
  <2>. QED
    BY <2>1, <2>4, <2>5, FormDraftsAssumption DEF DraftInv
<1>2. DraftInv => OwnDraftOnly
  BY DEF DraftInv, Rightful, OwnDraftOnly
<1>. QED
  BY <1>1, <1>2, DraftStep, PTL DEF DraftsSpec

-----------------------------------------------------------------------------
(* The loan wizard.                                                        *)

\* What the wizard has established when it has come to a step.
Established(w, ledger) ==
  /\ w.step >= 2 => /\ w.collateralId \in Ids /\ w.appraisedValue > 0
                    /\ ledger[w.collateralId] = w.appraisedValue
  /\ w.step >= 3 => w.loanAmount <= MaxLoan(w.appraisedValue)

WizardInv ==
  /\ LoanWizardTypeOK /\ LoansCovered
  /\ Established(wizard, registered)
  /\ flight = "registration" => /\ wizard.step = 1 /\ wizard.loading
                                /\ wizard.appraisedValue > 0
  /\ flight = "request" => wizard.step = 4
  /\ disbursed => wizard.step = 4 /\ flight = "nothing"

\* What a handler of the wizard may write, each field for itself.
LEMMA WizardFields ==
  /\ Values \cup Amounts \subseteq Nat /\ 0 \in Values /\ 0 \in Amounts /\ MaxIds \in Nat
  /\ \A w \in WizardState :
       /\ w.step \in 1 .. 4 /\ w.appraisedValue \in Values /\ w.appraisedValue \in Nat
       /\ w.collateralId \in 0 .. MaxIds /\ w.loanAmount \in Amounts /\ w.loanAmount \in Nat
       /\ w.loading \in BOOLEAN
<1>1. Values \cup Amounts \subseteq Nat /\ 0 \in Values /\ 0 \in Amounts /\ MaxIds \in Nat
  BY LoanWizardAssumption
<1>. QED
  BY <1>1 DEF WizardState

\* Only a collateral that was not on the ledger gets a value: no loan loses
\* its cover, and nothing that is established.
LEMMA LedgerKeepsCover ==
  ASSUME WizardInv, NEW i \in Ids, OnLedger(i)
  PROVE  /\ registered' \in [Ids -> Values] /\ registered'[i] = wizard.appraisedValue
         /\ \A j \in Ids : registered[j] > 0 => registered'[j] = registered[j]
         /\ \A l \in requested : l.id \in Ids /\ l.amount <= MaxLoan(registered'[l.id])
<1>1. /\ registered \in [Ids -> Values] /\ wizard \in WizardState
      /\ requested \subseteq [id : 0 .. MaxIds, amount : Amounts]
      /\ \A l \in requested : l.id \in Ids /\ l.amount <= MaxLoan(registered[l.id])
  BY DEF WizardInv, LoanWizardTypeOK, LoansCovered
<1>2. registered[i] = 0 /\ registered' = [registered EXCEPT ![i] = wizard.appraisedValue]
  BY DEF OnLedger
<1>3. wizard.appraisedValue \in Values /\ Values \subseteq Nat /\ Amounts \subseteq Nat
  BY <1>1, WizardFields
<1>4. /\ registered' \in [Ids -> Values] /\ registered'[i] = wizard.appraisedValue
      /\ \A j \in Ids : j # i => registered'[j] = registered[j]
  BY <1>1, <1>2, <1>3
<1>5. \A v \in Nat : MaxLoan(v) \in Nat /\ MaxLoan(0) = 0
  BY DEF MaxLoan
<1>6. ASSUME NEW l \in requested
      PROVE  l.id \in Ids /\ l.amount <= MaxLoan(registered'[l.id])
  <2>1. l.id \in Ids /\ l.amount <= MaxLoan(registered[l.id]) /\ l.amount \in Nat
    BY <1>1, <1>3
  <2>2. CASE l.id = i
    <3>1. l.amount <= 0
      BY <1>2, <1>5, <2>1, <2>2
    <3>2. MaxLoan(registered'[l.id]) \in Nat
      BY <1>3, <1>4, <1>5, <2>2
    <3>. QED
      BY <2>1, <3>1, <3>2
  <2>3. CASE l.id # i
    BY <1>4, <2>1, <2>3
  <2>. QED
    BY <2>2, <2>3
<1>. QED
  BY <1>2, <1>4, <1>6

LEMMA WizardStep ==
  WizardInv /\ [LoanWizardNext]_wizardVars => WizardInv'
<1>. SUFFICES ASSUME WizardInv, [LoanWizardNext]_wizardVars PROVE WizardInv'
  OBVIOUS
<1>1. /\ wizard \in WizardState /\ flight \in {"nothing", "registration", "request"}
      /\ disbursed \in BOOLEAN /\ registered \in [Ids -> Values]
      /\ requested \subseteq [id : 0 .. MaxIds, amount : Amounts]
      /\ reloads \in 0 .. MaxReloads /\ MaxReloads \in Nat
      /\ LoansCovered /\ Established(wizard, registered)
      /\ flight = "registration" => /\ wizard.step = 1 /\ wizard.loading
                                    /\ wizard.appraisedValue > 0
      /\ flight = "request" => wizard.step = 4
      /\ disbursed => wizard.step = 4 /\ flight = "nothing"
  BY LoanWizardAssumption DEF WizardInv, LoanWizardTypeOK
<1>2. /\ wizard.step \in 1 .. 4 /\ wizard.appraisedValue \in Nat /\ wizard.loanAmount \in Nat
      /\ wizard.collateralId \in 0 .. MaxIds
  BY <1>1, WizardFields
\* A handler that leaves the ledger alone, and starts no request.
<1>3. ASSUME NEW w \in WizardState, Edits(w), Established(w, registered),
             flight = "nothing", ~disbursed
      PROVE  WizardInv'
  BY <1>1, <1>3 DEF Edits, WizardInv, LoanWizardTypeOK, LoansCovered
\* None of the first three steps is shown while a request is under way, and
\* the first not while it registers.
<1>4. wizard.step \in {2, 3} => flight = "nothing" /\ ~disbursed
  BY <1>1
<1>5. wizard.step = 1 /\ ~wizard.loading => flight = "nothing" /\ ~disbursed
  BY <1>1
<1>6. CASE PrevStep
  <2>1. PICK w : w = [wizard EXCEPT !.step = wizard.step - 1, !.error = FALSE]
    OBVIOUS
  <2>2. wizard.step > 1 /\ flight = "nothing" /\ ~disbursed /\ Edits(w)
    BY <1>6, <2>1 DEF PrevStep
  <2>3. /\ w \in WizardState /\ w.step = wizard.step - 1
        /\ w.appraisedValue = wizard.appraisedValue /\ w.collateralId = wizard.collateralId
        /\ w.loanAmount = wizard.loanAmount
    <3>1. wizard.step - 1 \in 1 .. 4
      BY <1>2, <2>2
    <3>. QED
      BY <1>1, <2>1, <3>1 DEF WizardState
  <2>4. Established(w, registered)
    BY <1>1, <1>2, <2>3 DEF Established
  <2>. QED
    BY <1>3, <2>2, <2>3, <2>4
<1>7. ASSUME NEW v \in Values, SetValue(v) PROVE WizardInv'
  <2>1. PICK w : w = [wizard EXCEPT !.appraisedValue = v]
    OBVIOUS
  <2>2. w \in WizardState /\ w.step = wizard.step
    BY <1>1, <2>1 DEF WizardState
  <2>3. wizard.step = 1 /\ ~wizard.loading /\ Edits(w)
    BY <1>7, <2>1 DEF SetValue
  <2>4. Established(w, registered)
    BY <2>2, <2>3 DEF Established
  <2>. QED
    BY <1>3, <1>5, <2>2, <2>3, <2>4
<1>8. ASSUME NEW a \in Amounts, SetAmount(a) PROVE WizardInv'
  <2>1. PICK w : w = [wizard EXCEPT !.loanAmount = a]
    OBVIOUS
  <2>2. /\ w \in WizardState /\ w.step = wizard.step
        /\ w.appraisedValue = wizard.appraisedValue /\ w.collateralId = wizard.collateralId
    BY <1>1, <2>1 DEF WizardState
  <2>3. wizard.step = 2 /\ Edits(w)
    BY <1>8, <2>1 DEF SetAmount
  <2>4. Established(w, registered)
    BY <1>1, <2>2, <2>3 DEF Established
  <2>. QED
    BY <1>3, <1>4, <2>2, <2>3, <2>4
<1>9. ASSUME NEW n \in 2 .. 4 PROVE
        LET w == [wizard EXCEPT !.step = n, !.error = FALSE]
        IN  /\ w \in WizardState /\ w.step = n
            /\ w.appraisedValue = wizard.appraisedValue /\ w.collateralId = wizard.collateralId
            /\ w.loanAmount = wizard.loanAmount
  <2>1. n \in 1 .. 4
    OBVIOUS
  <2>. QED
    BY <1>1, <2>1 DEF WizardState
<1>10. CASE ReviewTerms
  <2>1. CASE AmountValid
    <3>1. PICK w : w = [wizard EXCEPT !.step = 3, !.error = FALSE]
      OBVIOUS
    <3>2. Edits(w) /\ wizard.step = 2
      BY <1>10, <2>1, <3>1 DEF ReviewTerms, NextStep, CanProceed, AmountValid
    <3>3. Established(w, registered)
      BY <1>1, <1>9, <2>1, <3>1, <3>2 DEF Established, AmountValid
    <3>. QED
      BY <1>3, <1>4, <1>9, <3>1, <3>2, <3>3
  <2>2. CASE ~AmountValid
    <3>1. PICK w : w = [wizard EXCEPT !.error = TRUE]
      OBVIOUS
    <3>2. Edits(w) /\ wizard.step = 2
      BY <1>10, <2>2, <3>1 DEF ReviewTerms
    <3>3. /\ w \in WizardState /\ w.step = wizard.step
          /\ w.appraisedValue = wizard.appraisedValue /\ w.collateralId = wizard.collateralId
      BY <1>1, <3>1 DEF WizardState
    <3>4. Established(w, registered)
      BY <1>1, <3>2, <3>3 DEF Established
    <3>. QED
      BY <1>3, <1>4, <3>2, <3>3, <3>4
  <2>. QED
    BY <2>1, <2>2
<1>11. CASE ConfirmTerms
  <2>1. PICK w : w = [wizard EXCEPT !.step = 4, !.error = FALSE]
    OBVIOUS
  <2>2. Edits(w) /\ wizard.step = 3
    BY <1>11, <2>1 DEF ConfirmTerms, NextStep, CanProceed
  <2>3. Established(w, registered)
    BY <1>1, <1>9, <2>1, <2>2 DEF Established
  <2>. QED
    BY <1>3, <1>4, <1>9, <2>1, <2>2, <2>3
\* A handler that leaves the ledger alone and what is established.
<1>12. ASSUME UNCHANGED <<registered, requested, reloads>>, wizard' \in WizardState,
              wizard'.step = wizard.step, wizard'.appraisedValue = wizard.appraisedValue,
              wizard'.collateralId = wizard.collateralId, wizard'.loanAmount = wizard.loanAmount
       PROVE  Established(wizard', registered') /\ LoansCovered'
  BY <1>1, <1>12 DEF Established, LoansCovered
<1>13. ASSUME NEW b \in BOOLEAN, NEW e \in BOOLEAN,
              wizard' \in {[wizard EXCEPT !.error = e], [wizard EXCEPT !.loading = b, !.error = e],
                           [wizard EXCEPT !.error = e, !.loading = b]}
       PROVE  /\ wizard' \in WizardState
              /\ wizard'.step = wizard.step /\ wizard'.appraisedValue = wizard.appraisedValue
              /\ wizard'.collateralId = wizard.collateralId
              /\ wizard'.loanAmount = wizard.loanAmount
  BY <1>1, <1>13 DEF WizardState
<1>14. CASE HandleRegister
  <2>1. UNCHANGED <<disbursed, registered, requested, reloads>> /\ wizard.step = 1 /\ ~wizard.loading
    BY <1>14 DEF HandleRegister
  <2>2. wizard' \in {[wizard EXCEPT !.error = TRUE], [wizard EXCEPT !.loading = TRUE, !.error = FALSE]}
    BY <1>14 DEF HandleRegister
  <2>3. /\ wizard' \in WizardState
        /\ wizard'.step = wizard.step /\ wizard'.appraisedValue = wizard.appraisedValue
        /\ wizard'.collateralId = wizard.collateralId
        /\ wizard'.loanAmount = wizard.loanAmount
    BY <1>13, <2>2
  <2>4. Established(wizard', registered') /\ LoansCovered'
    BY <1>12, <2>1, <2>3
  <2>5. \/ flight' = "nothing"
        \/ flight' = "registration" /\ wizard.appraisedValue > 0 /\ wizard'.loading
    BY <1>1, <1>5, <1>14, <2>1 DEF HandleRegister, WizardState
  <2>. QED
    BY <1>1, <1>5, <2>1, <2>3, <2>4, <2>5 DEF WizardInv, LoanWizardTypeOK
<1>15. ASSUME NEW i \in Ids, Registered(i) PROVE WizardInv'
  <2>1. flight = "registration" /\ wizard.step = 1 /\ wizard.appraisedValue > 0 /\ OnLedger(i)
    BY <1>1, <1>15 DEF Registered
  <2>2. i \in 0 .. MaxIds
    BY WizardFields DEF Ids
  <2>3. /\ wizard' \in WizardState /\ wizard'.step = 2 /\ wizard'.collateralId = i
        /\ wizard'.appraisedValue = wizard.appraisedValue
    <3>1. PICK w : w = [wizard EXCEPT !.collateralId = i]
      OBVIOUS
    <3>2. /\ w \in WizardState /\ w.step = 1 /\ w.collateralId = i
          /\ w.appraisedValue = wizard.appraisedValue
      BY <1>1, <2>1, <2>2, <3>1 DEF WizardState
    <3>3. PICK x : x = [w EXCEPT !.step = 2, !.error = FALSE]
      OBVIOUS
    <3>4. /\ x \in WizardState /\ x.step = 2 /\ x.collateralId = i
          /\ x.appraisedValue = wizard.appraisedValue
      <4>1. 2 \in 1 .. 4
        OBVIOUS
      <4>. QED
        BY <3>2, <3>3, <4>1 DEF WizardState
    <3>5. wizard' = [x EXCEPT !.loading = FALSE]
      <4>1. CanProceed(wizard)
        BY <2>1 DEF CanProceed
      <4>2. NextStep(w) = x
        BY <3>2, <3>3, <4>1 DEF NextStep
      <4>. QED
        BY <1>15, <3>1, <4>2 DEF Registered
    <3>. QED
      BY <3>4, <3>5 DEF WizardState
  <2>4. /\ registered' \in [Ids -> Values] /\ registered'[i] = wizard.appraisedValue
        /\ \A l \in requested : l.id \in Ids /\ l.amount <= MaxLoan(registered'[l.id])
    BY <2>1, LedgerKeepsCover
  <2>5. flight' = "nothing" /\ UNCHANGED <<disbursed, requested, reloads>>
    BY <1>15 DEF Registered
  <2>6. Established(wizard', registered')
    BY <2>1, <2>3, <2>4 DEF Established
  <2>. QED
    BY <1>1, <2>1, <2>3, <2>4, <2>5, <2>6 DEF WizardInv, LoanWizardTypeOK, LoansCovered
<1>16. CASE WizardRegistrationFails \/ HandleSubmit \/ RequestFails
  <2>1. UNCHANGED <<disbursed, registered, requested, reloads>>
    BY <1>16 DEF WizardRegistrationFails, HandleSubmit, RequestFails
  <2>2. \/ wizard' = [wizard EXCEPT !.error = TRUE, !.loading = FALSE]
        \/ wizard' = [wizard EXCEPT !.error = FALSE]
        \/ wizard' = [wizard EXCEPT !.error = TRUE]
    BY <1>16 DEF WizardRegistrationFails, HandleSubmit, RequestFails
  <2>3. /\ wizard' \in WizardState
        /\ wizard'.step = wizard.step /\ wizard'.appraisedValue = wizard.appraisedValue
        /\ wizard'.collateralId = wizard.collateralId
        /\ wizard'.loanAmount = wizard.loanAmount
    BY <1>13, <2>2
  <2>4. Established(wizard', registered') /\ LoansCovered'
    BY <1>12, <2>1, <2>3
  <2>5. flight' = "nothing" \/ (flight' = "request" /\ wizard.step = 4 /\ ~disbursed)
    BY <1>16 DEF WizardRegistrationFails, HandleSubmit, RequestFails
  <2>. QED
    BY <1>1, <2>1, <2>3, <2>4, <2>5 DEF WizardInv, LoanWizardTypeOK
\* What the ledger is asked for is what was established.
<1>17. ASSUME flight = "request"
       PROVE  LET l == [id |-> wizard.collateralId, amount |-> wizard.loanAmount]
              IN  /\ l \in [id : 0 .. MaxIds, amount : Amounts]
                  /\ l.id \in Ids /\ l.amount <= MaxLoan(registered[l.id])
  <2>1. wizard.step = 4 /\ wizard.loanAmount \in Amounts
    BY <1>1, <1>17, WizardFields
  <2>. QED
    BY <1>1, <1>2, <2>1 DEF Established
<1>18. CASE Disbursed
  <2>1. PICK l : l = [id |-> wizard.collateralId, amount |-> wizard.loanAmount]
    OBVIOUS
  <2>2. flight = "request" /\ requested' = requested \cup {l} /\ disbursed' = TRUE
        /\ flight' = "nothing" /\ UNCHANGED <<wizard, registered, reloads>>
    BY <1>18, <2>1 DEF Disbursed
  <2>3. l \in [id : 0 .. MaxIds, amount : Amounts] /\ l.id \in Ids /\ l.amount <= MaxLoan(registered[l.id])
    BY <1>17, <2>1, <2>2
  <2>. QED
    BY <1>1, <2>2, <2>3 DEF WizardInv, LoanWizardTypeOK, LoansCovered
<1>19. CASE Reset
  <2>1. /\ wizard' = Defaults /\ disbursed' = FALSE /\ flight' = "nothing"
        /\ UNCHANGED <<registered, requested, reloads>>
    BY <1>1, <1>19 DEF Reset
  <2>2. Defaults \in WizardState /\ Defaults.step = 1
    BY WizardFields DEF Defaults, WizardState
  <2>3. Established(wizard', registered')
    BY <2>1, <2>2 DEF Established
  <2>. QED
    BY <1>1, <2>1, <2>2, <2>3 DEF WizardInv, LoanWizardTypeOK, LoansCovered
<1>20. CASE ReloadPage
  <2>1. /\ flight' = "nothing" /\ disbursed' = FALSE /\ wizard' = wizard
        /\ reloads' \in 0 .. MaxReloads
    BY <1>1, <1>20 DEF ReloadPage
  <2>2. CASE UNCHANGED <<registered, requested>>
    BY <1>1, <2>1, <2>2 DEF WizardInv, LoanWizardTypeOK, LoansCovered
  <2>3. ASSUME NEW i \in Ids, OnLedger(i), UNCHANGED requested PROVE WizardInv'
    <3>1. /\ registered' \in [Ids -> Values]
          /\ \A j \in Ids : registered[j] > 0 => registered'[j] = registered[j]
          /\ \A l \in requested : l.id \in Ids /\ l.amount <= MaxLoan(registered'[l.id])
      BY <2>3, LedgerKeepsCover
    <3>2. Established(wizard', registered')
      BY <1>1, <1>2, <2>1, <3>1 DEF Established
    <3>. QED
      BY <1>1, <2>1, <2>3, <3>1, <3>2 DEF WizardInv, LoanWizardTypeOK, LoansCovered
  <2>4. CASE /\ flight = "request" /\ UNCHANGED registered
             /\ requested' = requested \cup {[id |-> wizard.collateralId, amount |-> wizard.loanAmount]}
    <3>1. PICK l : l = [id |-> wizard.collateralId, amount |-> wizard.loanAmount]
      OBVIOUS
    <3>2. l \in [id : 0 .. MaxIds, amount : Amounts] /\ l.id \in Ids /\ l.amount <= MaxLoan(registered[l.id])
      BY <1>17, <2>4, <3>1
    <3>. QED
      BY <1>1, <2>1, <2>4, <3>1, <3>2 DEF WizardInv, LoanWizardTypeOK, LoansCovered
  <2>. QED
    BY <1>20, <2>2, <2>3, <2>4 DEF ReloadPage
<1>21. CASE UNCHANGED wizardVars
  BY <1>1, <1>21 DEF wizardVars, WizardInv, LoanWizardTypeOK, LoansCovered
<1>. QED
  BY <1>6, <1>7, <1>8, <1>10, <1>11, <1>14, <1>15, <1>16, <1>18, <1>19, <1>20, <1>21
     DEF LoanWizardNext

\* Whatever is edited, registered anew or reloaded, the ledger is asked for no
\* loan beyond 70 % of the value of the collateral it names.
THEOREM WizardLoansCovered == LoanWizardSpec => []LoansCovered
<1>1. LoanWizardInit => WizardInv
  <2>. SUFFICES ASSUME LoanWizardInit PROVE WizardInv
    OBVIOUS
  <2>1. Defaults \in WizardState /\ Defaults.step = 1
    BY WizardFields DEF Defaults, WizardState
  <2>2. registered \in [Ids -> Values]
    BY WizardFields DEF LoanWizardInit
  <2>3. 0 \in 0 .. MaxReloads
    BY LoanWizardAssumption
  <2>4. /\ wizard = Defaults /\ flight = "nothing" /\ disbursed = FALSE /\ requested = {}
        /\ reloads = 0
    BY DEF LoanWizardInit
  <2>5. Established(wizard, registered)
    BY <2>1, <2>4 DEF Established
  <2>6. LoanWizardTypeOK
    BY <2>1, <2>2, <2>3, <2>4 DEF LoanWizardTypeOK
  <2>. QED
    BY <2>4, <2>5, <2>6 DEF WizardInv, LoansCovered
<1>2. WizardInv => LoansCovered
  BY DEF WizardInv
<1>. QED
  BY <1>1, <1>2, WizardStep, PTL DEF LoanWizardSpec

-----------------------------------------------------------------------------
(* The preferences.                                                        *)

\* What the requests of the switches say of each other and of the backend: one
\* that is alone is the only one, and has the backend's answer; without doubt
\* all are alone, and would be rolled back to what the backend has.
PreferenceInv ==
  /\ settings \in Chosen \cup {Unset} /\ kept \in Chosen
  /\ patch \in [Saves -> Patch \cup {Unset}] /\ doubt \in BOOLEAN
  /\ \A i \in Saves : patch[i] # Unset =>
       /\ settings # Unset
       /\ patch[i].alone => /\ \A j \in Saves : patch[j] # Unset => j = i
                            /\ patch[i].answer # Unset => patch[i].answer = kept
       /\ ~doubt => /\ patch[i].alone
                    /\ patch[i].answer = Unset => patch[i].prev = kept
  /\ ~doubt /\ settings # Unset /\ (\A i \in Saves : patch[i] = Unset) => settings = kept

LEMMA PreferenceStep ==
  PreferenceInv /\ [PreferencesNext]_preferenceVars => PreferenceInv'
<1>. SUFFICES ASSUME PreferenceInv, [PreferencesNext]_preferenceVars PROVE PreferenceInv'
  OBVIOUS
<1>1. /\ Unset \notin Chosen /\ Unset \notin Patch
      /\ settings \in Chosen \cup {Unset} /\ kept \in Chosen
      /\ patch \in [Saves -> Patch \cup {Unset}] /\ doubt \in BOOLEAN
      /\ \A i \in Saves : patch[i] # Unset => patch[i] \in Patch
  BY PreferencesAssumption DEF PreferenceInv
<1>2. \A r \in Patch : /\ r.key \in Switches /\ r.value \in BOOLEAN /\ r.prev \in Chosen
                       /\ r.answer \in Chosen \cup {Unset} /\ r.alone \in BOOLEAN
  BY DEF Patch
<1>3. \A k \in Switches, v \in BOOLEAN, c \in Chosen : [c EXCEPT ![k] = v] \in Chosen
  BY DEF Chosen
<1>4. CASE SettingsLoaded
  BY <1>1, <1>4 DEF SettingsLoaded, PreferenceInv
<1>5. CASE SettingsFail
  <2>1. [k \in Switches |-> TRUE] \in Chosen
    BY DEF Chosen
  <2>. QED
    BY <1>1, <1>5, <2>1 DEF SettingsFail, PreferenceInv
<1>6. ASSUME NEW i \in Saves, NEW k \in Switches, ToggleSwitch(i, k) PROVE PreferenceInv'
  <2>1. PICK others \in BOOLEAN : others = (SwitchInFlight # {})
    OBVIOUS
  <2>2. others <=> \E j \in Saves : patch[j] # Unset
    BY <2>1 DEF SwitchInFlight
  <2>3. PICK r : r = [key |-> k, value |-> ~settings[k], prev |-> settings,
                      answer |-> Unset, alone |-> ~others]
    OBVIOUS
  <2>4. /\ settings \in Chosen /\ patch[i] = Unset /\ kept' = kept
        /\ settings' = [settings EXCEPT ![k] = ~settings[k]]
    BY <1>1, <1>6 DEF ToggleSwitch
  <2>5. /\ r \in Patch /\ r.prev = settings /\ r.answer = Unset
        /\ r.alone = ~others
    <3>1. (~settings[k]) \in BOOLEAN
      OBVIOUS
    <3>. QED
      BY <2>3, <2>4, <3>1 DEF Patch
  <2>6. settings' \in Chosen
    BY <1>3, <2>4
  <2>7. doubt' = (doubt \/ others)
    BY <1>6, <2>1 DEF ToggleSwitch
  <2>8. patch' = [j \in Saves |->
          CASE j = i -> r
            [] j \in SwitchInFlight -> [patch[j] EXCEPT !.alone = FALSE]
            [] OTHER -> Unset]
    <3>1. (SwitchInFlight = {}) = ~others
      BY <2>1
    <3>. QED
      BY <1>6, <2>3, <3>1 DEF ToggleSwitch
  <2>9. patch'[i] = r
    BY <2>4, <2>8 DEF SwitchInFlight
  <2>10. ASSUME NEW j \in Saves, j # i
         PROVE  /\ patch[j] = Unset => patch'[j] = Unset
                /\ patch[j] # Unset => /\ patch'[j] \in Patch /\ ~patch'[j].alone
    <3>1. patch[j] = Unset => patch'[j] = Unset
      BY <2>8, <2>10 DEF SwitchInFlight
    <3>2. ASSUME patch[j] # Unset PROVE patch'[j] \in Patch /\ ~patch'[j].alone
      <4>1. patch'[j] = [patch[j] EXCEPT !.alone = FALSE]
        BY <2>8, <2>10, <3>2 DEF SwitchInFlight
      <4>. QED
        BY <1>1, <3>2, <4>1 DEF Patch
    <3>. QED
      BY <3>1, <3>2
  <2>11. patch' \in [Saves -> Patch \cup {Unset}]
    <3>1. \A j \in Saves : patch'[j] \in Patch \cup {Unset}
      BY <2>5, <2>9, <2>10
    <3>. QED
      BY <2>8, <3>1
  <2>12. CASE others
    BY <1>1, <2>2, <2>4, <2>5, <2>6, <2>7, <2>9, <2>10, <2>11, <2>12 DEF PreferenceInv
  <2>13. CASE ~others
    <3>1. \A j \in Saves : patch[j] = Unset
      BY <2>2, <2>13
    <3>2. \A j \in Saves : patch'[j] # Unset => j = i
      BY <2>10, <3>1
    <3>3. ~doubt => settings = kept
      BY <1>1, <2>4, <3>1 DEF PreferenceInv
    <3>4. doubt' = doubt /\ r.alone
      BY <1>1, <2>5, <2>7, <2>13
    <3>. QED
      BY <1>1, <2>4, <2>5, <2>6, <2>9, <2>11, <3>2, <3>3, <3>4 DEF PreferenceInv
  <2>. QED
    BY <2>12, <2>13
<1>7. ASSUME NEW i \in Saves, PatchApplied(i) PROVE PreferenceInv'
  <2>1. /\ patch[i] \in Patch /\ patch[i].answer = Unset /\ settings' = settings /\ doubt' = doubt
        /\ kept' = [kept EXCEPT ![patch[i].key] = patch[i].value]
        /\ patch' = [patch EXCEPT ![i].answer = kept']
    BY <1>1, <1>7 DEF PatchApplied
  <2>2. kept' \in Chosen
    BY <1>1, <1>2, <1>3, <2>1
  <2>3. PICK r : r = [patch[i] EXCEPT !.answer = kept']
    OBVIOUS
  <2>4. /\ r \in Patch /\ r.answer = kept' /\ r.alone = patch[i].alone
    BY <2>1, <2>2, <2>3 DEF Patch
  <2>5. /\ patch' \in [Saves -> Patch \cup {Unset}]
        /\ \A j \in Saves : patch'[j] = IF j = i THEN r ELSE patch[j]
    <3>1. patch' = [patch EXCEPT ![i] = r]
      BY <2>1, <2>3
    <3>. QED
      BY <1>1, <2>4, <3>1
  <2>6. patch[i] # Unset
    BY <1>7 DEF PatchApplied
  <2>7. /\ settings # Unset
        /\ patch[i].alone => \A j \in Saves : patch[j] # Unset => j = i
        /\ ~doubt => patch[i].alone
    BY <2>6 DEF PreferenceInv
  <2>8. \A j \in Saves : patch[j] # Unset /\ (patch[j].alone \/ ~doubt) => j = i
    BY <2>6 DEF PreferenceInv
  <2>9. ASSUME NEW j \in Saves, patch'[j] # Unset
        PROVE  /\ settings' # Unset
               /\ patch'[j].alone => /\ \A m \in Saves : patch'[m] # Unset => m = j
                                     /\ patch'[j].answer # Unset => patch'[j].answer = kept'
               /\ ~doubt' => /\ patch'[j].alone
                             /\ patch'[j].answer = Unset => patch'[j].prev = kept'
    <3>1. CASE j = i
      BY <1>1, <2>1, <2>2, <2>4, <2>5, <2>7, <3>1
    <3>2. CASE j # i
      <4>1. patch'[j] = patch[j] /\ ~patch[j].alone /\ doubt
        BY <2>5, <2>8, <2>9, <3>2
      <4>. QED
        BY <2>1, <2>7, <4>1
    <3>. QED
      BY <3>1, <3>2
  <2>10. patch'[i] # Unset
    BY <1>1, <2>4, <2>5
  <2>. QED
    BY <1>1, <2>1, <2>2, <2>5, <2>9, <2>10 DEF PreferenceInv
\* An answer and a failure end the request, and with it all of them when it was
\* alone or there was no doubt.
<1>8. ASSUME NEW i \in Saves, patch[i] # Unset, patch' = [patch EXCEPT ![i] = Unset],
             settings' \in Chosen, kept' = kept, doubt' \in BOOLEAN,
             patch[i].alone => (~doubt' => settings' = kept),
             ~patch[i].alone => doubt'
      PROVE  PreferenceInv'
  <2>1. /\ patch' \in [Saves -> Patch \cup {Unset}]
        /\ \A j \in Saves : patch'[j] = IF j = i THEN Unset ELSE patch[j]
    BY <1>1, <1>8
  <2>2. \A j \in Saves : patch[j] # Unset /\ patch[j].alone => j = i
    BY <1>8 DEF PreferenceInv
  <2>3. CASE patch[i].alone
    <3>1. \A j \in Saves : patch'[j] = Unset
      BY <1>8, <2>1, <2>3 DEF PreferenceInv
    <3>. QED
      BY <1>1, <1>8, <2>1, <2>3, <3>1 DEF PreferenceInv
  <2>4. CASE ~patch[i].alone
    <3>1. \A j \in Saves : patch'[j] # Unset => patch'[j] = patch[j] /\ ~patch[j].alone
      BY <2>1, <2>2
    <3>2. settings' # Unset /\ doubt'
      BY <1>1, <1>8, <2>4
    <3>. QED
      BY <1>1, <1>8, <2>1, <3>1, <3>2 DEF PreferenceInv
  <2>. QED
    BY <2>3, <2>4
<1>9. ASSUME NEW i \in Saves, PatchAnswered(i) PROVE PreferenceInv'
  <2>1. /\ patch[i] # Unset /\ patch[i].answer # Unset /\ settings' = patch[i].answer
        /\ patch' = [patch EXCEPT ![i] = Unset] /\ kept' = kept
        /\ doubt' = (doubt /\ ~patch[i].alone)
    BY <1>9 DEF PatchAnswered
  <2>2. patch[i] \in Patch /\ patch[i].alone \in BOOLEAN /\ patch[i].answer \in Chosen
    BY <1>1, <1>2, <2>1
  <2>3. doubt' \in BOOLEAN
    BY <1>1, <2>1, <2>2
  <2>4. patch[i].alone => settings' = kept
    BY <2>1 DEF PreferenceInv
  <2>5. ~patch[i].alone => doubt'
    <3>1. ~patch[i].alone => doubt
      BY <1>1, <2>1 DEF PreferenceInv
    <3>. QED
      BY <2>1, <2>2, <3>1
  <2>. QED
    BY <1>8, <2>1, <2>2, <2>3, <2>4, <2>5
<1>10. ASSUME NEW i \in Saves, PatchFails(i) PROVE PreferenceInv'
  <2>1. /\ patch[i] # Unset /\ settings' = patch[i].prev
        /\ patch' = [patch EXCEPT ![i] = Unset] /\ kept' = kept
        /\ doubt' = (doubt \/ patch[i].answer # Unset)
    BY <1>10 DEF PatchFails, RolledBack
  <2>2. patch[i].prev \in Chosen
    BY <1>1, <1>2, <2>1
  <2>3. doubt' \in BOOLEAN
    BY <1>1, <2>1
  <2>4. ~doubt' => patch[i].alone /\ patch[i].prev = kept
    <3>1. ~doubt' => ~doubt /\ patch[i].answer = Unset
      BY <2>1
    <3>. QED
      BY <2>1, <3>1 DEF PreferenceInv
  <2>. QED
    BY <1>8, <2>1, <2>2, <2>3, <2>4
<1>11. ASSUME UNCHANGED <<settings, kept, patch, doubt>> PROVE PreferenceInv'
  BY <1>11 DEF PreferenceInv
<1>12. CASE UNCHANGED preferenceVars
  BY <1>11, <1>12 DEF preferenceVars
<1>. QED
  BY <1>4, <1>5, <1>6, <1>7, <1>9, <1>10, <1>11, <1>12 DEF PreferencesNext

\* With no request under way the switches show what the backend has, but for
\* the overlaps and the lost answers that SwitchesShowSaved names.
THEOREM SwitchesAreSaved == PreferencesSpec => []SwitchesShowSaved
<1>1. PreferencesInit => PreferenceInv
  <2>. SUFFICES ASSUME PreferencesInit PROVE PreferenceInv
    OBVIOUS
  <2>1. kept \in Chosen
    BY DEF PreferencesInit, Chosen
  <2>. QED
    BY <2>1 DEF PreferencesInit, PreferenceInv
<1>2. PreferenceInv => SwitchesShowSaved
  BY DEF PreferenceInv, SwitchesShowSaved, SwitchInFlight
<1>. QED
  BY <1>1, <1>2, PreferenceStep, PTL DEF PreferencesSpec

-----------------------------------------------------------------------------
(* The converted amounts.                                                  *)

RateShape == [taken : Nat, fetchedAt : Nat]

LabelShape ==
  [rate : RateShape \cup {NoRate}, sent : Nat \cup {NoRate}, taken : Nat \cup {NoRate},
   rendered : Nat, told : BOOLEAN, choice : Choice]

\* Rates are dated no later than they were taken.
DatedInTime(r) == r # NoRate => r.fetchedAt <= r.taken

\* A request was made before it was answered, and before now.
Timely(b, now) ==
  /\ DatedInTime(b.rate)
  /\ b.taken # NoRate => b.sent # NoRate /\ b.sent <= b.taken
  /\ b.sent # NoRate => b.sent <= now

\* The warning is missing only when the rate was fresh at the rendering.
Honest(b) == b.rate # NoRate /\ ~b.told => b.rendered - b.rate.fetchedAt <= StaleTtl

RateInv ==
  /\ minute \in Nat /\ currencyKept \in Choice
  /\ ratesCache \in RateShape \cup {NoRate} /\ DatedInTime(ratesCache)
  /\ \A l \in Labels :
       label[l] # NoRate => /\ label[l] \in LabelShape
                            /\ Timely(label[l], minute) /\ Honest(label[l])
  /\ label \in [Labels -> LabelShape \cup {NoRate}]

LEMMA RateStep ==
  RateInv /\ [RatesNext]_rateVars => RateInv'
<1>. SUFFICES ASSUME RateInv, [RatesNext]_rateVars PROVE RateInv'
  OBVIOUS
<1>1. /\ minute \in Nat /\ currencyKept \in Choice /\ StaleTtl \in Nat /\ NoRate \notin Nat
      /\ ratesCache \in RateShape \cup {NoRate} /\ DatedInTime(ratesCache)
      /\ label \in [Labels -> LabelShape \cup {NoRate}]
      /\ \A l \in Labels :
           label[l] # NoRate => /\ label[l] \in LabelShape
                                /\ Timely(label[l], minute) /\ Honest(label[l])
  BY RatesAssumption DEF RateInv
<1>2. \A b \in LabelShape :
        /\ b.rate \in RateShape \cup {NoRate} /\ b.sent \in Nat \cup {NoRate}
        /\ b.taken \in Nat \cup {NoRate} /\ b.rendered \in Nat /\ b.told \in BOOLEAN
        /\ b.choice \in Choice
  BY DEF LabelShape
<1>3. \A r \in RateShape : r.taken \in Nat /\ r.fetchedAt \in Nat
  BY DEF RateShape
\* One amount changes, and the rest is as it was.
<1>4. ASSUME NEW l \in Labels, NEW b, RateShows(l, b), b \in LabelShape \cup {NoRate},
             b # NoRate => b \in LabelShape /\ Timely(b, minute) /\ Honest(b),
             minute' = minute, currencyKept' = currencyKept,
             ratesCache' \in RateShape \cup {NoRate}, DatedInTime(ratesCache')
      PROVE  RateInv'
  <2>1. /\ label' \in [Labels -> LabelShape \cup {NoRate}]
        /\ \A m \in Labels : label'[m] = IF m = l THEN b ELSE label[m]
    BY <1>1, <1>4 DEF RateShows
  <2>2. ASSUME NEW m \in Labels, label'[m] # NoRate
        PROVE  /\ label'[m] \in LabelShape
               /\ Timely(label'[m], minute') /\ Honest(label'[m])
    <3>1. CASE m = l
      BY <1>4, <2>1, <2>2, <3>1
    <3>2. CASE m # l
      BY <1>1, <1>4, <2>1, <2>2, <3>2
    <3>. QED
      BY <3>1, <3>2
  <2>. QED
    BY <1>1, <1>4, <2>1, <2>2 DEF RateInv, DatedInTime, Timely, Honest
\* Its flag is reckoned when it is rendered.
<1>5. ASSUME NEW l \in Labels, NEW b \in LabelShape, Rendered(l, b), Timely(b, minute),
             minute' = minute, currencyKept' = currencyKept,
             ratesCache' \in RateShape \cup {NoRate}, DatedInTime(ratesCache')
      PROVE  RateInv'
  <2>1. PICK t \in BOOLEAN : t = IsStale(b.rate)
    BY DEF IsStale
  <2>2. PICK c : c = [b EXCEPT !.rendered = minute, !.told = t]
    OBVIOUS
  <2>3. /\ c \in LabelShape /\ c.rate = b.rate /\ c.sent = b.sent /\ c.taken = b.taken
        /\ c.rendered = minute /\ c.told = t
    BY <1>1, <2>2 DEF LabelShape
  <2>4. RateShows(l, c)
    BY <1>5, <2>1, <2>2 DEF Rendered
  <2>5. Timely(c, minute)
    BY <1>5, <2>3 DEF Timely
  <2>6. Honest(c)
    <3>. SUFFICES ASSUME c.rate # NoRate, ~c.told PROVE c.rendered - c.rate.fetchedAt <= StaleTtl
      BY DEF Honest
    <3>1. ~(minute - b.rate.fetchedAt > StaleTtl) /\ b.rate \in RateShape
      BY <1>2, <2>1, <2>3 DEF IsStale
    <3>. QED
      BY <1>1, <1>3, <2>3, <3>1
  <2>. QED
    BY <1>4, <1>5, <2>3, <2>4, <2>5, <2>6
<1>6. CASE RatesClock
  <2>1. /\ minute' = minute + 1 /\ ratesCache' = ratesCache /\ label' = label
        /\ currencyKept' = currencyKept
    BY <1>6 DEF RatesClock
  <2>2. \A b \in LabelShape : Timely(b, minute) => Timely(b, minute')
    BY <1>1, <1>2, <2>1 DEF Timely
  <2>. QED
    BY <1>1, <2>1, <2>2 DEF RateInv, DatedInTime, Honest
<1>7. ASSUME NEW l \in Labels, MountAmount(l) PROVE RateInv'
  <2>1. PICK s \in {NoRate, minute} : s = IF CacheServes THEN NoRate ELSE minute
    OBVIOUS
  <2>2. PICK b : b = [rate |-> ratesCache, sent |-> s, taken |-> NoRate, rendered |-> minute,
                      told |-> FALSE, choice |-> currencyKept]
    OBVIOUS
  <2>3. /\ b \in LabelShape /\ b.rate = ratesCache /\ b.sent = s /\ b.taken = NoRate
    BY <1>1, <2>1, <2>2 DEF LabelShape
  <2>4. Rendered(l, b) /\ minute' = minute /\ ratesCache' = ratesCache /\ currencyKept' = currencyKept
    BY <1>7, <2>1, <2>2 DEF MountAmount
  <2>5. Timely(b, minute)
    BY <1>1, <2>1, <2>3 DEF Timely
  <2>. QED
    BY <1>1, <1>5, <2>3, <2>4, <2>5
<1>8. ASSUME NEW l \in Labels, RatesTaken(l) PROVE RateInv'
  <2>1. PICK b : b = [label[l] EXCEPT !.taken = minute]
    OBVIOUS
  <2>2. /\ label[l] # NoRate /\ label[l].sent # NoRate /\ RateShows(l, b)
        /\ minute' = minute /\ ratesCache' = ratesCache /\ currencyKept' = currencyKept
    BY <1>8, <2>1 DEF RatesTaken
  <2>3. /\ b \in LabelShape /\ b.rate = label[l].rate /\ b.sent = label[l].sent
        /\ b.taken = minute /\ b.rendered = label[l].rendered /\ b.told = label[l].told
    BY <1>1, <2>1, <2>2 DEF LabelShape
  <2>4. Timely(b, minute) /\ Honest(b)
    BY <1>1, <2>2, <2>3 DEF Timely, Honest
  <2>. QED
    BY <1>1, <1>4, <2>2, <2>3, <2>4
<1>9. ASSUME NEW l \in Labels, RatesArrive(l) PROVE RateInv'
  <2>1. PICK r : r = [taken |-> label[l].taken, fetchedAt |-> label[l].sent]
    OBVIOUS
  <2>2. PICK b : b = [label[l] EXCEPT !.rate = r, !.sent = NoRate, !.taken = NoRate]
    OBVIOUS
  <2>3. /\ label[l] # NoRate /\ label[l].taken # NoRate /\ ratesCache' = r
        /\ Rendered(l, b) /\ minute' = minute /\ currencyKept' = currencyKept
    BY <1>9, <2>1, <2>2 DEF RatesArrive, Dated
  <2>4. /\ label[l].sent \in Nat /\ label[l].taken \in Nat
        /\ label[l].sent <= label[l].taken
    BY <1>1, <1>2, <2>3 DEF Timely
  <2>5. r \in RateShape /\ DatedInTime(r)
    BY <2>1, <2>4 DEF RateShape, DatedInTime
  <2>6. b \in LabelShape /\ b.rate = r /\ b.sent = NoRate /\ b.taken = NoRate
    BY <1>1, <2>2, <2>3, <2>5 DEF LabelShape
  <2>7. Timely(b, minute)
    BY <2>5, <2>6 DEF Timely
  <2>. QED
    BY <1>5, <2>3, <2>5, <2>6, <2>7
<1>10. ASSUME NEW l \in Labels, RatesFail(l) PROVE RateInv'
  <2>1. PICK b : b = [label[l] EXCEPT !.sent = NoRate, !.taken = NoRate]
    OBVIOUS
  <2>2. /\ label[l] # NoRate /\ Rendered(l, b)
        /\ minute' = minute /\ ratesCache' = ratesCache /\ currencyKept' = currencyKept
    BY <1>10, <2>1 DEF RatesFail
  <2>3. b \in LabelShape /\ b.rate = label[l].rate /\ b.sent = NoRate /\ b.taken = NoRate
    BY <1>1, <2>1, <2>2 DEF LabelShape
  <2>4. Timely(b, minute)
    BY <1>1, <2>2, <2>3 DEF Timely
  <2>. QED
    BY <1>1, <1>5, <2>2, <2>3, <2>4
<1>11. ASSUME NEW l \in Labels, Render(l) PROVE RateInv'
  <2>1. PICK b : b = label[l]
    OBVIOUS
  <2>2. /\ b # NoRate /\ Rendered(l, b)
        /\ minute' = minute /\ ratesCache' = ratesCache /\ currencyKept' = currencyKept
    BY <1>11, <2>1 DEF Render
  <2>3. b \in LabelShape /\ Timely(b, minute)
    BY <1>1, <2>1, <2>2
  <2>. QED
    BY <1>1, <1>5, <2>2, <2>3
<1>12. ASSUME NEW l \in Labels, Unmounted(l) PROVE RateInv'
  BY <1>1, <1>4, <1>12 DEF Unmounted
<1>13. ASSUME NEW c \in Choice, ChooseCurrency(c) PROVE RateInv'
  BY <1>1, <1>13 DEF ChooseCurrency, RateInv
<1>14. CASE UNCHANGED rateVars
  BY <1>14 DEF rateVars, RateInv
<1>. QED
  BY <1>6, <1>7, <1>8, <1>9, <1>10, <1>11, <1>12, <1>13, <1>14 DEF RatesNext

\* An amount without the warning was converted at a rate that was fresh when it
\* was rendered, however long and however overlapping the requests were.
THEOREM FreshRates == RatesSpec => []FreshAsTold
<1>1. RatesInit => RateInv
  <2>. SUFFICES ASSUME RatesInit PROVE RateInv
    OBVIOUS
  <2>1. currencyKept \in Choice
    BY RatesAssumption DEF RatesInit, Choice
  <2>. QED
    BY <2>1 DEF RatesInit, RateInv, DatedInTime
<1>2. RateInv => FreshAsTold
  <2>. SUFFICES ASSUME RateInv, NEW l \in Labels, label[l] # NoRate, label[l].rate # NoRate,
                       ~label[l].told
                PROVE  label[l].rendered - label[l].rate.taken <= StaleTtl
    BY DEF FreshAsTold
  <2>1. /\ label[l].rate \in RateShape /\ label[l].rendered \in Nat /\ StaleTtl \in Nat
        /\ DatedInTime(label[l].rate)
        /\ label[l].rendered - label[l].rate.fetchedAt <= StaleTtl
    BY RatesAssumption DEF RateInv, LabelShape, Timely, Honest
  <2>2. label[l].rate.taken \in Nat /\ label[l].rate.fetchedAt \in Nat
    BY <2>1 DEF RateShape
  <2>. QED
    BY <2>1, <2>2 DEF DatedInTime
<1>. QED
  BY <1>1, <1>2, RateStep, PTL DEF RatesSpec

-----------------------------------------------------------------------------
(* The animated counters.                                                  *)

\* An animation runs towards the value, and no animation is needed from it.
CounterInv ==
  /\ {amount, settledAt} \subseteq CounterAmounts /\ displayed \in Int
  /\ frame \in Animation \cup {NoFrame} /\ {reduced, cameBack} \subseteq BOOLEAN
  /\ frame = NoFrame => settledAt = amount /\ (displayed = amount \/ cameBack)
  /\ frame # NoFrame => frame.to = amount
  /\ reduced => frame = NoFrame

LEMMA WholeWay ==
  ASSUME NEW x \in Int, NEW n \in Nat \ {0}
  PROVE  (x * n) \div n = x
<1>1. PICK y : y = x * n
  OBVIOUS
<1>2. y \in Int /\ n \in Int /\ n > 0
  BY <1>1
<1>3. PICK q : q = y \div n
  OBVIOUS
<1>4. q \in Int /\ q * n <= y /\ y < (q + 1) * n
  BY <1>2, <1>3
<1>5. CASE q < x
  <2>1. (q + 1) * n <= x * n
    BY <1>2, <1>4, <1>5
  <2>. QED
    BY <1>1, <1>2, <1>4, <2>1
<1>6. CASE q > x
  <2>1. x * n < q * n
    BY <1>2, <1>4, <1>6
  <2>. QED
    BY <1>1, <1>2, <1>4, <2>1
<1>. QED
  BY <1>1, <1>3, <1>4, <1>5, <1>6

\* The last frame of an animation shows the value it leads to.
LEMMA LastFrame ==
  ASSUME NEW a \in Animation
  PROVE  /\ Shown(a) \in Int
         /\ a.progress = Frames => Shown(a) = a.to
<1>1. /\ a.from \in Int /\ a.to \in Int /\ a.progress \in Int
      /\ Frames \in Nat \ {0}
  <2>1. (\A x \in CounterAmounts : x \in Int) /\ Frames \in Nat \ {0}
    BY CountersAssumption
  <2>2. a.from \in CounterAmounts /\ a.to \in CounterAmounts
    BY DEF Animation
  <2>3. a.progress \in Int
    BY <2>1 DEF Animation
  <2>. QED
    BY <2>1, <2>2, <2>3
<1>2. PICK d \in Int : d = a.to - a.from
  BY <1>1
<1>3. (d * Frames) \div Frames = d
  BY <1>1, WholeWay
<1>4. PICK y \in Int : y = d * a.progress
  BY <1>1
<1>5. y \div Frames \in Int
  BY <1>1
<1>. QED
  BY <1>1, <1>2, <1>3, <1>4, <1>5 DEF Shown

LEMMA CounterStep ==
  CounterInv /\ [CountersNext]_counterVars => CounterInv'
<1>. SUFFICES ASSUME CounterInv, [CountersNext]_counterVars PROVE CounterInv'
  OBVIOUS
<1>1. /\ CounterAmounts \subseteq Nat /\ Frames \in Nat \ {0} /\ NoFrame \notin Animation
      /\ \A x, y \in CounterAmounts : x # y => Animated(x, y) \in Animation /\ Animated(x, y).to = y
  BY CountersAssumption DEF Animated, Animation
<1>2. ASSUME NEW v \in CounterAmounts, Rerender(v) PROVE CounterInv'
  <2>1. CASE reduced
    BY <1>1, <1>2, <2>1 DEF Rerender, CounterInv
  <2>2. CASE ~reduced
    <3>1. /\ v # amount /\ amount' = v /\ frame' = Animated(settledAt, v)
          /\ displayed' = displayed /\ settledAt' = settledAt /\ reduced' = reduced
      BY <1>2, <2>2 DEF Rerender
    <3>2. cameBack' = (settledAt = v /\ frame # NoFrame)
      BY <1>2, <2>2 DEF Rerender
    <3>3. cameBack' \in BOOLEAN
      BY <3>2
    <3>4. CASE settledAt = v
      <4>1. frame # NoFrame
        BY <3>1, <3>4 DEF CounterInv
      <4>2. cameBack' /\ frame' = NoFrame
        BY <3>1, <3>2, <3>4, <4>1 DEF Animated
      <4>. QED
        BY <2>2, <3>1, <3>3, <3>4, <4>2 DEF CounterInv
    <3>5. CASE settledAt # v
      <4>1. frame' \in Animation /\ frame'.to = v
        BY <1>1, <3>1, <3>5 DEF CounterInv
      <4>. QED
        BY <1>1, <2>2, <3>1, <3>3, <4>1 DEF CounterInv
    <3>. QED
      BY <3>4, <3>5
  <2>. QED
    BY <2>1, <2>2
<1>3. CASE TickFrame
  <2>1. /\ frame \in Animation /\ frame # NoFrame /\ frame.to = amount /\ ~reduced
        /\ displayed' = Shown(frame) /\ settledAt' = Settled(frame)
        /\ amount' = amount /\ reduced' = reduced /\ cameBack' = cameBack
    BY <1>3 DEF TickFrame, CounterInv
  <2>2. CASE frame.progress = Frames
    <3>1. frame' = NoFrame /\ displayed' = amount /\ settledAt' = amount
      BY <1>3, <2>1, <2>2, LastFrame DEF TickFrame, Settled
    <3>2. amount \in CounterAmounts /\ amount \in Int
      <4>1. amount \in CounterAmounts
        BY DEF CounterInv
      <4>2. \A x \in CounterAmounts : x \in Int
        BY CountersAssumption
      <4>. QED
        BY <4>1, <4>2
    <3>. QED
      BY <2>1, <3>1, <3>2 DEF CounterInv
  <2>3. CASE frame.progress # Frames
    <3>1. frame' = [frame EXCEPT !.progress = frame.progress + 1] /\ settledAt' = settledAt
      BY <1>3, <2>1, <2>3 DEF TickFrame, Settled
    <3>2. frame.progress + 1 \in 0 .. Frames
      BY <1>1, <2>1, <2>3 DEF Animation
    <3>3. frame' \in Animation /\ frame'.to = amount
      BY <2>1, <3>1, <3>2 DEF Animation
    <3>4. displayed' \in Int
      BY <2>1, LastFrame
    <3>. QED
      BY <1>1, <2>1, <3>1, <3>3, <3>4 DEF CounterInv
  <2>. QED
    BY <2>2, <2>3
<1>4. CASE UNCHANGED counterVars
  BY <1>4 DEF counterVars, CounterInv
<1>. QED
  BY <1>2, <1>3, <1>4 DEF CountersNext

\* A counter at rest shows its value, but after the return to a settled value
\* that CounterSettles names.
THEOREM CountersSettle == CountersSpec => []CounterSettles
<1>1. CountersInit => CounterInv
  <2>. SUFFICES ASSUME CountersInit PROVE CounterInv
    OBVIOUS
  <2>1. /\ amount \in CounterAmounts /\ settledAt \in CounterAmounts /\ displayed = settledAt
        /\ frame = Animated(settledAt, amount) /\ reduced \in BOOLEAN /\ cameBack = FALSE
        /\ reduced => settledAt = amount
    BY CountersAssumption DEF CountersInit
  <2>4. displayed \in Int
    BY <2>1, CountersAssumption
  <2>2. CASE settledAt = amount
    <3>1. frame = NoFrame
      BY <2>1, <2>2 DEF Animated
    <3>. QED
      BY <2>1, <2>2, <2>4, <3>1 DEF CounterInv
  <2>3. CASE settledAt # amount
    <3>1. frame \in Animation /\ frame.to = amount
      BY <2>1, <2>3, CountersAssumption DEF Animated, Animation
    <3>2. ~reduced /\ frame # NoFrame
      BY <2>1, <2>3, <3>1, CountersAssumption
    <3>. QED
      BY <2>1, <2>4, <3>1, <3>2 DEF CounterInv
  <2>. QED
    BY <2>2, <2>3
<1>2. CounterInv => CounterSettles
  BY DEF CounterInv, CounterSettles
<1>. QED
  BY <1>1, <1>2, CounterStep, PTL DEF CountersSpec

-----------------------------------------------------------------------------
(* The screens.                                                            *)

Waiting(f) == fetching[f] # NoData

\* Whenever the selection and the timer leave it alone, a screen without polls
\* either waits for an answer about what is selected, asked for after all the
\* others, or shows it, and whatever is still to come has been overtaken.
LastAskedFor(f) ==
  /\ Waiting(f) /\ fetching[f].subject = selected
  /\ fetching[f].later = {} /\ ~fetching[f].late
  /\ \A g \in Fetches : Waiting(g) /\ g # f => f \in fetching[g].later

ShownOrTold ==
  /\ \A g \in Fetches : Waiting(g) => fetching[g].late
  /\ shown \in {selected, NoData} \/ (screen = "profile" /\ failed)

ScreenInv ==
  /\ ScreensTypeOK
  /\ armed => selected # NoData
  /\ screen # "polled" /\ ~overtaken /\ ~armed /\ selected # NoData
       => (\E f \in Fetches : LastAskedFor(f)) \/ ShownOrTold

LEMMA ScreenStep ==
  ScreenInv /\ [ScreensNext]_screenVars => ScreenInv'
<1>. SUFFICES ASSUME ScreenInv, [ScreensNext]_screenVars PROVE ScreenInv'
  OBVIOUS
<1>1. /\ NoData \notin Subjects /\ NoData \notin Fetch
      /\ screen \in ScreenKinds /\ selected \in Subjects \cup {NoData}
      /\ shown \in Subjects \cup {NoData} /\ armed \in BOOLEAN
      /\ fetching \in [Fetches -> Fetch \cup {NoData}]
      /\ failed \in BOOLEAN /\ overtaken \in BOOLEAN
      /\ armed => selected # NoData
  BY ScreensAssumption DEF ScreenInv, ScreensTypeOK
<1>2. \A f \in Fetches : Waiting(f) =>
        /\ fetching[f] \in Fetch /\ fetching[f].subject \in Subjects
        /\ fetching[f].later \in SUBSET Fetches /\ fetching[f].late \in BOOLEAN
  BY <1>1 DEF Waiting, Fetch
\* A request for what is selected comes after all the others.
<1>3. ASSUME NEW f \in Fetches, NEW s \in Subjects, Ask(f, s), selected' = s,
             armed' = FALSE, UNCHANGED <<screen, shown, overtaken>>
      PROVE  ScreenInv'
  <2>1. PICK r : r = [subject |-> s, later |-> {}, late |-> FALSE]
    OBVIOUS
  <2>2. r \in Fetch /\ r.subject = s /\ r.later = {} /\ ~r.late
    BY <2>1 DEF Fetch
  <2>3. ASSUME NEW g \in Fetches
        PROVE  /\ g = f => fetching'[g] = r
               /\ g # f /\ ~Waiting(g) => fetching'[g] = NoData
               /\ g # f /\ Waiting(g) =>
                    fetching'[g] = [fetching[g] EXCEPT !.later = fetching[g].later \cup {f}]
    BY <1>3, <2>1 DEF Ask, Waiting
  <2>4. ASSUME NEW g \in Fetches, g # f, Waiting(g)
        PROVE  fetching'[g] \in Fetch /\ f \in fetching'[g].later
    <3>1. PICK b \in SUBSET Fetches : b = fetching[g].later \cup {f}
      BY <1>2, <2>4
    <3>2. fetching'[g] = [fetching[g] EXCEPT !.later = b]
      BY <2>3, <2>4, <3>1
    <3>. QED
      BY <1>2, <2>4, <3>1, <3>2 DEF Fetch
  <2>5. \A g \in Fetches : fetching'[g] \in Fetch \cup {NoData}
    BY <2>2, <2>3, <2>4
  <2>6. fetching' \in [Fetches -> Fetch \cup {NoData}]
    <3>1. fetching' = [g \in Fetches |-> fetching'[g]]
      BY <1>3 DEF Ask
    <3>. QED
      BY <2>5, <3>1
  <2>7. LastAskedFor(f)'
    <3>1. fetching'[f] = r /\ r # NoData
      BY <1>1, <2>2, <2>3
    <3>2. \A g \in Fetches : fetching'[g] # NoData /\ g # f => f \in fetching'[g].later
      BY <2>3, <2>4
    <3>. QED
      BY <1>3, <2>2, <3>1, <3>2 DEF LastAskedFor, Waiting
  <2>8. failed' = FALSE
    BY <1>3 DEF Ask
  <2>. QED
    BY <1>1, <1>3, <2>6, <2>7, <2>8 DEF ScreenInv, ScreensTypeOK
\* A request that polls.
<1>4. CASE Poll30
  <2>1. PICK f \in Fetches : Ask(f, selected)
    BY <1>4 DEF Poll30, Wanted
  <2>2. screen = "polled" /\ selected \in Subjects /\ UNCHANGED <<screen, selected, shown, armed, overtaken>>
    BY <1>1, <1>4 DEF Poll30
  <2>3. ASSUME NEW g \in Fetches PROVE fetching'[g] \in Fetch \cup {NoData}
    <3>1. CASE g = f
      <4>1. fetching'[g] = [subject |-> selected, later |-> {}, late |-> FALSE]
        BY <2>1, <3>1 DEF Ask
      <4>. QED
        BY <2>2, <4>1 DEF Fetch
    <3>2. CASE g # f /\ ~Waiting(g)
      BY <2>1, <3>2 DEF Ask, Waiting
    <3>3. CASE g # f /\ Waiting(g)
      <4>1. PICK b \in SUBSET Fetches : b = fetching[g].later \cup {f}
        BY <1>2, <3>3
      <4>2. fetching'[g] = [fetching[g] EXCEPT !.later = b]
        BY <2>1, <3>3, <4>1 DEF Ask, Waiting
      <4>. QED
        BY <1>2, <3>3, <4>1, <4>2 DEF Fetch
    <3>. QED
      BY <3>1, <3>2, <3>3
  <2>4. fetching' \in [Fetches -> Fetch \cup {NoData}]
    <3>1. fetching' = [g \in Fetches |-> fetching'[g]]
      BY <2>1 DEF Ask
    <3>. QED
      BY <2>3, <3>1
  <2>5. failed' = FALSE
    BY <2>1 DEF Ask
  <2>. QED
    BY <1>1, <2>2, <2>4, <2>5 DEF ScreenInv, ScreensTypeOK
<1>5. ASSUME NEW s \in Subjects, Select(s) PROVE ScreenInv'
  <2>1. CASE screen = "debounced"
    BY <1>1, <1>5, <2>1 DEF Select, ScreenInv, ScreensTypeOK
  <2>2. CASE screen # "debounced"
    <3>1. PICK f \in Fetches : Ask(f, s)
      BY <1>5, <2>2 DEF Select
    <3>. QED
      BY <1>3, <1>5, <2>2, <3>1 DEF Select
  <2>. QED
    BY <2>1, <2>2
<1>6. CASE Deselect
  BY <1>1, <1>6 DEF Deselect, ScreenInv, ScreensTypeOK
<1>7. CASE DebounceFires
  <2>1. PICK f \in Fetches : Ask(f, selected)
    BY <1>7 DEF DebounceFires, Wanted
  <2>2. PICK s \in Subjects : s = selected
    BY <1>1, <1>7 DEF DebounceFires
  <2>. QED
    BY <1>3, <1>7, <2>1, <2>2 DEF DebounceFires
<1>8. CASE RetryFetch
  <2>1. PICK f \in Fetches : Ask(f, selected)
    BY <1>8 DEF RetryFetch, Wanted
  <2>2. PICK s \in Subjects : s = selected
    BY <1>1, <1>8 DEF RetryFetch
  <2>3. CASE armed = FALSE
    BY <1>3, <1>8, <2>1, <2>2, <2>3 DEF RetryFetch
  <2>4. CASE armed = TRUE
    <3>1. fetching' \in [Fetches -> Fetch \cup {NoData}]
      <4>1. ASSUME NEW g \in Fetches PROVE fetching'[g] \in Fetch \cup {NoData}
        <5>1. CASE g = f
          <6>1. fetching'[g] = [subject |-> s, later |-> {}, late |-> FALSE]
            BY <2>1, <2>2, <5>1 DEF Ask
          <6>. QED
            BY <6>1 DEF Fetch
        <5>2. CASE g # f
          BY <1>8, <2>1, <5>2 DEF Ask, RetryFetch
        <5>. QED
          BY <5>1, <5>2
      <4>2. fetching' = [g \in Fetches |-> fetching'[g]]
        BY <2>1 DEF Ask
      <4>. QED
        BY <4>1, <4>2
    <3>2. failed' = FALSE
      BY <2>1 DEF Ask
    <3>. QED
      BY <1>1, <1>8, <2>4, <3>1, <3>2 DEF RetryFetch, ScreenInv, ScreensTypeOK
  <2>. QED
    BY <1>1, <2>3, <2>4
\* An answer or a failure: of the request asked for last, all others are late.
<1>9. ASSUME NEW f \in Fetches, Ends(f), shown' \in Subjects \cup {NoData}, failed' \in BOOLEAN,
             fetching[f].subject = selected =>
               shown' \in {selected, NoData} \/ screen = "polled" \/ (screen = "profile" /\ failed')
      PROVE  ScreenInv'
  <2>1. /\ Waiting(f) /\ UNCHANGED <<screen, selected, armed>>
        /\ overtaken' = (overtaken \/ fetching[f].late)
    BY <1>9 DEF Ends, Waiting
  <2>2. ASSUME NEW g \in Fetches
        PROVE  /\ g = f \/ ~Waiting(g) => fetching'[g] = NoData
               /\ g # f /\ Waiting(g) =>
                    fetching'[g] = [fetching[g] EXCEPT
                      !.later = fetching[g].later \ {f},
                      !.late = fetching[g].late \/ f \in fetching[g].later]
    BY <1>9 DEF Ends, Waiting
  <2>3. ASSUME NEW g \in Fetches, g # f, Waiting(g)
        PROVE  /\ fetching'[g] \in Fetch /\ fetching'[g].subject = fetching[g].subject
               /\ fetching'[g].later = fetching[g].later \ {f}
               /\ fetching'[g].late <=> fetching[g].late \/ f \in fetching[g].later
    <3>1. PICK b \in SUBSET Fetches : b = fetching[g].later \ {f}
      BY <1>2, <2>3
    <3>2. PICK t \in BOOLEAN : t = (fetching[g].late \/ f \in fetching[g].later)
      OBVIOUS
    <3>3. fetching'[g] = [fetching[g] EXCEPT !.later = b, !.late = t]
      BY <2>2, <2>3, <3>1, <3>2
    <3>4. /\ fetching'[g] \in Fetch /\ fetching'[g].subject = fetching[g].subject
          /\ fetching'[g].later = b /\ fetching'[g].late = t
      BY <1>2, <2>3, <3>1, <3>2, <3>3 DEF Fetch
    <3>. QED
      BY <3>1, <3>2, <3>4
  <2>4. \A g \in Fetches : fetching'[g] \in Fetch \cup {NoData}
    BY <2>2, <2>3
  <2>5. fetching' \in [Fetches -> Fetch \cup {NoData}]
    <3>1. fetching' = [g \in Fetches |-> fetching'[g]]
      BY <1>9 DEF Ends
    <3>. QED
      BY <2>4, <3>1
  <2>6. overtaken' \in BOOLEAN
    BY <1>1, <1>2, <2>1
  <2>7. \A g \in Fetches : Waiting(g)' <=> g # f /\ Waiting(g)
    BY <1>1, <2>2, <2>3 DEF Waiting
  <2>8. ASSUME screen # "polled", ~overtaken', ~armed, selected # NoData
        PROVE  (\E h \in Fetches : LastAskedFor(h)') \/ ShownOrTold'
    <3>1. ~overtaken /\ ~fetching[f].late
      BY <2>1, <2>8
    <3>2. PICK h \in Fetches : LastAskedFor(h)
      BY <2>1, <2>8, <3>1 DEF ScreenInv, ShownOrTold
    <3>3. CASE h = f
      <4>1. ASSUME NEW g \in Fetches, Waiting(g)' PROVE fetching'[g].late
        BY <2>3, <2>7, <3>2, <3>3, <4>1 DEF LastAskedFor
      <4>2. shown' \in {selected, NoData} \/ (screen = "profile" /\ failed')
        BY <1>9, <2>8, <3>2, <3>3 DEF LastAskedFor
      <4>. QED
        BY <2>1, <4>1, <4>2 DEF ShownOrTold
    <3>4. CASE h # f
      <4>1. /\ Waiting(h)' /\ fetching'[h].subject = selected'
            /\ fetching'[h].later = {} /\ ~fetching'[h].late
        BY <2>1, <2>3, <2>7, <3>2, <3>4 DEF LastAskedFor
      <4>2. ASSUME NEW g \in Fetches, Waiting(g)', g # h PROVE h \in fetching'[g].later
        BY <2>3, <2>7, <3>2, <3>4, <4>2 DEF LastAskedFor
      <4>3. LastAskedFor(h)'
        BY <4>1, <4>2 DEF LastAskedFor
      <4>. QED
        BY <4>3
    <3>. QED
      BY <3>3, <3>4
  <2>. QED
    BY <1>1, <1>9, <2>1, <2>5, <2>6, <2>8 DEF ScreenInv, ScreensTypeOK
<1>10. ASSUME NEW f \in Fetches, FetchAnswered(f) PROVE ScreenInv'
  <2>1. Ends(f) /\ Waiting(f) /\ shown' = fetching[f].subject /\ failed' = failed
    BY <1>10 DEF FetchAnswered, Ends, Waiting
  <2>. QED
    BY <1>1, <1>2, <1>9, <2>1
<1>11. ASSUME NEW f \in Fetches, FetchFails(f) PROVE ScreenInv'
  <2>1. Ends(f) /\ failed' = TRUE
        /\ shown' = IF screen \in {"polled", "profile"} THEN shown ELSE NoData
    BY <1>11 DEF FetchFails
  <2>. QED
    BY <1>1, <1>9, <2>1
<1>12. CASE UNCHANGED screenVars
  BY <1>12 DEF screenVars, ScreenInv, ScreensTypeOK, LastAskedFor, ShownOrTold, Waiting
<1>. QED
  BY <1>4, <1>5, <1>6, <1>7, <1>8, <1>10, <1>11, <1>12 DEF ScreensNext

\* A screen that does not poll shows what is selected when all requests have
\* ended, but for the overtaken answers and the told errors.
THEOREM ScreensShowSelected == ScreensSpec => []StaleOnlyIfOvertaken
<1>1. ScreensInit => ScreenInv
  BY DEF ScreensInit, ScreenInv, ScreensTypeOK
<1>2. ScreenInv => StaleOnlyIfOvertaken
  BY DEF ScreenInv, StaleOnlyIfOvertaken, LastAskedFor, ShownOrTold, Waiting
<1>. QED
  BY <1>1, <1>2, ScreenStep, PTL DEF ScreensSpec

-----------------------------------------------------------------------------
(* The guide.                                                              *)

DialogInv == DialogsTypeOK /\ (done => completed)

\* What a window is when its page is loaded: with a guide only before one was
\* finished or skipped.
LEMMA FreshWindow ==
  ASSUME DialogInv, NEW p \in Places
  PROVE  /\ Fresh(p) \in Window /\ (completed => ~Fresh(p).guide)
         /\ \A b \in Window : /\ Unmount(b, p) \in Window
                              /\ completed => ~Unmount(b, p).guide
<1>1. 1 \in 1 .. Steps
  BY DialogsAssumption
<1>2. PICK g \in BOOLEAN : g = (p \in Guided /\ ~completed)
  OBVIOUS
<1>3. /\ Fresh(p) \in Window /\ Fresh(p).guide = g
  BY <1>1, <1>2 DEF Fresh, Window
<1>4. completed => ~g
  BY <1>2
<1>5. ASSUME NEW b \in Window
      PROVE  Unmount(b, p) \in Window /\ Unmount(b, p).guide = Fresh(p).guide
  <2>1. PICK f \in Window : f = Fresh(p)
    BY <1>3
  <2>2. PICK h \in BOOLEAN : h = b.help
    BY DEF Window
  <2>3. Unmount(b, p) = [f EXCEPT !.help = h]
    BY <2>1, <2>2 DEF Unmount
  <2>. QED
    BY <2>1, <2>3 DEF Window
<1>. QED
  BY <1>3, <1>4, <1>5

\* What a window may become when no guide opens in it.
Quiet(w, b) == b \in Window /\ (done => browser[w].guide \/ ~b.guide)

\* After such a step no window shows a guide that did not show one before.
LEMMA WindowStep ==
  ASSUME DialogInv, NEW w \in Windows, NEW b, Becomes(w, b), Quiet(w, b)
  PROVE  /\ DialogInv'
         /\ done => \A v \in Windows : browser'[v].guide => browser[v].guide
<1>1. browser \in [Windows -> Window] /\ b \in Window
  BY DEF DialogInv, DialogsTypeOK, Quiet
<1>2. /\ browser' = [browser EXCEPT ![w] = b] /\ done' = done /\ completed' = completed
  BY DEF Becomes
<1>3. /\ browser' \in [Windows -> Window]
      /\ \A v \in Windows : browser'[v] = IF v = w THEN b ELSE browser[v]
  BY <1>1, <1>2
<1>. QED
  BY <1>2, <1>3 DEF DialogInv, DialogsTypeOK, Quiet

LEMMA DialogStep ==
  DialogInv /\ [DialogsNext]_dialogVars =>
    /\ DialogInv'
    /\ done /\ done' => \A w \in Windows :
         ~browser[w].guide /\ browser'[w].guide => OpenOnboarding(w)
<1>. DEFINE Alone == done /\ done' => \A v \in Windows :
                       ~browser[v].guide /\ browser'[v].guide => OpenOnboarding(v)
<1>. SUFFICES ASSUME DialogInv, [DialogsNext]_dialogVars PROVE DialogInv' /\ Alone
  OBVIOUS
<1>1. /\ browser \in [Windows -> Window] /\ completed \in BOOLEAN /\ done \in BOOLEAN
      /\ done => completed
      /\ \A w \in Windows : browser[w] \in Window /\ browser[w].guide \in BOOLEAN
  BY DEF DialogInv, DialogsTypeOK, Window
<1>2. ASSUME NEW w \in Windows, NEW b, Becomes(w, b), Quiet(w, b) PROVE DialogInv' /\ Alone
  BY <1>2, WindowStep
<1>3. ASSUME NEW w \in Windows, NEW p \in Places
      PROVE  Quiet(w, Fresh(p)) /\ Quiet(w, Unmount(browser[w], p))
  BY <1>1, FreshWindow DEF Quiet
<1>4. ASSUME NEW w \in Windows, NEW p \in Places, FollowNavLink(w, p) \/ GoBack(w, p)
      PROVE  DialogInv' /\ Alone
  <2>1. PICK b : b = Unmount(browser[w], p)
    OBVIOUS
  <2>2. Becomes(w, b)
    BY <1>4, <2>1 DEF FollowNavLink, GoBack
  <2>. QED
    BY <1>2, <1>3, <2>1, <2>2
<1>5. ASSUME NEW w \in Windows, Refresh(w) PROVE DialogInv' /\ Alone
  <2>1. PICK p \in Places : p = browser[w].place
    BY <1>1 DEF Window
  <2>2. PICK b : b = Fresh(p)
    OBVIOUS
  <2>3. Becomes(w, b)
    BY <1>5, <2>1, <2>2 DEF Refresh
  <2>. QED
    BY <1>2, <1>3, <2>2, <2>3
\* What changes neither the page nor the guide.
<1>6. ASSUME NEW w \in Windows
      PROVE  /\ \A x \in BOOLEAN : /\ Quiet(w, [browser[w] EXCEPT !.typing = x])
                                   /\ Quiet(w, [browser[w] EXCEPT !.help = x])
                                   /\ Quiet(w, [browser[w] EXCEPT !.menu = x])
             /\ \A m \in Scrolling \cup {"none"}, x \in BOOLEAN :
                  Quiet(w, [browser[w] EXCEPT !.modal = m, !.locked = x])
             /\ \A n \in 1 .. Steps : Quiet(w, [browser[w] EXCEPT !.step = n])
             /\ Quiet(w, [browser[w] EXCEPT !.guide = FALSE])
  <2>1. PICK r \in Window : r = browser[w]
    BY <1>1
  <2>2. \A x \in BOOLEAN : /\ [r EXCEPT !.typing = x] \in Window
                           /\ [r EXCEPT !.typing = x].guide = r.guide
                           /\ [r EXCEPT !.help = x] \in Window
                           /\ [r EXCEPT !.help = x].guide = r.guide
                           /\ [r EXCEPT !.menu = x] \in Window
                           /\ [r EXCEPT !.menu = x].guide = r.guide
    BY DEF Window
  <2>3. \A m \in Scrolling \cup {"none"}, x \in BOOLEAN :
          /\ [r EXCEPT !.modal = m, !.locked = x] \in Window
          /\ [r EXCEPT !.modal = m, !.locked = x].guide = r.guide
    BY DEF Window
  <2>4. \A n \in 1 .. Steps : /\ [r EXCEPT !.step = n] \in Window
                              /\ [r EXCEPT !.step = n].guide = r.guide
    BY DEF Window
  <2>5. [r EXCEPT !.guide = FALSE] \in Window /\ ~[r EXCEPT !.guide = FALSE].guide
    BY DEF Window
  <2>. QED
    BY <2>1, <2>2, <2>3, <2>4, <2>5 DEF Quiet
<1>7. ASSUME NEW w \in Windows, FocusField(w) \/ CloseHelp(w) \/ ToggleMenu(w)
      PROVE  DialogInv' /\ Alone
  <2>1. PICK x \in BOOLEAN : \/ Becomes(w, [browser[w] EXCEPT !.typing = x])
                             \/ Becomes(w, [browser[w] EXCEPT !.help = x])
                             \/ Becomes(w, [browser[w] EXCEPT !.menu = x])
    <3>1. (~browser[w].typing) \in BOOLEAN /\ (~browser[w].menu) \in BOOLEAN /\ FALSE \in BOOLEAN
      OBVIOUS
    <3>. QED
      BY <1>7, <3>1 DEF FocusField, CloseHelp, ToggleMenu
  <2>. QED
    BY <1>2, <1>6, <2>1
<1>8. ASSUME NEW w \in Windows, NEW key \in {"?", "h", "d", "r", "b", "Escape"},
             Shortcut(w, key)
      PROVE  DialogInv' /\ Alone
  <2>1. PICK b : /\ Becomes(w, b)
                 /\ b = CASE key = "?" -> [browser[w] EXCEPT !.help = ~browser[w].help]
                          [] key = "h" -> Unmount(browser[w], "home")
                          [] key \in {"d", "r"} -> Unmount(browser[w], "dashboard")
                          [] key = "b" -> Unmount(browser[w], "borrow")
                          [] key = "Escape" -> [browser[w] EXCEPT !.help = FALSE]
    BY <1>8 DEF Shortcut
  <2>2. \/ \E x \in BOOLEAN : b = [browser[w] EXCEPT !.help = x]
        \/ \E p \in Places : b = Unmount(browser[w], p)
    <3>1. (~browser[w].help) \in BOOLEAN /\ FALSE \in BOOLEAN
      OBVIOUS
    <3>2. {"home", "dashboard", "borrow"} \subseteq Places
      BY DEF Places, Guided
    <3>3. CASE key = "?"
      BY <2>1, <3>1, <3>3
    <3>4. CASE key = "h"
      BY <2>1, <3>2, <3>4
    <3>5. CASE key \in {"d", "r"}
      BY <2>1, <3>2, <3>5
    <3>6. CASE key = "b"
      BY <2>1, <3>2, <3>6
    <3>7. CASE key = "Escape"
      BY <2>1, <3>1, <3>7
    <3>. QED
      BY <3>3, <3>4, <3>5, <3>6, <3>7
  <2>3. Quiet(w, b)
    BY <1>3, <1>6, <2>2
  <2>. QED
    BY <1>2, <2>1, <2>3
<1>9. ASSUME NEW w \in Windows, NEW m \in Scrolling, OpenModal(w, m) PROVE DialogInv' /\ Alone
  BY <1>2, <1>6, <1>9 DEF OpenModal
<1>10. ASSUME NEW w \in Windows, CloseModal(w) PROVE DialogInv' /\ Alone
  BY <1>2, <1>6, <1>10 DEF CloseModal
<1>11. ASSUME NEW w \in Windows, OpenOnboarding(w) PROVE DialogInv' /\ Alone
  <2>1. PICK b : b = [browser[w] EXCEPT !.guide = TRUE, !.step = 1, !.menu = FALSE]
    OBVIOUS
  <2>2. b \in Window
    <3>1. 1 \in 1 .. Steps
      BY DialogsAssumption
    <3>. QED
      BY <1>1, <2>1, <3>1 DEF Window
  <2>3. browser' = [browser EXCEPT ![w] = b] /\ UNCHANGED <<completed, done>>
    BY <1>11, <2>1 DEF OpenOnboarding, Becomes
  <2>4. \A v \in Windows : v # w => browser'[v] = browser[v]
    BY <1>1, <2>3
  <2>5. DialogInv'
    BY <1>1, <2>2, <2>3 DEF DialogInv, DialogsTypeOK
  <2>. QED
    BY <1>11, <2>4, <2>5
<1>12. ASSUME NEW w \in Windows, CloseOnboarding(w) PROVE DialogInv' /\ Alone
  BY <1>2, <1>6, <1>12 DEF CloseOnboarding
<1>13. ASSUME NEW w \in Windows, NextOfGuide(w) PROVE DialogInv' /\ Alone
  <2>1. PICK n : n = browser[w].step + 1
    OBVIOUS
  <2>2. n \in 1 .. Steps
    <3>1. browser[w].step \in 1 .. Steps /\ browser[w].step < Steps
      BY <1>1, <1>13 DEF NextOfGuide, Window
    <3>. QED
      BY <2>1, <3>1, DialogsAssumption
  <2>3. Becomes(w, [browser[w] EXCEPT !.step = n])
    BY <1>13, <2>1 DEF NextOfGuide
  <2>. QED
    BY <1>2, <1>6, <2>2, <2>3
\* The guide is finished or skipped: it is remembered that it was.
<1>14. ASSUME NEW w \in Windows, HandleSkip(w) \/ HandlePrimaryAction(w)
       PROVE  DialogInv' /\ Alone
  <2>1. completed' = TRUE /\ done' = TRUE /\ browser[w].guide
    BY <1>14 DEF HandleSkip, HandlePrimaryAction, Completed
  <2>2. PICK b \in Window : browser' = [browser EXCEPT ![w] = b]
    <3>1. [browser[w] EXCEPT !.guide = FALSE] \in Window
      BY <1>6 DEF Quiet
    <3>2. "borrow" \in Places
      BY DEF Places
    <3>3. Unmount(browser[w], "borrow") \in Window
      BY <1>1, <3>2, FreshWindow
    <3>4. CASE HandleSkip(w)
      BY <1>1, <3>1, <3>4 DEF HandleSkip
    <3>5. CASE HandlePrimaryAction(w)
      BY <3>3, <3>5 DEF HandlePrimaryAction
    <3>. QED
      BY <1>14, <3>4, <3>5
  <2>3. \A v \in Windows : v # w => browser'[v] = browser[v]
    BY <1>1, <2>2
  <2>. QED
    BY <1>1, <2>1, <2>2, <2>3 DEF DialogInv, DialogsTypeOK
<1>15. ASSUME NEW w \in Windows, ResetDemo(w) PROVE DialogInv' /\ Alone
  BY <1>1, <1>15 DEF ResetDemo, DialogInv, DialogsTypeOK
<1>16. CASE UNCHANGED dialogVars
  BY <1>16 DEF dialogVars, DialogInv, DialogsTypeOK
<1>. QED
  BY <1>4, <1>5, <1>7, <1>8, <1>9, <1>10, <1>11, <1>12, <1>13, <1>14, <1>15, <1>16
     DEF DialogsNext

\* A guide that was finished or skipped, in whichever tab, opens in no tab
\* unless it is asked for.
THEOREM GuideStaysAway == DialogsSpec => GuideLeftAlone
<1>1. DialogsInit => DialogInv
  <2>. SUFFICES ASSUME DialogsInit PROVE DialogInv
    OBVIOUS
  <2>1. browser = [w \in Windows |-> Fresh("home")] /\ completed = FALSE /\ done = FALSE
    BY DEF DialogsInit
  <2>2. 1 \in 1 .. Steps
    BY DialogsAssumption
  <2>3. Fresh("home") \in Window
    BY <2>2 DEF Fresh, Window, Places
  <2>. QED
    BY <2>1, <2>3 DEF DialogInv, DialogsTypeOK
<1>. QED
  BY <1>1, DialogStep, PTL DEF DialogsSpec, GuideLeftAlone
====

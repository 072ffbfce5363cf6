----------------------------- MODULE Appraisals -----------------------------
(***************************************************************************)
(* The value of one collateral in the backend, which keeps it in three     *)
(* places: the record with its history (backend/src/db/store.ts), the      *)
(* answers kept of that history (utils/responseCache.ts) and the appraisal *)
(* cache (utils/appraisalCache.ts), whose keys are the numbers of loan     *)
(* requests and the ids of records alike.  No handler awaits anything      *)
(* between its reads and its writes.                                       *)
(***************************************************************************)
EXTENDS Integers, Sequences, SequencesExt

CONSTANTS
  Worths,          \* values of the collateral
  MaxAppraisals,   \* bound: entries of the history
  NoEntry          \* nothing cached

ASSUME AppraisalsAssumption == Worths \subseteq Nat \ {0} /\ MaxAppraisals \in Nat \ {0}

VARIABLES
  worth,       \* appraised_value of the record
  listed,      \* the record is not deleted
  history,     \* appraisal_history, oldest first
  keptHistory, \* the history as the response cache has it, or NoEntry
  appraisal,   \* the entry of the appraisal cache, or NoEntry
  patched      \* history: PATCH changed the value since the last appraisal

appraisalVars == <<worth, listed, history, keptHistory, appraisal, patched>>

\* old: cached for longer than ttlMs; sent: by a borrower.
Appraisal == [value : Worths, old : BOOLEAN, sent : BOOLEAN]

AppraisalsTypeOK ==
  /\ worth \in Worths
  /\ {listed, patched} \subseteq BOOLEAN
  /\ history \in Seq(Worths) /\ Len(history) \in 1..MaxAppraisals
  /\ keptHistory \in Seq(Worths) \cup {NoEntry}
  /\ appraisal \in Appraisal \cup {NoEntry}

\* insertCollateral: the first value is the first entry.
AppraisalsInit ==
  /\ worth \in Worths /\ listed = TRUE
  /\ history = <<worth>>
  /\ keptHistory = NoEntry /\ appraisal = NoEntry /\ patched = FALSE

-----------------------------------------------------------------------------
\* Mutant: the answers that are kept stay.
InvalidateHistoryNot == keptHistory

InvalidateHistory == NoEntry

\* addAppraisal.
AddAppraisal(v) == worth' = v /\ history' = Append(history, v) /\ patched' = FALSE

SetAppraisal(v, sent) == appraisal' = [value |-> v, old |-> FALSE, sent |-> sent]

\* PUT /api/v1/collateral/:id/appraise.
Appraise(v) ==
  /\ listed /\ Len(history) < MaxAppraisals
  /\ AddAppraisal(v)
  /\ SetAppraisal(v, FALSE)
  /\ keptHistory' = InvalidateHistory
  /\ UNCHANGED listed

\* PATCH /api/v1/collateral/:id, the first of its two handlers: a copy of the
\* record, with the same history.
UpdateCollateral(v) ==
  /\ listed /\ v # worth
  /\ worth' = v /\ patched' = TRUE
  /\ UNCHANGED <<listed, history, keptHistory, appraisal>>

\* DELETE and restoration: what is kept of the history stays for its time.
DeleteOrRestore ==
  /\ listed' = ~listed
  /\ UNCHANGED <<worth, history, keptHistory, appraisal, patched>>

\* GET /api/v1/collateral/:id/appraisals, not from the cache.
GetAppraisalHistory ==
  /\ listed /\ keptHistory = NoEntry
  /\ keptHistory' = history
  /\ UNCHANGED <<worth, listed, history, appraisal, patched>>

KeptExpires ==
  /\ keptHistory # NoEntry /\ keptHistory' = NoEntry
  /\ UNCHANGED <<worth, listed, history, appraisal, patched>>

-----------------------------------------------------------------------------
(* The appraisal cache.                                                    *)

\* getAppraisal: an entry past its time is marked, not dropped.
GetAppraisal == IF appraisal = NoEntry THEN "miss" ELSE IF appraisal.old THEN "stale" ELSE "hit"

\* POST /api/loan/request: a miss is filled with what the borrower sends.
SendAppraisal(v) ==
  /\ GetAppraisal = "miss"
  /\ SetAppraisal(v, TRUE)
  /\ UNCHANGED <<worth, listed, history, keptHistory, patched>>

AppraisalAges ==
  /\ GetAppraisal = "hit"
  /\ appraisal' = [appraisal EXCEPT !.old = TRUE]
  /\ UNCHANGED <<worth, listed, history, keptHistory, patched>>

\* POST /api/oracle/price-update.
InvalidateAll ==
  /\ appraisal # NoEntry /\ appraisal' = NoEntry
  /\ UNCHANGED <<worth, listed, history, keptHistory, patched>>

AppraisalsNext ==
  \/ \E v \in Worths : Appraise(v) \/ UpdateCollateral(v) \/ SendAppraisal(v)
  \/ DeleteOrRestore \/ GetAppraisalHistory \/ KeptExpires
  \/ AppraisalAges \/ InvalidateAll

AppraisalsSpec == AppraisalsInit /\ [][AppraisalsNext]_appraisalVars

-----------------------------------------------------------------------------
(* Properties.                                                             *)

\* Unless PATCH changed the value since the last appraisal, the record, the
\* newest entry of its history, the history that is answered from the cache
\* and a value of the appraisal cache that no borrower sent are all the same,
\* through deletions, restorations, expiries and price updates.
AppraisalsAgree ==
  patched \/ /\ Last(history) = worth
             /\ keptHistory # NoEntry => Last(keptHistory) = worth
             /\ appraisal # NoEntry /\ ~appraisal.sent => appraisal.value = worth
=============================================================================

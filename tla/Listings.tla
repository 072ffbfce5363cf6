------------------------------ MODULE Listings ------------------------------
(***************************************************************************)
(* The listings of the backend: rows newest first, cut into pages by       *)
(* offset (backend/src/db/store.ts), some of the answers kept for a while  *)
(* (backend/src/utils/responseCache.ts), and a client that reads page      *)
(* after page while other handlers of backend/src/index.ts add, delete and *)
(* restore rows.  No handler here awaits anything.                         *)
(***************************************************************************)
EXTENDS Integers, Sequences, FiniteSets, SequencesExt

CONSTANTS
  MaxRows,     \* bound: rows ever inserted
  PageLimit,   \* rows of a page
  NoPage       \* nothing in the cache; nobody walks

ASSUME ListingsAssumption == {MaxRows, PageLimit} \subseteq Nat \ {0}

VARIABLES
  table,    \* the listing looked at
  rows,     \* insertion order: when a row was created, whether it is there
  cache,    \* page number -> its answer in the response cache, or NoPage
  walk      \* the client: next page to read, what it has seen; or NoPage

listingVars == <<table, rows, cache, walk>>

Tables == {"loans", "collateral", "transactions", "appraisals"}
RowIds == 1 .. MaxRows
Pages == 1 .. (MaxRows + PageLimit - 1) \div PageLimit

\* shifted is history: a row was deleted, or one inserted or restored without
\* the cache being told, since the answer was computed.
Answer == [data : SUBSET RowIds, total : 0 .. MaxRows, shifted : BOOLEAN]

\* kept: the rows that were there since the walk began.
WalkRecord == [next : Pages, seen : SUBSET RowIds, kept : SUBSET RowIds,
               shifted : BOOLEAN, over : BOOLEAN]

ListingsTypeOK ==
  /\ table \in Tables
  /\ rows \in Seq([at : RowIds, there : BOOLEAN]) /\ Len(rows) <= MaxRows
  /\ cache \in [Pages -> Answer \cup {NoPage}]
  /\ walk \in WalkRecord \cup {NoPage}

NothingCached == [p \in Pages |-> NoPage]

ListingsInit ==
  /\ table \in Tables
  /\ rows = <<>> /\ cache = NothingCached /\ walk = NoPage

-----------------------------------------------------------------------------
(* The store.                                                              *)

There == {i \in DOMAIN rows : rows[i].there}

\* Stable sort by descending creation time: rows of one instant stay in the
\* order of their insertion.
Precedes(i, j) == rows[i].at > rows[j].at \/ (rows[i].at = rows[j].at /\ i < j)

Rank(i) == Cardinality({j \in There : Precedes(j, i)})

Slice(p) == {i \in There : Rank(i) \in (p - 1) * PageLimit .. p * PageLimit - 1}

\* listLoans, listCollateral, listTransactions and getAppraisalHistory.
Listed(p) == [data |-> Slice(p), total |-> Cardinality(There), shifted |-> FALSE]

-----------------------------------------------------------------------------
(* The response cache, one user's part of it.                              *)

Shifted(answer) == IF answer = NoPage THEN NoPage ELSE [answer EXCEPT !.shifted = TRUE]

\* What a change does to the answers that are out: those kept and those the
\* walk has used.
Unnoticed ==
  /\ cache' = [p \in Pages |-> Shifted(cache[p])]
  /\ walk' = Shifted(walk)

InvalidateCache == cache' = NothingCached /\ UNCHANGED walk

\* After ttlMs, 30 seconds or 5 minutes.
AnswerExpires(p) ==
  /\ cache[p] # NoPage
  /\ cache' = [cache EXCEPT ![p] = NoPage]
  /\ UNCHANGED <<table, rows, walk>>

-----------------------------------------------------------------------------
(* Handlers that change rows.  Two rows may be created within a            *)
(* millisecond.                                                            *)

Insert ==
  /\ Len(rows) < MaxRows
  /\ \E later \in {0, 1} :
       rows' = Append(rows, [at |-> (IF rows = <<>> THEN 1 ELSE Last(rows).at + later),
                             there |-> TRUE])
  /\ UNCHANGED table

\* POST /api/loan/create.
ListNewLoan == table = "loans" /\ Insert /\ Unnoticed

\* Mutant: the answers in the cache stay.
ListNewCollateralOnly == table = "collateral" /\ Insert /\ UNCHANGED <<cache, walk>>

\* POST /api/v1/collateral and /api/collateral/upload.
ListNewCollateral == table = "collateral" /\ Insert /\ InvalidateCache

ListNewTransaction == table = "transactions" /\ Insert /\ UNCHANGED <<cache, walk>>

\* PUT /api/v1/collateral/:id/appraise, and PATCH, which adds no entry.
ListNewAppraisal == table = "appraisals" /\ Insert /\ InvalidateCache

SetThere(i, there) == rows' = [rows EXCEPT ![i].there = there] /\ UNCHANGED table

\* The walk cannot rely on a row that is gone.
Delist(i) ==
  /\ table \in {"loans", "collateral"} /\ i \in There
  /\ SetThere(i, FALSE)
  /\ cache' = [p \in Pages |-> Shifted(cache[p])]
  /\ walk' = IF walk = NoPage THEN NoPage
             ELSE [walk EXCEPT !.shifted = TRUE, !.kept = @ \ {i}]

\* POST /api/admin/restore.
Relist(i) ==
  /\ table \in {"loans", "collateral"} /\ i \in DOMAIN rows \ There
  /\ SetThere(i, TRUE)
  /\ Unnoticed

\* PATCH /api/v1/collateral/:id/restore.
RelistCollateral(i) ==
  /\ table = "collateral" /\ i \in DOMAIN rows \ There
  /\ SetThere(i, TRUE)
  /\ InvalidateCache

\* PUT /api/loans/:id/repay, POST /api/loan/request and
\* PATCH /api/v1/collateral/:id.
RowChanges ==
  /\ table \in {"loans", "collateral"}
  /\ InvalidateCache
  /\ UNCHANGED <<table, rows>>

-----------------------------------------------------------------------------
(* The client.                                                             *)

StartWalk ==
  /\ walk = NoPage
  /\ walk' = [next |-> 1, seen |-> {}, kept |-> There, shifted |-> FALSE, over |-> FALSE]
  /\ UNCHANGED <<table, rows, cache>>

\* usePagination: as many pages as the last answer's total asks for.
Read(answer) ==
  walk' = [walk EXCEPT !.seen = @ \cup answer.data,
                       !.shifted = @ \/ answer.shifted,
                       !.over = walk.next * PageLimit >= answer.total,
                       !.next = IF @ + 1 \in Pages THEN @ + 1 ELSE @]

Walking == walk # NoPage /\ ~walk.over

\* The store answers.
ReadStored == Walking /\ Read(Listed(walk.next)) /\ UNCHANGED <<table, rows, cache>>

\* The cache answers; or the store does and its answer is kept; or the store,
\* of a request that says no-cache.
ReadThroughCache ==
  /\ Walking
  /\ LET kept == cache[walk.next]
     IN  IF kept # NoPage
         THEN Read(kept) /\ UNCHANGED cache
         ELSE /\ Read(Listed(walk.next))
              /\ cache' = [cache EXCEPT ![walk.next] = Listed(walk.next)]
  /\ UNCHANGED <<table, rows>>

\* GET /api/loans, GET /api/collateral and GET .../:id/appraisals.
ReadLoans == table = "loans" /\ (ReadThroughCache \/ ReadStored)
ReadCollateral == table = "collateral" /\ (ReadThroughCache \/ ReadStored)
ReadAppraisals == table = "appraisals" /\ (ReadThroughCache \/ ReadStored)

\* GET /api/v1/collateral, without its filter by animal, which comes after
\* the page is cut; GET /loans of the v1 router, whose page size is capped at
\* 100 after it was checked.
ReadCollateralV1 == table = "collateral" /\ ReadStored
ReadLoansV1 == table = "loans" /\ ReadStored

\* GET /api/transactions, and GET /api/v1/transactions of the caller's own.
ReadTransactions == table = "transactions" /\ ReadStored
ReadTransactionsV1 == table = "transactions" /\ ReadStored

EndWalk ==
  /\ walk # NoPage /\ walk.over
  /\ walk' = NoPage
  /\ UNCHANGED <<table, rows, cache>>

ListingsNext ==
  \/ ListNewLoan \/ ListNewCollateral \/ ListNewTransaction \/ ListNewAppraisal
  \/ \E i \in RowIds : Delist(i) \/ Relist(i) \/ RelistCollateral(i)
  \/ RowChanges \/ \E p \in Pages : AnswerExpires(p)
  \/ StartWalk \/ EndWalk
  \/ ReadLoans \/ ReadCollateral \/ ReadAppraisals
  \/ ReadCollateralV1 \/ ReadLoansV1 \/ ReadTransactions \/ ReadTransactionsV1

ListingsSpec == ListingsInit /\ [][ListingsNext]_listingVars

-----------------------------------------------------------------------------
(* Properties.                                                             *)

\* Someone who reads all pages of a listing sees every row that was there all
\* the time, though rows are inserted meanwhile and some of the pages are
\* older than others: unless, since the oldest of them, a row was deleted or
\* one was added without the cache being invalidated.
WalkSeesWhatStays ==
  walk # NoPage /\ walk.over /\ ~walk.shifted => walk.kept \subseteq walk.seen
=============================================================================

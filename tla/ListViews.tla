----------------------------- MODULE ListViews -----------------------------
(***************************************************************************)
(* The lists of the frontend and the address bar they are synchronised     *)
(* with.  The lists of loans and of collateral ("filtered") are narrowed   *)
(* by the parameters of the URL, which the filter bar writes: a chip or a  *)
(* date at once, a search text 300 ms after the last key.  The bar reads   *)
(* the URL only when it is mounted.  The collateral of the dashboard       *)
(* ("paged") and the transactions keep their page in the URL.              *)
(***************************************************************************)
EXTENDS Integers, Sequences

CONSTANTS
  Queries,      \* search texts
  NoQuery,      \* the empty one
  Chips,        \* statuses, animal types and dates to filter by
  Limits,       \* page sizes; the smallest is the default
  MaxTotal,     \* bound: items in a list
  MaxEntries,   \* bound: entries of the browser's history
  NoBar         \* the filter bar is not mounted

EmptyFilters == [query |-> NoQuery, chips |-> {}]
Filters == [query : Queries, chips : SUBSET Chips]

ASSUME ListViewsAssumption ==
  /\ NoQuery \in Queries /\ Limits \subseteq Nat \ {0} /\ Limits # {}
  /\ {MaxTotal, MaxEntries} \subseteq Nat
  /\ NoBar \notin Filters

VARIABLES
  listView,   \* "filtered", "paged" or "transactions"
  entries,    \* the history of the browser
  at,         \* the entry that is shown
  bar,        \* the filters the bar shows
  debounced,  \* the filters the debounce timer will write
  items,      \* how many items were loaded, and whether they were
  strayed     \* history: the user moved to another URL of the same page

listVars == <<listView, entries, at, bar, debounced, items, strayed>>

DefaultLimit == CHOOSE l \in Limits : \A m \in Limits : l <= m
Plain == [on |-> "list", filters |-> EmptyFilters, page |-> 1, limit |-> DefaultLimit]
Away == [Plain EXCEPT !.on = "elsewhere"]
Entries == [on : {"list", "elsewhere"}, filters : Filters, page : 0..MaxTotal + 1, limit : Limits]

Items == [load : {"loading", "shown", "failed", "crashed"}, total : 0..MaxTotal]

ListViewsTypeOK ==
  /\ listView \in {"filtered", "paged", "transactions"}
  /\ entries \in Seq(Entries) /\ at \in DOMAIN entries
  /\ {bar, debounced} \subseteq Filters \cup {NoBar}
  /\ items \in Items
  /\ strayed \in BOOLEAN

Loading == [load |-> "loading", total |-> 0]

ListViewsInit ==
  /\ listView \in {"filtered", "paged", "transactions"}
  /\ entries = <<Plain>> /\ at = 1
  /\ bar = IF listView = "filtered" THEN EmptyFilters ELSE NoBar
  /\ debounced = NoBar
  /\ items = Loading
  /\ strayed = FALSE

-----------------------------------------------------------------------------
(* The filter bar.                                                         *)

\* router.replace: the parameters of the URL become those of next, and no
\* others.
Apply(next) ==
  /\ entries' = [entries EXCEPT ![at] = [Plain EXCEPT !.filters = next]]
  /\ strayed' = FALSE

\* Mutant: a chip leaves the timer of the search text alone.
ImmediateKeepingTimer(next) ==
  Apply(next) /\ UNCHANGED debounced

Immediate(next) ==
  Apply(next) /\ debounced' = NoBar

HasActiveFilters == bar # EmptyFilters

SetQuery(q) ==
  /\ bar # NoBar /\ q # bar.query
  /\ bar' = [bar EXCEPT !.query = q]
  /\ debounced' = bar'
  /\ UNCHANGED <<listView, entries, at, items, strayed>>

\* A chip is set or removed, a date is set or cleared.
Toggle(c) ==
  /\ bar # NoBar
  /\ bar' = [bar EXCEPT !.chips = IF c \in @ THEN @ \ {c} ELSE @ \cup {c}]
  /\ Immediate(bar')
  /\ UNCHANGED <<listView, at, items>>

ClearAll ==
  /\ bar # NoBar /\ HasActiveFilters
  /\ bar' = EmptyFilters
  /\ Immediate(EmptyFilters)
  /\ UNCHANGED <<listView, at, items>>

QueryDebounced ==
  /\ debounced # NoBar
  /\ Apply(debounced)
  /\ debounced' = NoBar
  /\ UNCHANGED <<listView, at, bar, items>>

-----------------------------------------------------------------------------
(* Pages.                                                                  *)

TotalPages(l) == IF items.total = 0 THEN 1 ELSE (items.total + l - 1) \div l

\* The page of the URL, brought into the range of those there are.
Page(e) ==
  LET p == IF e.page < 1 THEN 1 ELSE e.page
  IN  IF p < TotalPages(e.limit) THEN p ELSE TotalPages(e.limit)

Pushed(e) ==
  /\ at < MaxEntries
  /\ entries' = Append(SubSeq(entries, 1, at), e)
  /\ at' = at + 1

Paged == listView # "filtered" /\ entries[at].on = "list" /\ items.load = "shown" /\ items.total > 0

\* "Prev" and "Next", which the first and the last page disable.
SetPage(p) ==
  /\ Paged /\ p \in 1..TotalPages(entries[at].limit)
  /\ p - Page(entries[at]) \in {-1, 1}
  /\ Pushed([entries[at] EXCEPT !.page = p])
  /\ UNCHANGED <<listView, bar, debounced, items, strayed>>

SetLimit(l) ==
  /\ Paged /\ l # entries[at].limit
  /\ Pushed([entries[at] EXCEPT !.limit = l, !.page = 1])
  /\ UNCHANGED <<listView, bar, debounced, items, strayed>>

\* The answer.  The pages of loans and of collateral take only an array, and
\* the backend answers a page object: they are left empty.  TransactionHistory
\* calls the hook usePagination only once it has transactions, after it has
\* rendered without it: React throws.
ItemsLoaded(n) ==
  /\ items.load = "loading" /\ entries[at].on = "list"
  /\ items' =
       CASE listView = "filtered" -> [load |-> "shown", total |-> 0]
         [] listView = "transactions" /\ n > 0 -> [load |-> "crashed", total |-> 0]
         [] OTHER -> [load |-> "shown", total |-> n]
  /\ UNCHANGED <<listView, entries, at, bar, debounced, strayed>>

ItemsFail ==
  /\ items.load = "loading" /\ entries[at].on = "list"
  /\ items' = [load |-> IF listView = "filtered" THEN "shown" ELSE "failed", total |-> 0]
  /\ UNCHANGED <<listView, entries, at, bar, debounced, strayed>>

RetryItems ==
  /\ items.load = "failed" /\ entries[at].on = "list"
  /\ items' = Loading
  /\ UNCHANGED <<listView, entries, at, bar, debounced, strayed>>

-----------------------------------------------------------------------------
(* Navigation.                                                             *)

\* The page of the entry e is shown: kept as it is when it already was, else
\* mounted, with its bar set from the URL.
Arrive(e) ==
  IF e.on = "list" /\ entries[at].on = "list"
  THEN strayed' = TRUE /\ UNCHANGED <<bar, debounced, items>>
  ELSE /\ bar' = IF e.on = "list" /\ listView = "filtered" THEN e.filters ELSE NoBar
       /\ debounced' = NoBar
       /\ items' = Loading
       /\ strayed' = FALSE

\* A link of the navigation bar, to the list or to another page.
FollowLink(e) ==
  e \in {Plain, Away} /\ Pushed(e) /\ Arrive(e) /\ UNCHANGED listView

BackOrForward(i) ==
  /\ i \in DOMAIN entries /\ i - at \in {-1, 1}
  /\ at' = i
  /\ Arrive(entries[i])
  /\ UNCHANGED <<listView, entries>>

Reload ==
  /\ entries[at].on = "list"
  /\ bar' = IF listView = "filtered" THEN entries[at].filters ELSE NoBar
  /\ debounced' = NoBar
  /\ items' = Loading
  /\ strayed' = FALSE
  /\ UNCHANGED <<listView, entries, at>>

ListViewsNext ==
  \/ \E q \in Queries : SetQuery(q)
  \/ \E c \in Chips : Toggle(c)
  \/ ClearAll \/ QueryDebounced
  \/ \E p \in 1..MaxTotal : SetPage(p)
  \/ \E l \in Limits : SetLimit(l)
  \/ \E n \in 0..MaxTotal : ItemsLoaded(n)
  \/ ItemsFail \/ RetryItems
  \/ \E e \in {Plain, Away} : FollowLink(e)
  \/ \E i \in 1..MaxEntries : BackOrForward(i)
  \/ Reload

ListViewsSpec == ListViewsInit /\ [][ListViewsNext]_listVars

-----------------------------------------------------------------------------
(* Properties.                                                             *)

\* What the bar shows is what the list is filtered by, and what a reload or a
\* return to the page restores, unless a search text is still debounced or the
\* user moved to another URL of the page under the mounted bar.
ListFollowsBar ==
  bar # NoBar /\ debounced = NoBar /\ ~strayed => bar = entries[at].filters
=============================================================================

------------------------------- MODULE Rates -------------------------------
(***************************************************************************)
(* Amounts in local currency: hooks/useCurrencyConversion.ts, whose rates  *)
(* are kept in one cache for all amounts of a page, and the choice of the  *)
(* currency, hooks/useCurrencySettings.ts.                                 *)
(*                                                                         *)
(* A rate is known here by the minute the service took it; the requests of *)
(* several amounts overlap, and any may be answered first.                 *)
(***************************************************************************)
EXTENDS Integers

CONSTANTS
  Labels,      \* the amounts on the page (XlmAmount)
  Currencies,
  CacheTtl,    \* 5 minutes
  StaleTtl,    \* 10 minutes
  LastMinute,  \* bound: the clock
  NoRate

ASSUME RatesAssumption ==
  /\ {CacheTtl, StaleTtl, LastMinute} \subseteq Nat /\ NoRate \notin Nat
  /\ Currencies # {}

VARIABLES
  minute,
  ratesCache,   \* module variable: the rates and when they were fetched
  label,        \* amount -> what its hooks hold; NoRate: not on the page
  currencyKept  \* localStorage: sk_currency and sk_currency_enabled

rateVars == <<minute, ratesCache, label, currencyKept>>

Minutes == 0..LastMinute
Rate == [taken : Minutes, fetchedAt : Minutes]
Choice == [currency : Currencies, enabled : BOOLEAN]

\* sent: when the request under way was made; taken: the service has answered.
\* rendered, told: when it was last rendered, and the flag it showed.
Label == [rate : Rate \cup {NoRate}, sent : Minutes \cup {NoRate},
          taken : Minutes \cup {NoRate},
          rendered : Minutes, told : BOOLEAN, choice : Choice]

RatesTypeOK ==
  /\ minute \in Minutes
  /\ ratesCache \in Rate \cup {NoRate}
  /\ label \in [Labels -> Label \cup {NoRate}]
  /\ currencyKept \in Choice

RatesInit ==
  /\ minute = 0 /\ ratesCache = NoRate
  /\ label = [l \in Labels |-> NoRate]
  /\ currencyKept = [currency |-> CHOOSE c \in Currencies : TRUE, enabled |-> TRUE]

-----------------------------------------------------------------------------
RatesClock ==
  /\ minute < LastMinute /\ minute' = minute + 1
  /\ UNCHANGED <<ratesCache, label, currencyKept>>

RateShows(l, b) == label' = [label EXCEPT ![l] = b]

\* The flag isStale is reckoned when the amount is rendered, and only then.
IsStale(r) == r # NoRate /\ minute - r.fetchedAt > StaleTtl

Rendered(l, b) == RateShows(l, [b EXCEPT !.rendered = minute, !.told = IsStale(b.rate)])

\* refresh: with rates younger than CacheTtl there is no request.
CacheServes == ratesCache # NoRate /\ minute - ratesCache.fetchedAt < CacheTtl

\* The amount appears: the state starts from the cache, the effects refresh it
\* and read the choice.  No amount asks again until it has left the page.
MountAmount(l) ==
  /\ label[l] = NoRate
  /\ Rendered(l, [rate |-> ratesCache, sent |-> IF CacheServes THEN NoRate ELSE minute,
                  taken |-> NoRate, rendered |-> minute, told |-> FALSE,
                  choice |-> currencyKept])
  /\ UNCHANGED <<minute, ratesCache, currencyKept>>

RatesTaken(l) ==
  /\ label[l] # NoRate /\ label[l].sent # NoRate /\ label[l].taken = NoRate
  /\ RateShows(l, [label[l] EXCEPT !.taken = minute])
  /\ UNCHANGED <<minute, ratesCache, currencyKept>>

\* Mutant: the rates are dated when they arrive.
DatedOnArrival(l) == minute

\* Dated by the time of the request.
Dated(l) == label[l].sent

\* The rates arrive, and replace those of any request that was answered before.
RatesArrive(l) ==
  /\ label[l] # NoRate /\ label[l].taken # NoRate
  /\ ratesCache' = [taken |-> label[l].taken, fetchedAt |-> Dated(l)]
  /\ Rendered(l, [label[l] EXCEPT !.rate = ratesCache', !.sent = NoRate, !.taken = NoRate])
  /\ UNCHANGED <<minute, currencyKept>>

RatesFail(l) ==
  /\ label[l] # NoRate /\ label[l].sent # NoRate
  /\ Rendered(l, [label[l] EXCEPT !.sent = NoRate, !.taken = NoRate])
  /\ UNCHANGED <<minute, ratesCache, currencyKept>>

\* A rendering for another reason.
Render(l) ==
  /\ label[l] # NoRate
  /\ Rendered(l, label[l])
  /\ UNCHANGED <<minute, ratesCache, currencyKept>>

\* The amount leaves the page; the answer of its request still goes to the
\* cache, which the request of an amount that stays stands for.
Unmounted(l) ==
  /\ label[l] # NoRate /\ label[l].sent = NoRate
  /\ RateShows(l, NoRate)
  /\ UNCHANGED <<minute, ratesCache, currencyKept>>

\* The settings page, where there are no amounts: they read the choice when
\* they appear again.
ChooseCurrency(c) ==
  /\ \A l \in Labels : label[l] = NoRate
  /\ currencyKept' = c
  /\ UNCHANGED <<minute, ratesCache, label>>

RatesNext ==
  \/ RatesClock
  \/ \E l \in Labels :
       MountAmount(l) \/ RatesTaken(l) \/ RatesArrive(l) \/ RatesFail(l) \/ Render(l) \/ Unmounted(l)
  \/ \E c \in Choice : ChooseCurrency(c)

RatesSpec == RatesInit /\ [][RatesNext]_rateVars

-----------------------------------------------------------------------------
(* Properties.                                                             *)

\* An amount without the warning was converted, when it was last rendered, at
\* a rate that was not older than StaleTtl: however requests overlap, and
\* however long one takes, no cache passes an old rate as a fresh one.
FreshAsTold ==
  \A l \in Labels :
    label[l] # NoRate /\ label[l].rate # NoRate /\ ~label[l].told
      => label[l].rendered - label[l].rate.taken <= StaleTtl
=============================================================================

------------------------------- MODULE Oracle -------------------------------
(***************************************************************************)
(* The price feed of contracts/stellarkraal/src/lib.rs: the registry of    *)
(* oracles, the aggregated price (submit_oracle_prices), the average of    *)
(* the legacy oracle's prices (submit_price) and the threshold above which *)
(* health_factor finds a price stale.  A loan is reduced to whether it is  *)
(* Active, which is all remove_oracle reads of it; module Lending has the  *)
(* rest.  OracleReport, flagged_count included, is returned to the         *)
(* submitter and not stored.                                               *)
(***************************************************************************)
EXTENDS Pausable, FiniteSets, Sequences, SequencesExt

CONSTANTS
  Oracles,            \* addresses
  NotSet,             \* the storage entry does not exist
  MaxOracles,         \* 5, the limit of add_oracle
  ArraySize,          \* 5, the length of the array that is sorted
  MaxPrice,           \* MAX_PRICE
  DefaultWindow,      \* of the average, set by initialize
  DefaultStale,       \* staleness threshold, set by initialize
  \* inputs the environment may choose
  Prices, Quorums, Windows, Thresholds,
  \* bounds
  MaxObservations,    \* prices in one average
  MaxLoans

ASSUME OracleAssumption ==
  /\ NotSet \notin Seq(Oracles)
  /\ MaxOracles \in Nat \ {0} /\ ArraySize \in Nat /\ MaxOracles <= ArraySize
  /\ MaxPrice \in Nat
  /\ DefaultWindow \in Nat \ {0} /\ DefaultStale \in Nat \ {0}
  /\ Prices \subseteq Int /\ Quorums \subseteq Nat
  /\ Windows \subseteq Nat /\ Thresholds \subseteq Nat
  /\ MaxObservations \in Nat \ {0} /\ MaxLoans \in Nat

VARIABLES
  oracle,      \* ORACLE, the only account submit_price accepts
  oracles,     \* ORACLES, or NotSet
  minQuorum,   \* MIN_QUORUM
  price,       \* LAST_PRICE and LAST_PRICE_TIME
  twap,        \* TWAP_SUM, TWAP_COUNT and TWAP_PRICE
  window,      \* TWAP_WINDOW
  stale,       \* STALE_THR, read by the view health_factor alone
  loans,       \* by id: is the loan Active; history: was it opened while no
               \* oracle was registered
  averaged     \* history: the observations behind twap, oldest first

registryVars == <<oracle, oracles, minQuorum>>
priceVars == <<price, twap, averaged>>
vars == <<now, pauseVars, registryVars, priceVars, window, stale, loans>>

OracleTypeOK ==
  /\ PausableTypeOK
  /\ oracle \in Oracles
  /\ oracles = NotSet \/ oracles \in Seq(Oracles)
  /\ minQuorum \in Nat
  /\ price \in [last : Nat, time : Nat]
  /\ twap \in [sum : Nat, count : Nat, price : Nat]
  /\ window \in Nat \ {0} /\ stale \in Nat \ {0}
  /\ loans \in Seq([active : BOOLEAN, bare : BOOLEAN])
  /\ averaged \in Seq([price : Nat, at : Nat])

-----------------------------------------------------------------------------
(* The median: a sort by exchanges, then the middle or the mean of two.    *)

Exchange(a, i, j) ==
  IF a[i] > a[j] THEN [a EXCEPT ![i] = a[j], ![j] = a[i]] ELSE a

\* Mutant: the inner loop compares one neighbour only.
SortedOnce(prices) ==
  FoldLeft(LAMBDA a, i : Exchange(a, i, i + 1), prices,
           [k \in 1 .. Len(prices) - 1 |-> k])

Sorted(prices) ==
  FoldLeft(LAMBDA a, i :
             FoldLeft(LAMBDA b, j : Exchange(b, i, j), a,
                      [k \in 1 .. Len(prices) - i |-> i + k]),
           prices, [k \in DOMAIN prices |-> k])

Median(prices) ==
  LET s == Sorted(prices)
      n == Len(prices)
  IN  IF n % 2 = 1 THEN s[(n \div 2) + 1]
      ELSE (s[n \div 2] + s[(n \div 2) + 1]) \div 2

-----------------------------------------------------------------------------
(* Reading the storage.                                                    *)

\* get_oracles falls back on the legacy oracle until a list is stored.
Registered == IF oracles = NotSet THEN <<oracle>> ELSE oracles

LoansOpenButNewest ==                \* mutant: the loop stops one loan early
  \E i \in 1 .. Len(loans) - 1 : loans[i].active
LoansOpen == \E i \in DOMAIN loans : loans[i].active

\* The average starts anew when the last price, of either kind, is older than
\* the window.
Expired == price.time = 0 \/ now - price.time > window

Accumulated(p) ==
  IF Expired THEN [sum |-> p, count |-> 1]
  ELSE [sum |-> twap.sum + p, count |-> twap.count + 1]

-----------------------------------------------------------------------------
Init ==
  /\ PausableInit
  /\ oracle \in Oracles
  /\ oracles = NotSet
  /\ minQuorum \in Quorums
  /\ price = [last |-> 0, time |-> now]
  /\ twap = [sum |-> 0, count |-> 0, price |-> 0]
  /\ window = DefaultWindow /\ stale = DefaultStale
  /\ loans = <<>> /\ averaged = <<>>

(* The registry.                                                           *)

CanRegister(o) ==
  ~Contains(Registered, o) /\ Len(Registered) < MaxOracles

AddOracle(o) ==
  /\ ~IsPaused
  /\ CanRegister(o)
  /\ oracles' = Append(Registered, o)
  /\ UNCHANGED <<now, pauseVars, oracle, minQuorum, priceVars, window, stale, loans>>

RemoveOracle(k) ==
  /\ Len(Registered) = 1 => ~LoansOpen
  /\ oracles' = RemoveAt(Registered, k)
  /\ UNCHANGED <<now, pauseVars, oracle, minQuorum, priceVars, window, stale, loans>>

\* The stored list is not touched; a quorum of 0 keeps the old one.
UpdateOracle(o, quorum) ==
  /\ oracle' = o
  /\ minQuorum' = IF quorum > 0 THEN quorum ELSE minQuorum
  /\ UNCHANGED <<now, pauseVars, oracles, priceVars, window, stale, loans>>

-----------------------------------------------------------------------------
(* Prices.                                                                 *)

\* One account submits a price for each oracle; a price that is not positive
\* is an error, so the responses are all of them.  With no oracle and no
\* quorum the median of nothing panics.
SubmitOraclePrices(prices) ==
  /\ prices # <<>>
  /\ \A k \in DOMAIN prices : prices[k] > 0 /\ prices[k] < MaxPrice
  /\ Len(prices) >= minQuorum
  /\ price' = [last |-> Median(prices), time |-> now]
  /\ UNCHANGED <<now, pauseVars, registryVars, twap, averaged, window, stale, loans>>

SubmitPrice(p) ==
  LET acc == Accumulated(p)
  IN
  /\ p > 0
  /\ acc.count <= MaxObservations
  /\ price' = [last |-> p, time |-> now]
  /\ twap' = [sum |-> acc.sum, count |-> acc.count, price |-> acc.sum \div acc.count]
  /\ averaged' = Append(IF Expired THEN <<>> ELSE averaged, [price |-> p, at |-> now])
  /\ UNCHANGED <<now, pauseVars, registryVars, window, stale, loans>>

SetTwapWindow(w) ==
  /\ w # 0
  /\ window' = w
  /\ UNCHANGED <<now, pauseVars, registryVars, priceVars, stale, loans>>

SetStalenessThreshold(thr) ==
  /\ ~IsPaused
  /\ thr # 0
  /\ stale' = thr
  /\ UNCHANGED <<now, pauseVars, registryVars, priceVars, window, loans>>

-----------------------------------------------------------------------------
(* Loans; request_loan reads no oracle.                                    *)

OpenLoan ==
  /\ ~IsPaused
  /\ Len(loans) < MaxLoans
  /\ loans' = Append(loans, [active |-> TRUE, bare |-> Registered = <<>>])
  /\ UNCHANGED <<now, pauseVars, registryVars, priceVars, window, stale>>

\* repay_loan or liquidate.
CloseLoan(i) ==
  /\ loans[i].active
  /\ loans' = [loans EXCEPT ![i].active = FALSE]
  /\ UNCHANGED <<now, pauseVars, registryVars, priceVars, window, stale>>

-----------------------------------------------------------------------------
Registry ==
  \/ \E o \in Oracles : AddOracle(o)
  \/ \E k \in DOMAIN Registered : RemoveOracle(k)
  \/ \E o \in Oracles, q \in Quorums \cup {0} : UpdateOracle(o, q)

Feed ==
  \/ \E prices \in [DOMAIN Registered -> Prices] : SubmitOraclePrices(prices)
  \/ \E p \in Prices : SubmitPrice(p)
  \/ \E w \in Windows : SetTwapWindow(w)
  \/ \E thr \in Thresholds : SetStalenessThreshold(thr)

Lending == OpenLoan \/ \E i \in DOMAIN loans : CloseLoan(i)

Pausing ==
  /\ Pause \/ Unpause \/ \E d \in PauseDurations : SetPauseDuration(d)
  /\ UNCHANGED <<now, registryVars, priceVars, window, stale, loans>>

Time ==
  /\ CloseLedger
  /\ UNCHANGED <<pauseVars, registryVars, priceVars, window, stale, loans>>

Next == Registry \/ Feed \/ Lending \/ Pausing \/ Time

Spec == Init /\ [][Next]_vars

-----------------------------------------------------------------------------
(* Properties.                                                             *)

\* No oracle is counted twice and the list, hence the array, does not overflow
\* through every mix of additions, removals, replacements of the legacy
\* oracle and the fallback on it.
RegistrySound ==
  /\ IsInjective(Registered)
  /\ Len(Registered) <= MaxOracles

\* The numbers of prices of which no minority can move the median out of the
\* range of the others; 1 .. n has every order and every tie of n prices.
RobustLengths ==
  {n \in 1 .. ArraySize : \A prices \in [1 .. n -> 1 .. n] :
     \A bad \in SUBSET (1 .. n) :
       2 * Cardinality(bad) < n =>
         LET others == {prices[k] : k \in (1 .. n) \ bad}
         IN  /\ \E p \in others : p <= Median(prices)
             /\ \E p \in others : Median(prices) <= p}

\* ADR-006: no minority of the submitted prices can move the recorded price
\* out of the range of the others, with the oracles registered now and with
\* as many as the array has room for.
MinorityCannotMovePrice ==
  \A n \in Len(Registered) .. ArraySize : n > 0 => n \in RobustLengths

\* submit_oracle_prices records a price between two of any majority of those
\* it was given, whatever the rest of them are.
RecordedPriceHeld ==
  [][\A prices \in [DOMAIN Registered -> Prices], bad \in SUBSET DOMAIN Registered :
       SubmitOraclePrices(prices) /\ 2 * Cardinality(bad) < Len(prices) =>
         /\ \E k \in DOMAIN prices \ bad : prices[k] <= price'.last
         /\ \E k \in DOMAIN prices \ bad : price'.last <= prices[k]]_vars

\* The average lies within the prices it is made of, although its sum and its
\* count are stored apart and restart on a time that both feeds write.
TwapWithinObservations ==
  averaged # <<>> =>
    /\ \E k \in DOMAIN averaged : averaged[k].price <= twap.price
    /\ \E k \in DOMAIN averaged : twap.price <= averaged[k].price

\* If no oracle is left while a loan is open, that loan was opened when there
\* was none: the last oracle is not taken from a loan that started with one.
OracleForOpenLoans ==
  Registered = <<>> =>
    \A i \in DOMAIN loans : loans[i].active => loans[i].bare
=============================================================================

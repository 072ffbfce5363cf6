---------------------------- MODULE OracleProofs ----------------------------
(***************************************************************************)
(* Safety of Oracle for every set of oracles, every limit and every price. *)
(* The parts are the registry, the last oracle, the average, the median    *)
(* that submit_oracle_prices records, and the types they leave.            *)
(***************************************************************************)
EXTENDS Oracle, Arithmetic, TLAPS

-----------------------------------------------------------------------------
(* The registry.                                                           *)

\* The part of OracleTypeOK the registry needs.
RegistryType ==
  /\ oracle \in Oracles
  /\ oracles = NotSet \/ oracles \in Seq(Oracles)

RegistryInv == RegistryType /\ RegistrySound

\* The fallback of get_oracles is a list of oracles too.
LEMMA RegisteredType ==
  ASSUME RegistryType
  PROVE  Registered \in Seq(Oracles)
BY DEF RegistryType, Registered

\* A list without one element keeps its type, loses one and repeats none.
LEMMA RemoveAtSound ==
  ASSUME NEW S, NEW s \in Seq(S), IsInjective(s), NEW k \in DOMAIN s
  PROVE  /\ RemoveAt(s, k) \in Seq(S)
         /\ Len(RemoveAt(s, k)) = Len(s) - 1
         /\ IsInjective(RemoveAt(s, k))
<1>. DEFINE r == RemoveAt(s, k)
            at(i) == IF i < k THEN i ELSE i + 1
<1>1. k \in 1 .. Len(s) /\ Len(s) \in Nat
  OBVIOUS
<1>2. /\ SubSeq(s, 1, k - 1) \in Seq(S) /\ Len(SubSeq(s, 1, k - 1)) = k - 1
      /\ SubSeq(s, k + 1, Len(s)) \in Seq(S)
      /\ Len(SubSeq(s, k + 1, Len(s))) = Len(s) - k
  BY <1>1
<1>3. /\ \A i \in 1 .. k - 1 : SubSeq(s, 1, k - 1)[i] = s[i]
      /\ \A i \in 1 .. Len(s) - k : SubSeq(s, k + 1, Len(s))[i] = s[k + i]
  BY <1>1
<1>4. /\ r \in Seq(S) /\ Len(r) = Len(s) - 1
      /\ \A i \in 1 .. Len(s) - 1 : r[i] = s[at(i)] /\ at(i) \in DOMAIN s
  <2>. DEFINE a == SubSeq(s, 1, k - 1)
              b == SubSeq(s, k + 1, Len(s))
  <2>1. r = a \o b
    BY DEF RemoveAt
  <2>2. /\ a \in Seq(S) /\ Len(a) = k - 1
        /\ b \in Seq(S) /\ Len(b) = Len(s) - k
        /\ \A i \in 1 .. k - 1 : a[i] = s[i]
        /\ \A i \in 1 .. Len(s) - k : b[i] = s[k + i]
    BY <1>2, <1>3
  <2>. HIDE DEF a, b, r
  <2>3. r \in Seq(S) /\ Len(r) = Len(s) - 1
    BY <1>1, <2>1, <2>2
  <2>4. ASSUME NEW i \in 1 .. Len(s) - 1
        PROVE  r[i] = s[at(i)] /\ at(i) \in DOMAIN s
    <3>1. CASE i < k
      BY <1>1, <2>1, <2>2, <3>1
    <3>2. CASE i >= k
      <4>1. r[i] = b[i - (k - 1)] /\ i - (k - 1) \in 1 .. Len(s) - k
        BY <1>1, <2>1, <2>2, <3>2, SMTT(20)
      <4>2. k + (i - (k - 1)) = i + 1
        BY <1>1
      <4>. QED
        BY <1>1, <2>2, <3>2, <4>1, <4>2, SMTT(20)
    <3>. QED
      BY <1>1, <3>1, <3>2
  <2>. QED
    BY <2>3, <2>4
<1>5. \A i, j \in 1 .. Len(s) - 1 : r[i] = r[j] => at(i) = at(j)
  BY <1>4 DEF IsInjective
<1>6. \A i, j \in 1 .. Len(s) - 1 : at(i) = at(j) => i = j
  BY <1>1
<1>7. DOMAIN r = 1 .. Len(s) - 1
  BY <1>4
<1>8. IsInjective(r)
  BY <1>5, <1>6, <1>7 DEF IsInjective
<1>. QED
  BY <1>4, <1>8

\* A list with a new element at its end repeats none.
LEMMA AppendSound ==
  ASSUME NEW S, NEW s \in Seq(S), IsInjective(s), NEW e \in S, ~Contains(s, e)
  PROVE  /\ Append(s, e) \in Seq(S)
         /\ Len(Append(s, e)) = Len(s) + 1
         /\ IsInjective(Append(s, e))
BY DEF IsInjective, Contains

\* A stored list is the registry; no list of oracles is the missing entry.
LEMMA StoredList ==
  ASSUME oracles' \in Seq(Oracles)
  PROVE  Registered' = oracles'
BY OracleAssumption DEF Registered

LEMMA RegistryInit == Init => RegistryInv
<1>. SUFFICES ASSUME Init PROVE RegistryInv
  OBVIOUS
<1>1. RegistryType /\ Registered = <<oracle>>
  BY DEF Init, RegistryType, Registered
<1>2. IsInjective(<<oracle>>) /\ Len(<<oracle>>) <= MaxOracles
  BY OracleAssumption DEF IsInjective
<1>. QED
  BY <1>1, <1>2 DEF RegistryInv, RegistrySound

LEMMA RegistryStep == RegistryInv /\ [Next]_vars => RegistryInv'
<1>. SUFFICES ASSUME RegistryInv, [Next]_vars PROVE RegistryInv'
  OBVIOUS
<1>1. /\ Registered \in Seq(Oracles)
      /\ IsInjective(Registered) /\ Len(Registered) <= MaxOracles
      /\ oracle \in Oracles
  BY RegisteredType DEF RegistryInv, RegistryType, RegistrySound
<1>2. ASSUME NEW o \in Oracles, AddOracle(o)
      PROVE  RegistryInv'
  <2>1. /\ oracles' = Append(Registered, o) /\ oracle' = oracle
        /\ ~Contains(Registered, o) /\ Len(Registered) < MaxOracles
    BY <1>2 DEF AddOracle, CanRegister
  <2>2. /\ oracles' \in Seq(Oracles) /\ IsInjective(oracles')
        /\ Len(oracles') = Len(Registered) + 1
    BY <1>1, <2>1, AppendSound
  <2>3. Len(oracles') <= MaxOracles
    BY <1>1, <2>1, <2>2, OracleAssumption
  <2>. QED
    BY <1>1, <2>1, <2>2, <2>3, StoredList DEF RegistryInv, RegistryType, RegistrySound
<1>3. ASSUME NEW k \in DOMAIN Registered, RemoveOracle(k)
      PROVE  RegistryInv'
  <2>1. oracles' = RemoveAt(Registered, k) /\ oracle' = oracle
    BY <1>3 DEF RemoveOracle
  <2>2. /\ oracles' \in Seq(Oracles) /\ IsInjective(oracles')
        /\ Len(oracles') = Len(Registered) - 1
    BY <1>1, <2>1, RemoveAtSound
  <2>3. Len(oracles') <= MaxOracles
    BY <1>1, <2>2, OracleAssumption
  <2>. QED
    BY <1>1, <2>1, <2>2, <2>3, StoredList DEF RegistryInv, RegistryType, RegistrySound
<1>4. ASSUME NEW o \in Oracles, NEW q, UpdateOracle(o, q)
      PROVE  RegistryInv'
  <2>1. oracle' = o /\ oracles' = oracles
    BY <1>4 DEF UpdateOracle
  <2>2. CASE oracles = NotSet
    <3>1. RegistryType' /\ Registered' = <<o>>
      BY <2>1, <2>2 DEF RegistryType, Registered
    <3>2. IsInjective(<<o>>) /\ Len(<<o>>) <= MaxOracles
      BY OracleAssumption DEF IsInjective
    <3>. QED
      BY <3>1, <3>2 DEF RegistryInv, RegistrySound
  <2>3. CASE oracles # NotSet
    <3>1. RegistryType' /\ Registered' = Registered
      BY <2>1, <2>3 DEF RegistryInv, RegistryType, Registered
    <3>. QED
      BY <1>1, <3>1 DEF RegistryInv, RegistrySound
  <2>. QED
    BY <2>2, <2>3
<1>5. ASSUME UNCHANGED <<oracle, oracles>>
      PROVE  RegistryInv'
  BY <1>5 DEF RegistryInv, RegistryType, RegistrySound, Registered
<1>6. CASE Registry
  BY <1>2, <1>3, <1>4, <1>6 DEF Registry
<1>7. CASE Feed \/ Lending \/ Pausing \/ Time \/ UNCHANGED vars
  <2>1. UNCHANGED <<oracle, oracles>>
    BY <1>7 DEF Feed, Lending, Pausing, Time, vars, registryVars,
                SubmitOraclePrices, SubmitPrice, SetTwapWindow,
                SetStalenessThreshold, OpenLoan, CloseLoan
  <2>. QED
    BY <1>5, <2>1
<1>. QED
  BY <1>6, <1>7 DEF Next

\* Through every mix of additions, removals, replacements of the legacy oracle
\* and the fallback on it, no oracle is counted twice and the list fits the
\* array submit_oracle_prices sorts (add_oracle, remove_oracle, get_oracles).
THEOREM RegistryStaysSound == Spec => []RegistrySound
<1>1. RegistryInv => RegistrySound
  BY DEF RegistryInv
<1>. QED
  BY RegistryInit, RegistryStep, <1>1, PTL DEF Spec

-----------------------------------------------------------------------------
(* The last oracle.                                                        *)

LoansType == loans \in Seq([active : BOOLEAN, bare : BOOLEAN])

LastOracleInv == RegistryInv /\ LoansType /\ OracleForOpenLoans

LEMMA LastOracleInit == Init => LastOracleInv
<1>. SUFFICES ASSUME Init PROVE LastOracleInv
  OBVIOUS
<1>1. LoansType /\ OracleForOpenLoans
  BY DEF Init, LoansType, OracleForOpenLoans
<1>. QED
  BY <1>1, RegistryInit DEF LastOracleInv

LEMMA LastOracleStep == LastOracleInv /\ [Next]_vars => LastOracleInv'
<1>. SUFFICES ASSUME LastOracleInv, [Next]_vars PROVE LastOracleInv'
  OBVIOUS
<1>1. RegistryInv /\ RegistryInv' /\ LoansType /\ OracleForOpenLoans
  BY RegistryStep DEF LastOracleInv
<1>2. Registered \in Seq(Oracles)
  BY <1>1, RegisteredType DEF RegistryInv
<1>3. ASSUME NEW o \in Oracles, AddOracle(o)
      PROVE  LastOracleInv'
  <2>1. oracles' = Append(Registered, o) /\ loans' = loans
    BY <1>3 DEF AddOracle
  <2>2. oracles' \in Seq(Oracles) /\ oracles' # <<>>
    BY <1>2, <2>1
  <2>. QED
    BY <1>1, <2>1, <2>2, StoredList DEF LastOracleInv, LoansType, OracleForOpenLoans
<1>4. ASSUME NEW k \in DOMAIN Registered, RemoveOracle(k)
      PROVE  LastOracleInv'
  <2>1. /\ oracles' = RemoveAt(Registered, k) /\ loans' = loans
        /\ Len(Registered) = 1 => ~LoansOpen
    BY <1>4 DEF RemoveOracle
  <2>2. /\ oracles' \in Seq(Oracles)
        /\ Len(oracles') = Len(Registered) - 1
    BY <1>1, <1>2, <2>1, RemoveAtSound DEF RegistryInv, RegistrySound
  <2>3. oracles' = <<>> => ~LoansOpen
    BY <1>2, <2>1, <2>2
  <2>4. OracleForOpenLoans'
    BY <2>1, <2>2, <2>3, StoredList DEF OracleForOpenLoans, LoansOpen
  <2>. QED
    BY <1>1, <2>1, <2>4 DEF LastOracleInv, LoansType
<1>5. ASSUME NEW o \in Oracles, NEW q, UpdateOracle(o, q)
      PROVE  LastOracleInv'
  <2>1. oracles' = oracles /\ oracle' = o /\ loans' = loans
    BY <1>5 DEF UpdateOracle
  <2>2. Registered' = <<>> => Registered = <<>>
    BY <2>1 DEF Registered
  <2>. QED
    BY <1>1, <2>1, <2>2 DEF LastOracleInv, LoansType, OracleForOpenLoans
<1>6. CASE OpenLoan
  <2>1. /\ oracles' = oracles /\ oracle' = oracle
        /\ loans' = Append(loans, [active |-> TRUE, bare |-> Registered = <<>>])
    BY <1>6 DEF OpenLoan, registryVars
  <2>2. Registered' = Registered
    BY <2>1 DEF Registered
  <2>3. (Registered = <<>>) \in BOOLEAN
    OBVIOUS
  <2>4. LoansType'
    BY <1>1, <2>1, <2>3 DEF LoansType
  <2>5. OracleForOpenLoans'
    <3>. SUFFICES ASSUME Registered = <<>>, NEW i \in DOMAIN loans', loans'[i].active
                  PROVE  loans'[i].bare
      BY <2>2 DEF OracleForOpenLoans
    <3>1. CASE i = Len(loans) + 1
      <4>1. loans'[i] = [active |-> TRUE, bare |-> Registered = <<>>]
        BY <1>1, <2>1, <3>1 DEF LoansType
      <4>2. loans'[i].bare = (Registered = <<>>)
        BY <4>1
      <4>. QED
        BY <4>2
    <3>2. CASE i # Len(loans) + 1
      BY <1>1, <2>1, <3>2 DEF LoansType, OracleForOpenLoans
    <3>. QED
      BY <3>1, <3>2
  <2>. QED
    BY <1>1, <2>4, <2>5 DEF LastOracleInv
<1>7. ASSUME NEW i \in DOMAIN loans, CloseLoan(i)
      PROVE  LastOracleInv'
  <2>1. /\ oracles' = oracles /\ oracle' = oracle
        /\ loans' = [loans EXCEPT ![i].active = FALSE]
    BY <1>7 DEF CloseLoan, registryVars
  <2>2. Registered' = Registered
    BY <2>1 DEF Registered
  <2>3. LoansType'
    <3>. DEFINE closed == [loans[i] EXCEPT !.active = FALSE]
    <3>1. loans[i] \in [active : BOOLEAN, bare : BOOLEAN] /\ i \in 1 .. Len(loans)
      <4>. DEFINE R == [active : BOOLEAN, bare : BOOLEAN]
      <4>1. loans \in Seq(R)
        BY <1>1 DEF LoansType
      <4>. HIDE DEF R
      <4>2. loans[i] \in R /\ i \in 1 .. Len(loans)
        BY <4>1
      <4>. QED
        BY <4>2 DEF R
    <3>2. closed \in [active : BOOLEAN, bare : BOOLEAN]
      BY <3>1, Zenon
    <3>3. loans' = [loans EXCEPT ![i] = closed]
      BY <2>1
    <3>. HIDE DEF closed
    <3>. QED
      BY <1>1, <3>1, <3>2, <3>3 DEF LoansType
  <2>4. \A j \in DOMAIN loans' :
          j \in DOMAIN loans /\ loans'[j].bare = loans[j].bare
          /\ (loans'[j].active => loans[j].active)
    BY <1>1, <2>1 DEF LoansType
  <2>. QED
    BY <1>1, <2>2, <2>3, <2>4 DEF LastOracleInv, OracleForOpenLoans
<1>8. CASE Registry
  BY <1>3, <1>4, <1>5, <1>8 DEF Registry
<1>9. CASE Lending
  BY <1>6, <1>7, <1>9 DEF Lending
<1>10. CASE Feed \/ Pausing \/ Time \/ UNCHANGED vars
  <2>1. UNCHANGED <<oracle, oracles, loans>>
    BY <1>10 DEF Feed, Pausing, Time, vars, registryVars, SubmitOraclePrices,
                 SubmitPrice, SetTwapWindow, SetStalenessThreshold
  <2>2. Registered' = Registered
    BY <2>1 DEF Registered
  <2>. QED
    BY <1>1, <2>1, <2>2 DEF LastOracleInv, LoansType, OracleForOpenLoans
<1>. QED
  BY <1>8, <1>9, <1>10 DEF Next

\* The last oracle is not taken from an open loan that started with one: if
\* none is left, every open loan was requested when there was none
\* (remove_oracle's guard; request_loan has none).
THEOREM LastOracleStays == Spec => []OracleForOpenLoans
<1>1. LastOracleInv => OracleForOpenLoans
  BY DEF LastOracleInv
<1>. QED
  BY LastOracleInit, LastOracleStep, <1>1, PTL DEF Spec

-----------------------------------------------------------------------------
(* The average.  That its price lies within the observations is not        *)
(* inductive: what is kept is that the sum lies between count times the    *)
(* lowest and count times the highest of them.                             *)

AverageType ==
  /\ twap.sum \in Nat /\ twap.count \in Nat
  /\ averaged \in Seq([price : Nat, at : Nat])
  /\ now \in Nat

SumWithinObservations ==
  /\ averaged = <<>> => twap.sum = 0 /\ twap.count = 0
  /\ averaged # <<>> =>
       /\ twap.count > 0 /\ twap.price = twap.sum \div twap.count
       /\ \E k \in DOMAIN averaged : averaged[k].price * twap.count <= twap.sum
       /\ \E k \in DOMAIN averaged : twap.sum <= averaged[k].price * twap.count

AverageInv == AverageType /\ SumWithinObservations

\* One more price keeps the sum between count times the extremes.
LEMMA ExtremeShift ==
  ASSUME NEW sum \in Nat, NEW c \in Nat, NEW p \in Nat, NEW x \in Nat
  PROVE  /\ x * c <= sum /\ p >= x => x * (c + 1) <= sum + p
         /\ x * c <= sum /\ p <= x => p * (c + 1) <= sum + p
         /\ sum <= x * c /\ p <= x => sum + p <= x * (c + 1)
         /\ sum <= x * c /\ p >= x => sum + p <= p * (c + 1)
<1>1. x * (c + 1) = x * c + x /\ p * (c + 1) = p * c + p
  OBVIOUS
<1>2. p <= x => p * c <= x * c
  OBVIOUS
<1>3. p >= x => x * c <= p * c
  OBVIOUS
<1>4. x * c \in Nat /\ p * c \in Nat
  OBVIOUS
<1>. QED
  BY <1>1, <1>2, <1>3, <1>4

\* A quotient lies between a lower and an upper bound of its dividend.
LEMMA QuotientBounds ==
  ASSUME NEW sum \in Nat, NEW c \in Nat \ {0}, NEW x \in Nat
  PROVE  /\ x * c <= sum => x <= sum \div c
         /\ sum <= x * c => sum \div c <= x
<1>. DEFINE q == sum \div c
<1>1. q \in Nat /\ sum = q * c + (sum % c) /\ sum % c \in 0 .. c - 1
  OBVIOUS
<1>. HIDE DEF q
<1>2. q < x => (q + 1) * c <= x * c
  BY <1>1
<1>3. x < q => (x + 1) * c <= q * c
  BY <1>1
<1>4. (q + 1) * c = q * c + c /\ (x + 1) * c = x * c + c
  BY <1>1
<1>5. q * c \in Nat /\ x * c \in Nat
  BY <1>1
<1>6. (x * c <= sum => x <= q) /\ (sum <= x * c => q <= x)
  BY <1>1, <1>2, <1>3, <1>4, <1>5
<1>. QED
  BY <1>6 DEF q

LEMMA AverageInit == Init => AverageInv
BY PausableAssumption
   DEF Init, PausableInit, AverageInv, AverageType, SumWithinObservations

LEMMA ObservedPrice ==
  ASSUME AverageType
  PROVE  \A k \in DOMAIN averaged : averaged[k].price \in Nat
<1>. DEFINE O == [price : Nat, at : Nat]
<1>1. averaged \in Seq(O) /\ \A o \in O : o.price \in Nat
  BY DEF AverageType
<1>. HIDE DEF O
<1>2. \A k \in DOMAIN averaged : averaged[k] \in O
  BY <1>1
<1>. QED
  BY <1>1, <1>2

LEMMA SubmitPriceAverage ==
  ASSUME AverageInv, NEW p \in Prices, SubmitPrice(p)
  PROVE  AverageInv'
<1>1. /\ p \in Nat /\ p > 0 /\ now \in Nat /\ now' = now
      /\ twap.sum \in Nat /\ twap.count \in Nat
      /\ averaged \in Seq([price : Nat, at : Nat])
  BY OracleAssumption DEF SubmitPrice, AverageInv, AverageType
<1>. DEFINE obs == [price |-> p, at |-> now]
<1>2. obs \in [price : Nat, at : Nat]
  BY <1>1
<1>3. CASE Expired
  <2>1. /\ averaged' = <<obs>>
        /\ twap' = [sum |-> p, count |-> 1, price |-> p \div 1]
    BY <1>3 DEF SubmitPrice, Accumulated
  <2>2. p \div 1 = p /\ p * 1 = p
    BY <1>1
  <2>3. averaged' \in Seq([price : Nat, at : Nat]) /\ averaged' # <<>>
        /\ 1 \in DOMAIN averaged' /\ averaged'[1].price = p
    BY <1>2, <2>1
  <2>. QED
    BY <1>1, <2>1, <2>2, <2>3 DEF AverageInv, AverageType, SumWithinObservations
<1>4. CASE ~Expired
  <2>. DEFINE sum == twap.sum
              c == twap.count
              n == Len(averaged) + 1
  <2>1. /\ averaged' = Append(averaged, obs)
        /\ twap' = [sum |-> sum + p, count |-> c + 1, price |-> (sum + p) \div (c + 1)]
    BY <1>4 DEF SubmitPrice, Accumulated
  <2>2. /\ averaged' \in Seq([price : Nat, at : Nat]) /\ averaged' # <<>>
        /\ n \in DOMAIN averaged' /\ averaged'[n].price = p
        /\ \A k \in DOMAIN averaged : k \in DOMAIN averaged' /\ averaged'[k] = averaged[k]
    BY <1>1, <1>2, <2>1, SMTT(20)
  <2>3. /\ \A k \in DOMAIN averaged : averaged[k].price \in Nat
        /\ averaged = <<>> => sum = 0 /\ c = 0
        /\ averaged # <<>> =>
             /\ \E k \in DOMAIN averaged : averaged[k].price * c <= sum
             /\ \E k \in DOMAIN averaged : sum <= averaged[k].price * c
    BY ObservedPrice DEF AverageInv, SumWithinObservations
  <2>. HIDE DEF sum, c, n
  <2>4. sum \in Nat /\ c \in Nat
    BY <1>1 DEF sum, c
  <2>5. \E k \in DOMAIN averaged' : averaged'[k].price * (c + 1) <= sum + p
    <3>1. CASE averaged = <<>>
      BY <1>1, <2>2, <2>3, <3>1
    <3>2. CASE averaged # <<>>
      <4>1. PICK k \in DOMAIN averaged : averaged[k].price * c <= sum
        BY <2>3, <3>2
      <4>2. averaged[k].price \in Nat
        BY <2>3
      <4>3. \/ averaged[k].price * (c + 1) <= sum + p
            \/ p * (c + 1) <= sum + p
        <5>. DEFINE x == averaged[k].price
        <5>1. x \in Nat /\ x * c <= sum
          BY <4>1, <4>2
        <5>. HIDE DEF x
        <5>2. p >= x \/ p <= x
          BY <1>1, <5>1
        <5>3. \/ x * (c + 1) <= sum + p
              \/ p * (c + 1) <= sum + p
          BY <1>1, <2>4, <5>1, <5>2, ExtremeShift
        <5>. QED
          BY <5>3 DEF x
      <4>. QED
        BY <2>2, <4>1, <4>3
    <3>. QED
      BY <3>1, <3>2
  <2>6. \E k \in DOMAIN averaged' : sum + p <= averaged'[k].price * (c + 1)
    <3>1. CASE averaged = <<>>
      BY <1>1, <2>2, <2>3, <3>1
    <3>2. CASE averaged # <<>>
      <4>1. PICK k \in DOMAIN averaged : sum <= averaged[k].price * c
        BY <2>3, <3>2
      <4>2. averaged[k].price \in Nat
        BY <2>3
      <4>3. \/ sum + p <= averaged[k].price * (c + 1)
            \/ sum + p <= p * (c + 1)
        <5>. DEFINE x == averaged[k].price
        <5>1. x \in Nat /\ sum <= x * c
          BY <4>1, <4>2
        <5>. HIDE DEF x
        <5>2. p >= x \/ p <= x
          BY <1>1, <5>1
        <5>3. \/ sum + p <= x * (c + 1)
              \/ sum + p <= p * (c + 1)
          BY <1>1, <2>4, <5>1, <5>2, ExtremeShift
        <5>. QED
          BY <5>3 DEF x
      <4>. QED
        BY <2>2, <4>1, <4>3
    <3>. QED
      BY <3>1, <3>2
  <2>7. sum + p \in Nat /\ c + 1 \in Nat /\ c + 1 > 0
    BY <1>1, <2>4
  <2>. QED
    BY <1>1, <2>1, <2>2, <2>5, <2>6, <2>7 DEF AverageInv, AverageType, SumWithinObservations
<1>. QED
  BY <1>3, <1>4

LEMMA AverageStep == AverageInv /\ [Next]_vars => AverageInv'
<1>. SUFFICES ASSUME AverageInv, [Next]_vars PROVE AverageInv'
  OBVIOUS
<1>1. CASE \E p \in Prices : SubmitPrice(p)
  BY <1>1, SubmitPriceAverage
<1>2. CASE ~ \E p \in Prices : SubmitPrice(p)
  <2>1. UNCHANGED <<twap, averaged>> /\ (now' = now \/ now' = now + 1)
    BY <1>2 DEF Next, Registry, Feed, Lending, Pausing, Time, vars, priceVars,
                AddOracle, RemoveOracle, UpdateOracle, SubmitOraclePrices,
                SetTwapWindow, SetStalenessThreshold, OpenLoan, CloseLoan,
                CloseLedger
  <2>. QED
    BY <2>1 DEF AverageInv, AverageType, SumWithinObservations
<1>. QED
  BY <1>1, <1>2

LEMMA AverageBounded == AverageInv => TwapWithinObservations
<1>. SUFFICES ASSUME AverageInv, averaged # <<>>
              PROVE  /\ \E k \in DOMAIN averaged : averaged[k].price <= twap.price
                     /\ \E k \in DOMAIN averaged : twap.price <= averaged[k].price
  BY DEF TwapWithinObservations
<1>1. /\ twap.sum \in Nat /\ twap.count \in Nat \ {0}
      /\ twap.price = twap.sum \div twap.count
      /\ \A k \in DOMAIN averaged : averaged[k].price \in Nat
  BY ObservedPrice DEF AverageInv, AverageType, SumWithinObservations
<1>2. PICK k \in DOMAIN averaged : averaged[k].price * twap.count <= twap.sum
  BY DEF AverageInv, SumWithinObservations
<1>3. PICK j \in DOMAIN averaged : twap.sum <= averaged[j].price * twap.count
  BY DEF AverageInv, SumWithinObservations
<1>4. averaged[k].price <= twap.price
  BY <1>1, <1>2, QuotientBounds
<1>5. twap.price <= averaged[j].price
  BY <1>1, <1>3, QuotientBounds
<1>. QED
  BY <1>4, <1>5

\* The average of submit_price lies within the prices it is made of, whatever
\* the window and however aggregated prices move the time it restarts on.
THEOREM AverageWithinObservations == Spec => []TwapWithinObservations
BY AverageInit, AverageStep, AverageBounded, PTL DEF Spec

-----------------------------------------------------------------------------
(* The median.  FoldLeft is a function chosen by its equation over sets of *)
(* indices, of which the last is taken first.  That the function exists is *)
(* shown for operations given as a function w; what a fold computes is     *)
(* then an induction over the initial segments 1 .. k.                     *)

LEMMA MaxOfSet ==
  ASSUME NEW n \in Nat, NEW s \in SUBSET (1 .. n), s # {}
  PROVE  Max(s) \in s /\ \A y \in s : Max(s) >= y
<1>1. \E x \in s : \A y \in s : x >= y
  <2>1. s \in SUBSET (0 .. n)
    OBVIOUS
  <2>. QED
    BY <2>1, GreatestExists
<1>. QED
  BY <1>1 DEF Max

LEMMA MaxIsLast ==
  ASSUME NEW n \in Nat, NEW s \in SUBSET (1 .. n), NEW x \in s, \A y \in s : x >= y
  PROVE  Max(s) = x
<1>1. Max(s) \in s /\ Max(s) >= x /\ x >= Max(s)
  BY MaxOfSet
<1>2. \A y \in s : y \in Int
  OBVIOUS
<1>3. Max(s) \in Int /\ x \in Int
  BY <1>1, <1>2
<1>4. ASSUME NEW m \in Int, m >= x, x >= m
      PROVE  m = x
  BY <1>3, <1>4
<1>. QED
  BY <1>1, <1>3, <1>4

\* The last of an initial segment.
LEMMA SegmentMax ==
  ASSUME NEW n \in Nat, NEW k \in 1 .. n
  PROVE  /\ 1 .. k \in SUBSET (1 .. n) /\ (1 .. k) # {}
         /\ Max(1 .. k) = k /\ (1 .. k) \ {Max(1 .. k)} = 1 .. k - 1
<1>1. /\ 1 .. k \in SUBSET (1 .. n) /\ k \in 1 .. k /\ (1 .. k) # {}
      /\ (1 .. k) \ {k} = 1 .. k - 1 /\ \A y \in 1 .. k : k >= y
  OBVIOUS
<1>2. Max(1 .. k) = k
  BY <1>1, MaxIsLast
<1>. QED
  BY <1>1, <1>2

LeftStep(w, base, seq, it, s) ==
  IF s = {} THEN base ELSE w[it[s \ {Max(s)}]][seq[Max(s)]]

\* it has, for every set of the first n indices, the fold of the values there.
FoldsTo(it, n, A, w, base, seq) ==
  /\ it \in [SUBSET (1 .. n) -> A]
  /\ \A s \in SUBSET (1 .. n) : it[s] = LeftStep(w, base, seq, it, s)

LEMMA LeftFoldExists ==
  ASSUME NEW n \in Nat, NEW A, NEW J, NEW base \in A, NEW w \in [A -> [J -> A]],
         NEW seq, \A k \in 1 .. n : seq[k] \in J
  PROVE  \E it : FoldsTo(it, n, A, w, base, seq)
<1>. DEFINE Good(k, it) == \A s \in SUBSET (1 .. k) : it[s] = LeftStep(w, base, seq, it, s)
            G == {k \in 0 .. n : \E it \in [SUBSET (1 .. k) -> A] : Good(k, it)}
<1>1. 0 \in G
  <2>. DEFINE it == [s \in SUBSET (1 .. 0) |-> base]
  <2>1. it \in [SUBSET (1 .. 0) -> A]
    OBVIOUS
  <2>2. \A s \in SUBSET (1 .. 0) : s = {} /\ it[s] = base
    OBVIOUS
  <2>. HIDE DEF it
  <2>3. Good(0, it)
    BY <2>2 DEF LeftStep
  <2>4. 0 \in 0 .. n
    OBVIOUS
  <2>. HIDE DEF Good
  <2>. QED
    BY <2>1, <2>3, <2>4
<1>2. ASSUME NEW k \in 0 .. n - 1, k \in G
      PROVE  k + 1 \in G
  <2>1. PICK it \in [SUBSET (1 .. k) -> A] : Good(k, it)
    BY <1>2
  <2>. DEFINE P == SUBSET (1 .. k)
              Q == SUBSET (1 .. k + 1)
              more == [s \in Q |->
                IF k + 1 \in s THEN w[it[s \ {k + 1}]][seq[k + 1]] ELSE it[s]]
  <2>2. /\ k \in Nat /\ k + 1 \in 1 .. n
        /\ \A s \in Q : k + 1 \notin s => s \in P
        /\ \A s \in Q : s \ {k + 1} \in P
        /\ \A s \in P : s \in Q /\ k + 1 \notin s
    <3>1. k \in Nat /\ k + 1 \in 1 .. n
      OBVIOUS
    <3>2. /\ k + 1 \notin 1 .. k /\ 1 .. k \subseteq 1 .. k + 1
          /\ \A y \in 1 .. k + 1 : y # k + 1 => y \in 1 .. k
      BY <3>1
    <3>. QED
      BY <3>1, <3>2
  <2>3. more \in [Q -> A]
    <3>1. ASSUME NEW s \in Q
          PROVE  (IF k + 1 \in s THEN w[it[s \ {k + 1}]][seq[k + 1]] ELSE it[s]) \in A
      <4>1. CASE k + 1 \in s
        <5>1. it[s \ {k + 1}] \in A /\ seq[k + 1] \in J
          BY <2>1, <2>2
        <5>. QED
          BY <4>1, <5>1
      <4>2. CASE k + 1 \notin s
        BY <2>1, <2>2, <4>2
      <4>. QED
        BY <4>1, <4>2
    <3>. QED
      BY <3>1
  <2>4. \A s \in P : more[s] = it[s]
    BY <2>2
  <2>5. ASSUME NEW s \in Q
        PROVE  more[s] = LeftStep(w, base, seq, more, s)
    <3>1. CASE k + 1 \in s
      <4>1. more[s] = w[it[s \ {k + 1}]][seq[k + 1]]
        BY <3>1
      <4>2. \A y \in s : k + 1 >= y
        BY <2>2
      <4>3. Max(s) = k + 1
        <5>1. k + 1 \in Nat /\ s \in SUBSET (1 .. k + 1)
          BY <2>2
        <5>. QED
          BY <3>1, <4>2, <5>1, MaxIsLast
      <4>4. more[s \ {k + 1}] = it[s \ {k + 1}]
        BY <2>2, <2>4
      <4>. HIDE DEF more
      <4>. QED
        BY <3>1, <4>1, <4>3, <4>4 DEF LeftStep
    <3>2. CASE k + 1 \notin s
      <4>1. s \in P /\ more[s] = it[s] /\ it[s] = LeftStep(w, base, seq, it, s)
        BY <2>1, <2>2, <2>4, <3>2
      <4>2. CASE s = {}
        BY <4>1, <4>2 DEF LeftStep
      <4>3. CASE s # {}
        <5>1. s \ {Max(s)} \in P
          BY <4>1
        <5>2. more[s \ {Max(s)}] = it[s \ {Max(s)}]
          BY <2>4, <5>1
        <5>. HIDE DEF more
        <5>. QED
          BY <4>1, <4>3, <5>2 DEF LeftStep
      <4>. QED
        BY <4>2, <4>3
    <3>. QED
      BY <3>1, <3>2
  <2>. HIDE DEF more
  <2>6. Good(k + 1, more)
    BY <2>5
  <2>7. k + 1 \in 0 .. n
    BY <2>2
  <2>. HIDE DEF Good
  <2>. QED
    BY <2>3, <2>6, <2>7
<1>. HIDE DEF G
<1>3. n \in G
  BY <1>1, <1>2, UpToInduction
<1>. QED
  BY <1>3 DEF G, FoldsTo

PriceLists(n) == [1 .. n -> Nat]

\* One run of the inner loop of the sort.
Pass(n, a, i) ==
  FoldLeft(LAMBDA b, j : Exchange(b, i, j), a, [k \in 1 .. n - i |-> i + k])

PassStep(a, i, seq, it, s) ==
  IF s = {} THEN a ELSE Exchange(it[s \ {Max(s)}], i, seq[Max(s)])

SortStep(n, prices, seq, it, s) ==
  IF s = {} THEN prices ELSE Pass(n, it[s \ {Max(s)}], seq[Max(s)])

LEMMA ExchangeType ==
  ASSUME NEW n \in Nat, NEW b \in PriceLists(n), NEW i \in 1 .. n, NEW j \in 1 .. n
  PROVE  /\ Exchange(b, i, j) \in PriceLists(n)
         /\ b[i] > b[j] => /\ Exchange(b, i, j)[i] = b[j]
                           /\ Exchange(b, i, j)[j] = b[i]
                           /\ \A p \in (1 .. n) \ {i, j} : Exchange(b, i, j)[p] = b[p]
         /\ ~(b[i] > b[j]) => Exchange(b, i, j) = b
  BY DEF Exchange, PriceLists

\* The fold of a pass, one exchange after the other.
LEMMA PassSegments ==
  ASSUME NEW n \in Nat, NEW a \in PriceLists(n), NEW i \in 1 .. n
  PROVE  \E g : /\ g[0] = a /\ g[n - i] = Pass(n, a, i)
                /\ \A k \in 0 .. n - i : g[k] \in PriceLists(n)
                /\ \A k \in 1 .. n - i : g[k] = Exchange(g[k - 1], i, i + k)
<1>. DEFINE m == n - i
            A == PriceLists(n)
            J == 1 .. n
            seq == [k \in 1 .. m |-> i + k]
            w == [b \in A |-> [j \in J |-> Exchange(b, i, j)]]
            Equation(f) == f = [s \in SUBSET (1 .. m) |-> PassStep(a, i, seq, f, s)]
            it == CHOOSE f : Equation(f)
            g == [k \in 0 .. m |-> it[1 .. k]]
<1>1. m \in Nat /\ \A k \in 1 .. m : seq[k] \in J /\ seq[k] = i + k
  OBVIOUS
<1>2. w \in [A -> [J -> A]] /\ \A b \in A, j \in J : w[b][j] = Exchange(b, i, j)
  BY ExchangeType
<1>3. Pass(n, a, i) = it[1 .. m]
  <2>1. DOMAIN seq = 1 .. m
    OBVIOUS
  <2>. HIDE DEF seq
  <2>2. FoldLeft(LAMBDA b, j : Exchange(b, i, j), a, seq)
          = (CHOOSE f : f = [s \in SUBSET (DOMAIN seq) |-> PassStep(a, i, seq, f, s)])[DOMAIN seq]
    BY DEF FoldLeft, MapThenFoldSet, PassStep
  <2>3. Pass(n, a, i) = FoldLeft(LAMBDA b, j : Exchange(b, i, j), a, seq)
    BY DEF Pass, seq
  <2>. QED
    BY <2>1, <2>2, <2>3
<1>. HIDE DEF w, seq, A, m
<1>4. PICK f : FoldsTo(f, m, A, w, a, seq)
  <2>1. a \in A
    BY DEF A
  <2>2. m \in Nat /\ w \in [A -> [J -> A]] /\ \A k \in 1 .. m : seq[k] \in J
    BY <1>1, <1>2
  <2>. HIDE DEF J
  <2>. QED
    BY <2>1, <2>2, LeftFoldExists
<1>5. \A h \in [SUBSET (1 .. m) -> A], s \in SUBSET (1 .. m) :
        LeftStep(w, a, seq, h, s) = PassStep(a, i, seq, h, s)
  <2>. TAKE h \in [SUBSET (1 .. m) -> A], s \in SUBSET (1 .. m)
  <2>1. CASE s # {}
    <3>1. Max(s) \in 1 .. m /\ s \ {Max(s)} \in SUBSET (1 .. m)
      BY <1>1, <2>1, MaxOfSet
    <3>2. h[s \ {Max(s)}] \in A /\ seq[Max(s)] \in J
      BY <1>1, <3>1
    <3>. QED
      BY <1>2, <2>1, <3>2 DEF LeftStep, PassStep
  <2>2. CASE s = {}
    BY <2>2 DEF LeftStep, PassStep
  <2>. QED
    BY <2>1, <2>2
<1>6. Equation(f)
  BY <1>4, <1>5 DEF FoldsTo
<1>7. Equation(it)
  BY <1>6
<1>. HIDE DEF it, Equation
<1>8. /\ it[1 .. 0] = a
      /\ \A k \in 1 .. m : it[1 .. k] = Exchange(it[1 .. k - 1], i, seq[k])
  <2>1. \A s \in SUBSET (1 .. m) : it[s] = PassStep(a, i, seq, it, s)
    BY <1>7 DEF Equation
  <2>2. 1 .. 0 = {} /\ {} \in SUBSET (1 .. m)
    OBVIOUS
  <2>3. ASSUME NEW k \in 1 .. m
        PROVE  it[1 .. k] = Exchange(it[1 .. k - 1], i, seq[k])
    <3>1. /\ 1 .. k \in SUBSET (1 .. m) /\ (1 .. k) # {}
          /\ Max(1 .. k) = k /\ (1 .. k) \ {Max(1 .. k)} = 1 .. k - 1
      BY <1>1, SegmentMax
    <3>2. it[1 .. k] = PassStep(a, i, seq, it, 1 .. k)
      BY <2>1, <3>1
    <3>. QED
      BY <3>1, <3>2 DEF PassStep
  <2>. QED
    BY <2>1, <2>2, <2>3 DEF PassStep
<1>9. \A k \in 0 .. m : it[1 .. k] \in A
  <2>. DEFINE G == {k \in 0 .. m : it[1 .. k] \in A}
  <2>1. 0 \in G
    BY <1>1, <1>8 DEF A
  <2>2. ASSUME NEW k \in 0 .. m - 1, k \in G PROVE k + 1 \in G
    <3>1. k + 1 \in 1 .. m /\ k + 1 \in 0 .. m /\ (k + 1) - 1 = k
      BY <1>1
    <3>2. it[1 .. k + 1] = Exchange(it[1 .. k], i, seq[k + 1]) /\ seq[k + 1] \in J
      BY <1>1, <1>8, <3>1
    <3>3. it[1 .. k] \in A
      BY <2>2
    <3>4. it[1 .. k + 1] \in A
      BY <3>2, <3>3, ExchangeType DEF A
    <3>. QED
      BY <3>1, <3>4
  <2>3. ASSUME NEW k \in 0 .. m PROVE k \in G
    <3>. HIDE DEF G
    <3>1. k \in Nat /\ \A l \in 0 .. k - 1 : l \in 0 .. m - 1
      BY <1>1
    <3>. QED
      BY <2>1, <2>2, <3>1, UpToInduction
  <2>. QED
    BY <2>3
<1>10. /\ g[0] = a /\ g[m] = Pass(n, a, i)
       /\ \A k \in 0 .. m : g[k] \in PriceLists(n)
       /\ \A k \in 1 .. m : g[k] = Exchange(g[k - 1], i, i + k)
  <2>1. 0 \in 0 .. m /\ m \in 0 .. m
    BY <1>1
  <2>2. \A k \in 1 .. m : k \in 0 .. m /\ k - 1 \in 0 .. m
    BY <1>1
  <2>. QED
    BY <1>1, <1>3, <1>8, <1>9, <2>1, <2>2 DEF A
<1>. HIDE DEF g
<1>. QED
  BY <1>10 DEF m

\* b is a with its prices moved around by pi, from position i on.
Moved(n, i, a, b, pi) ==
  /\ pi \in [1 .. n -> 1 .. n]
  /\ \A p \in 1 .. n, q \in 1 .. n : pi[p] = pi[q] => p = q
  /\ \A p \in 1 .. n : /\ b[p] = a[pi[p]]
                       /\ p < i => pi[p] = p
                       /\ p >= i => pi[p] >= i

LEMMA MovedNot ==
  ASSUME NEW n \in Nat, NEW i \in 1 .. n, NEW a
  PROVE  Moved(n, i, a, a, [p \in 1 .. n |-> p])
  BY DEF Moved

LEMMA MovedExchange ==
  ASSUME NEW n \in Nat, NEW i \in 1 .. n, NEW j \in i + 1 .. n,
         NEW a \in PriceLists(n), NEW b \in PriceLists(n),
         NEW pi, Moved(n, i, a, b, pi)
  PROVE  \E rho : Moved(n, i, a, Exchange(b, i, j), rho)
<1>1. CASE ~(b[i] > b[j])
  BY <1>1, ExchangeType
<1>2. CASE b[i] > b[j]
  <2>. DEFINE c == Exchange(b, i, j)
              rho == [p \in 1 .. n |-> IF p = i THEN pi[j] ELSE IF p = j THEN pi[i] ELSE pi[p]]
  <2>1. /\ j \in 1 .. n /\ j # i /\ j >= i
        /\ pi \in [1 .. n -> 1 .. n]
        /\ \A p \in 1 .. n, q \in 1 .. n : pi[p] = pi[q] => p = q
        /\ \A p \in 1 .. n : /\ b[p] = a[pi[p]]
                             /\ p < i => pi[p] = p
                             /\ p >= i => pi[p] >= i
    BY DEF Moved
  <2>2. c[i] = b[j] /\ c[j] = b[i] /\ \A p \in (1 .. n) \ {i, j} : c[p] = b[p]
    BY <1>2, <2>1, ExchangeType
  <2>3. /\ rho \in [1 .. n -> 1 .. n]
        /\ rho[i] = pi[j] /\ rho[j] = pi[i]
        /\ \A p \in (1 .. n) \ {i, j} : rho[p] = pi[p]
    BY <2>1
  <2>. HIDE DEF c, rho
  <2>4. ASSUME NEW p \in 1 .. n, NEW q \in 1 .. n, rho[p] = rho[q]
        PROVE  p = q
    <3>. DEFINE from(r) == IF r = i THEN j ELSE IF r = j THEN i ELSE r
    <3>1. ASSUME NEW r \in 1 .. n
          PROVE  from(r) \in 1 .. n /\ rho[r] = pi[from(r)]
      BY <2>1, <2>3
    <3>2. from(p) = from(q) => p = q
      OBVIOUS
    <3>. HIDE DEF from
    <3>3. pi[from(p)] = pi[from(q)] /\ from(p) \in 1 .. n /\ from(q) \in 1 .. n
      BY <2>4, <3>1
    <3>. QED
      BY <2>1, <3>2, <3>3
  <2>5. ASSUME NEW p \in 1 .. n
        PROVE  c[p] = a[rho[p]] /\ (p < i => rho[p] = p) /\ (p >= i => rho[p] >= i)
    <3>1. CASE p = i
      BY <2>1, <2>2, <2>3, <3>1
    <3>2. CASE p = j
      BY <2>1, <2>2, <2>3, <3>2
    <3>3. CASE p \notin {i, j}
      BY <2>1, <2>2, <2>3, <3>3
    <3>. QED
      BY <3>1, <3>2, <3>3
  <2>6. Moved(n, i, a, c, rho)
    BY <2>3, <2>4, <2>5 DEF Moved
  <2>. QED
    BY <2>6 DEF c
<1>. QED
  BY <1>1, <1>2

LEMMA MovedTwice ==
  ASSUME NEW n \in Nat, NEW i \in 1 .. n, NEW a, NEW b, NEW c,
         NEW pi, Moved(n, 1, a, b, pi), NEW rho, Moved(n, i, b, c, rho)
  PROVE  \E tau : Moved(n, 1, a, c, tau)
<1>. DEFINE tau == [p \in 1 .. n |-> pi[rho[p]]]
<1>1. /\ pi \in [1 .. n -> 1 .. n] /\ rho \in [1 .. n -> 1 .. n]
      /\ \A p \in 1 .. n, q \in 1 .. n : pi[p] = pi[q] => p = q
      /\ \A p \in 1 .. n, q \in 1 .. n : rho[p] = rho[q] => p = q
      /\ \A p \in 1 .. n : b[p] = a[pi[p]] /\ c[p] = b[rho[p]]
  BY DEF Moved
<1>2. tau \in [1 .. n -> 1 .. n]
  BY <1>1
<1>3. \A p \in 1 .. n, q \in 1 .. n : tau[p] = tau[q] => p = q
  BY <1>1
<1>4. ASSUME NEW p \in 1 .. n
      PROVE  c[p] = a[tau[p]] /\ tau[p] >= 1 /\ ~(p < 1)
  <2>1. rho[p] \in 1 .. n /\ tau[p] = pi[rho[p]]
    BY <1>1
  <2>2. c[p] = a[tau[p]]
    BY <1>1, <2>1
  <2>. HIDE DEF tau
  <2>. QED
    BY <1>2, <2>2
<1>. HIDE DEF tau
<1>5. Moved(n, 1, a, c, tau)
  BY <1>2, <1>3, <1>4 DEF Moved
<1>. QED
  BY <1>5

\* A pass moves the least of the prices from position i on to position i.
LEMMA PassMoves ==
  ASSUME NEW n \in Nat, NEW a \in PriceLists(n), NEW i \in 1 .. n
  PROVE  /\ Pass(n, a, i) \in PriceLists(n)
         /\ \E pi : Moved(n, i, a, Pass(n, a, i), pi)
         /\ \A p \in i .. n : Pass(n, a, i)[i] <= Pass(n, a, i)[p]
<1>1. PICK g : /\ g[0] = a /\ g[n - i] = Pass(n, a, i)
               /\ \A k \in 0 .. n - i : g[k] \in PriceLists(n)
               /\ \A k \in 1 .. n - i : g[k] = Exchange(g[k - 1], i, i + k)
  BY PassSegments
<1>. DEFINE m == n - i
            Least(k) == \A p \in i .. i + k : g[k][i] <= g[k][p]
            G == {k \in 0 .. m : (\E pi : Moved(n, i, a, g[k], pi)) /\ Least(k)}
<1>2. m \in Nat /\ m \in 0 .. m /\ 0 \in 0 .. m
  OBVIOUS
<1>3. 0 \in G
  <2>1. \E pi : Moved(n, i, a, g[0], pi)
    BY <1>1, MovedNot
  <2>2. g[0][i] \in Nat
    BY <1>1 DEF PriceLists
  <2>3. Least(0)
    BY <2>2
  <2>. HIDE DEF Least
  <2>. QED
    BY <1>2, <2>1, <2>3
<1>4. ASSUME NEW k \in 0 .. m - 1, k \in G
      PROVE  k + 1 \in G
  <2>. DEFINE j == i + (k + 1)
              b == g[k]
              c == g[k + 1]
  <2>1. /\ k \in 0 .. m /\ k + 1 \in 0 .. m /\ k + 1 \in 1 .. m /\ (k + 1) - 1 = k
        /\ j \in i + 1 .. n /\ j \in 1 .. n /\ j # i
    BY <1>2
  <2>2. c = Exchange(b, i, j) /\ b \in PriceLists(n) /\ c \in PriceLists(n)
    BY <1>1, <2>1
  <2>3. \E pi : Moved(n, i, a, c, pi)
    <3>1. PICK pi : Moved(n, i, a, b, pi)
      BY <1>4
    <3>. HIDE DEF b, c, j
    <3>2. \E rho : Moved(n, i, a, Exchange(b, i, j), rho)
      BY <2>1, <2>2, <3>1, MovedExchange
    <3>. QED
      BY <2>2, <3>2
  <2>4. \A p \in i .. i + k : b[i] <= b[p]
    BY <1>4
  <2>5. \A p \in 1 .. n : b[p] \in Nat /\ c[p] \in Nat
    BY <2>2 DEF PriceLists
  <2>6. \A p \in i .. j : p = j \/ p \in i .. i + k
    BY <2>1
  <2>7. \A p \in i .. i + k : p \in 1 .. n /\ p # j
    BY <1>2, <2>1
  <2>8. /\ b[i] > b[j] => /\ c[i] = b[j] /\ c[j] = b[i]
                          /\ \A p \in (1 .. n) \ {i, j} : c[p] = b[p]
        /\ ~(b[i] > b[j]) => c = b
    <3>. HIDE DEF b, c, j
    <3>. QED
      BY <2>1, <2>2, ExchangeType
  <2>. HIDE DEF b, c, j
  <2>9. ASSUME NEW p \in i .. j
        PROVE  c[i] <= c[p]
    <3>1. p \in 1 .. n /\ b[i] \in Nat /\ b[j] \in Nat /\ b[p] \in Nat
      BY <2>1, <2>5, <2>6, <2>7
    <3>2. CASE p = j
      BY <2>8, <3>1, <3>2
    <3>3. CASE p # j /\ p = i
      BY <2>5, <3>1, <3>3
    <3>4. CASE p # j /\ p # i
      <4>1. b[i] <= b[p]
        BY <2>4, <2>6, <3>4
      <4>. QED
        BY <2>8, <3>1, <3>4, <4>1
    <3>. QED
      BY <3>2, <3>3, <3>4
  <2>10. Least(k + 1)
    BY <2>9 DEF c, j
  <2>. HIDE DEF Least
  <2>. QED
    BY <2>1, <2>3, <2>10 DEF c
<1>. HIDE DEF G
<1>5. m \in G
  BY <1>2, <1>3, <1>4, UpToInduction
<1>6. (\E pi : Moved(n, i, a, g[m], pi)) /\ \A p \in i .. i + m : g[m][i] <= g[m][p]
  BY <1>5 DEF G
<1>7. i + m = n /\ g[m] = Pass(n, a, i) /\ g[m] \in PriceLists(n)
  BY <1>1, <1>2
<1>. HIDE DEF m
<1>. QED
  BY <1>6, <1>7

\* The fold of the sort, one pass after the other.
LEMMA SortSegments ==
  ASSUME NEW n \in Nat, NEW prices \in PriceLists(n)
  PROVE  \E g : /\ g[0] = prices /\ g[n] = Sorted(prices)
                /\ \A k \in 0 .. n : g[k] \in PriceLists(n)
                /\ \A k \in 1 .. n : g[k] = Pass(n, g[k - 1], k)
<1>. DEFINE A == PriceLists(n)
            J == 1 .. n
            seq == [k \in 1 .. n |-> k]
            w == [b \in A |-> [j \in J |-> Pass(n, b, j)]]
            Equation(f) == f = [s \in SUBSET (1 .. n) |-> SortStep(n, prices, seq, f, s)]
            it == CHOOSE f : Equation(f)
            g == [k \in 0 .. n |-> it[1 .. k]]
<1>1. \A k \in 1 .. n : seq[k] \in J /\ seq[k] = k
  OBVIOUS
<1>2. w \in [A -> [J -> A]] /\ \A b \in A, j \in J : w[b][j] = Pass(n, b, j)
  BY PassMoves
<1>3. Sorted(prices) = it[1 .. n]
  <2>1. DOMAIN seq = 1 .. n /\ DOMAIN prices = 1 .. n /\ Len(prices) = n
    BY DEF PriceLists
  <2>2. Sorted(prices) = FoldLeft(LAMBDA b, i : Pass(n, b, i), prices, [k \in DOMAIN prices |-> k])
    BY <2>1 DEF Sorted, Pass
  <2>3. Sorted(prices) = FoldLeft(LAMBDA b, i : Pass(n, b, i), prices, seq)
    BY <2>1, <2>2
  <2>. HIDE DEF seq
  <2>4. FoldLeft(LAMBDA b, i : Pass(n, b, i), prices, seq)
          = (CHOOSE f : f = [s \in SUBSET (DOMAIN seq) |-> SortStep(n, prices, seq, f, s)])[DOMAIN seq]
    BY DEF FoldLeft, MapThenFoldSet, SortStep
  <2>. QED
    BY <2>1, <2>3, <2>4
<1>. HIDE DEF w, seq, A
<1>4. PICK f : FoldsTo(f, n, A, w, prices, seq)
  <2>1. prices \in A
    BY DEF A
  <2>2. w \in [A -> [J -> A]] /\ \A k \in 1 .. n : seq[k] \in J
    BY <1>1, <1>2
  <2>. HIDE DEF J
  <2>. QED
    BY <2>1, <2>2, LeftFoldExists
<1>5. \A h \in [SUBSET (1 .. n) -> A], s \in SUBSET (1 .. n) :
        LeftStep(w, prices, seq, h, s) = SortStep(n, prices, seq, h, s)
  <2>. TAKE h \in [SUBSET (1 .. n) -> A], s \in SUBSET (1 .. n)
  <2>1. CASE s # {}
    <3>1. Max(s) \in 1 .. n /\ s \ {Max(s)} \in SUBSET (1 .. n)
      BY <2>1, MaxOfSet
    <3>2. h[s \ {Max(s)}] \in A /\ seq[Max(s)] \in J
      BY <1>1, <3>1
    <3>. QED
      BY <1>2, <2>1, <3>2 DEF LeftStep, SortStep
  <2>2. CASE s = {}
    BY <2>2 DEF LeftStep, SortStep
  <2>. QED
    BY <2>1, <2>2
<1>6. Equation(f)
  BY <1>4, <1>5 DEF FoldsTo
<1>7. Equation(it)
  BY <1>6
<1>. HIDE DEF it, Equation
<1>8. /\ it[1 .. 0] = prices
      /\ \A k \in 1 .. n : it[1 .. k] = Pass(n, it[1 .. k - 1], k)
  <2>1. \A s \in SUBSET (1 .. n) : it[s] = SortStep(n, prices, seq, it, s)
    BY <1>7 DEF Equation
  <2>2. 1 .. 0 = {} /\ {} \in SUBSET (1 .. n)
    OBVIOUS
  <2>3. ASSUME NEW k \in 1 .. n
        PROVE  it[1 .. k] = Pass(n, it[1 .. k - 1], k)
    <3>1. /\ 1 .. k \in SUBSET (1 .. n) /\ (1 .. k) # {}
          /\ Max(1 .. k) = k /\ (1 .. k) \ {Max(1 .. k)} = 1 .. k - 1
      BY SegmentMax
    <3>2. it[1 .. k] = SortStep(n, prices, seq, it, 1 .. k) /\ seq[k] = k
      BY <1>1, <2>1, <3>1
    <3>. QED
      BY <3>1, <3>2 DEF SortStep
  <2>. QED
    BY <2>1, <2>2, <2>3 DEF SortStep
<1>9. \A k \in 0 .. n : it[1 .. k] \in A
  <2>. DEFINE G == {k \in 0 .. n : it[1 .. k] \in A}
  <2>1. 0 \in G
    BY <1>8 DEF A
  <2>2. ASSUME NEW k \in 0 .. n - 1, k \in G PROVE k + 1 \in G
    <3>1. k + 1 \in 1 .. n /\ k + 1 \in 0 .. n /\ (k + 1) - 1 = k
      OBVIOUS
    <3>2. it[1 .. k + 1] = Pass(n, it[1 .. k], k + 1)
      BY <1>8, <3>1
    <3>3. it[1 .. k] \in A
      BY <2>2
    <3>4. it[1 .. k + 1] \in A
      BY <3>1, <3>2, <3>3, PassMoves DEF A
    <3>. QED
      BY <3>1, <3>4
  <2>3. ASSUME NEW k \in 0 .. n PROVE k \in G
    <3>. HIDE DEF G
    <3>1. k \in Nat /\ \A l \in 0 .. k - 1 : l \in 0 .. n - 1
      OBVIOUS
    <3>. QED
      BY <2>1, <2>2, <3>1, UpToInduction
  <2>. QED
    BY <2>3
<1>10. /\ g[0] = prices /\ g[n] = Sorted(prices)
       /\ \A k \in 0 .. n : g[k] \in PriceLists(n)
       /\ \A k \in 1 .. n : g[k] = Pass(n, g[k - 1], k)
  <2>1. 0 \in 0 .. n /\ n \in 0 .. n
    OBVIOUS
  <2>2. \A k \in 1 .. n : k \in 0 .. n /\ k - 1 \in 0 .. n
    OBVIOUS
  <2>. QED
    BY <1>3, <1>8, <1>9, <2>1, <2>2 DEF A
<1>. HIDE DEF g
<1>. QED
  BY <1>10

\* Sorted returns the prices it was given, in rising order.
LEMMA SortedRises ==
  ASSUME NEW n \in Nat, NEW prices \in PriceLists(n), n > 0
  PROVE  /\ Sorted(prices) \in PriceLists(n)
         /\ \E pi : Moved(n, 1, prices, Sorted(prices), pi)
         /\ \A p \in 1 .. n : \A q \in p .. n : Sorted(prices)[p] <= Sorted(prices)[q]
<1>1. PICK g : /\ g[0] = prices /\ g[n] = Sorted(prices)
               /\ \A k \in 0 .. n : g[k] \in PriceLists(n)
               /\ \A k \in 1 .. n : g[k] = Pass(n, g[k - 1], k)
  BY SortSegments
<1>. DEFINE FrontRises(k) == \A p \in 1 .. k : \A q \in p .. n : g[k][p] <= g[k][q]
            G == {k \in 0 .. n : (\E pi : Moved(n, 1, prices, g[k], pi)) /\ FrontRises(k)}
<1>2. 0 \in G
  <2>1. 1 \in 1 .. n /\ 0 \in 0 .. n
    OBVIOUS
  <2>2. \E pi : Moved(n, 1, prices, g[0], pi)
    BY <1>1, <2>1, MovedNot
  <2>3. FrontRises(0)
    OBVIOUS
  <2>. HIDE DEF FrontRises
  <2>. QED
    BY <2>1, <2>2, <2>3
<1>3. ASSUME NEW k \in 0 .. n - 1, k \in G
      PROVE  k + 1 \in G
  <2>. DEFINE i == k + 1
              b == g[k]
              c == g[k + 1]
  <2>1. i \in 1 .. n /\ i \in 0 .. n /\ k \in 0 .. n /\ i - 1 = k
    OBVIOUS
  <2>2. c = Pass(n, b, i) /\ b \in PriceLists(n) /\ c \in PriceLists(n)
    BY <1>1, <2>1
  <2>3. \A p \in 1 .. k : \A q \in p .. n : b[p] <= b[q]
    BY <1>3
  <2>4. PICK pi : Moved(n, 1, prices, b, pi)
    BY <1>3
  <2>. HIDE DEF b, c, i
  <2>5. PICK rho : Moved(n, i, b, c, rho)
    BY <2>1, <2>2, PassMoves
  <2>6. \E tau : Moved(n, 1, prices, c, tau)
    BY <2>1, <2>4, <2>5, MovedTwice
  <2>7. \A p \in i .. n : c[i] <= c[p]
    BY <2>1, <2>2, PassMoves
  <2>8. ASSUME NEW p \in 1 .. i, NEW q \in p .. n
        PROVE  c[p] <= c[q]
    <3>1. CASE p = i
      BY <2>7, <3>1
    <3>2. CASE p # i
      <4>1. p \in 1 .. k /\ p < i /\ p \in 1 .. n /\ q \in 1 .. n
        BY <2>1, <3>2
      <4>2. c[p] = b[p] /\ c[q] = b[rho[q]]
        BY <2>5, <4>1 DEF Moved
      <4>3. rho[q] \in p .. n
        <5>1. rho[q] \in 1 .. n
          BY <2>5, <4>1 DEF Moved
        <5>2. CASE q < i
          <6>1. rho[q] = q
            BY <2>5, <4>1, <5>2 DEF Moved
          <6>. QED
            BY <6>1
        <5>3. CASE q >= i
          <6>1. rho[q] >= i
            BY <2>5, <4>1, <5>3 DEF Moved
          <6>. QED
            BY <2>1, <4>1, <5>1, <6>1
        <5>. QED
          BY <2>1, <4>1, <5>2, <5>3
      <4>. QED
        BY <2>3, <4>1, <4>2, <4>3
    <3>. QED
      BY <3>1, <3>2
  <2>9. FrontRises(k + 1)
    BY <2>8 DEF c, i
  <2>. HIDE DEF FrontRises
  <2>. QED
    BY <2>1, <2>6, <2>9 DEF c, i
<1>. HIDE DEF G
<1>4. n \in G
  BY <1>2, <1>3, UpToInduction
<1>5. (\E pi : Moved(n, 1, prices, g[n], pi)) /\ \A p \in 1 .. n : \A q \in p .. n : g[n][p] <= g[n][q]
  BY <1>4 DEF G
<1>6. g[n] \in PriceLists(n)
  BY <1>1
<1>. QED
  BY <1>1, <1>5, <1>6

\* Of any more than half of the places of a list, one holds a price that is
\* not among the bad ones.
LEMMA OneIsGood ==
  ASSUME NEW n \in Nat, NEW a, NEW b, NEW pi, Moved(n, 1, a, b, pi),
         NEW bad \in SUBSET (1 .. n)
  PROVE  \A lo \in 1 .. n : \A hi \in lo .. n :
           Cardinality(bad) < hi - lo + 1 =>
             \E p \in lo .. hi : pi[p] \in (1 .. n) \ bad /\ b[p] = a[pi[p]]
<1>. SUFFICES ASSUME NEW lo \in 1 .. n, NEW hi \in lo .. n,
                     Cardinality(bad) < hi - lo + 1
              PROVE  \E p \in lo .. hi : pi[p] \in (1 .. n) \ bad /\ b[p] = a[pi[p]]
  OBVIOUS
<1>. DEFINE places == lo .. hi
            f == [p \in places |-> pi[p]]
<1>1. /\ pi \in [1 .. n -> 1 .. n] /\ places \subseteq 1 .. n
      /\ \A p \in 1 .. n, q \in 1 .. n : pi[p] = pi[q] => p = q
      /\ \A p \in 1 .. n : b[p] = a[pi[p]]
  BY DEF Moved
<1>2. IsFiniteSet(bad) /\ Cardinality(bad) \in Nat
  <2>1. IsFiniteSet(1 .. n)
    BY FS_Interval
  <2>2. IsFiniteSet(bad)
    BY <2>1, FS_Subset
  <2>. QED
    BY <2>2, FS_CardinalityType
<1>3. Cardinality(places) = hi - lo + 1
  BY FS_Interval
<1>4. ASSUME \A p \in places : pi[p] \in bad
      PROVE  FALSE
  <2>1. f \in Injection(places, bad)
    BY <1>1, <1>4 DEF Injection, IsInjective
  <2>2. Cardinality(places) <= Cardinality(bad)
    BY <1>2, <2>1, FS_Injection
  <2>. QED
    BY <1>2, <1>3, <2>2
<1>. QED
  BY <1>1, <1>4

\* The median of natural numbers is one, and whatever less than half of them
\* are, it stays between two of the others.
LEMMA MedianRobust ==
  ASSUME NEW n \in Nat, NEW prices \in PriceLists(n), n > 0
  PROVE  /\ Median(prices) \in Nat
         /\ \A bad \in SUBSET (1 .. n) :
              2 * Cardinality(bad) < n =>
                /\ \E k \in (1 .. n) \ bad : prices[k] <= Median(prices)
                /\ \E k \in (1 .. n) \ bad : Median(prices) <= prices[k]
<1>. DEFINE s == Sorted(prices)
            low == IF n % 2 = 1 THEN (n \div 2) + 1 ELSE n \div 2
            high == (n \div 2) + 1
            median == Median(prices)
<1>1. /\ s \in PriceLists(n)
      /\ \E pi : Moved(n, 1, prices, s, pi)
      /\ \A p \in 1 .. n : \A q \in p .. n : s[p] <= s[q]
  BY SortedRises
<1>2. Len(prices) = n
  BY DEF PriceLists
<1>3. median = IF n % 2 = 1 THEN s[high] ELSE (s[low] + s[high]) \div 2
  BY <1>2 DEF Median
<1>4. /\ low \in 1 .. n /\ high \in low .. n /\ high \in 1 .. n
      /\ n <= 2 * low /\ n <= 2 * (n - high + 1)
      /\ n % 2 = 1 => low = high
  OBVIOUS
<1>. HIDE DEF s, low, high, median
<1>5. s[low] \in Nat /\ s[high] \in Nat /\ s[low] <= s[high]
  BY <1>1, <1>4 DEF PriceLists
<1>6. median \in Nat /\ s[low] <= median /\ median <= s[high]
  <2>1. CASE n % 2 = 1
    BY <1>3, <1>4, <1>5, <2>1
  <2>2. CASE n % 2 # 1
    BY <1>3, <1>5, <2>2
  <2>. QED
    BY <2>1, <2>2
<1>7. PICK pi : Moved(n, 1, prices, s, pi)
  BY <1>1
<1>8. ASSUME NEW bad \in SUBSET (1 .. n), 2 * Cardinality(bad) < n
      PROVE  /\ \E k \in (1 .. n) \ bad : prices[k] <= median
             /\ \E k \in (1 .. n) \ bad : median <= prices[k]
  <2>1. Cardinality(bad) \in Nat
    <3>1. IsFiniteSet(1 .. n)
      BY FS_Interval
    <3>2. IsFiniteSet(bad)
      BY <3>1, FS_Subset
    <3>. QED
      BY <3>2, FS_CardinalityType
  <2>2. Cardinality(bad) < low - 1 + 1 /\ Cardinality(bad) < n - high + 1
    BY <1>4, <1>8, <2>1
  <2>. DEFINE Good(x, p) == pi[p] \in (1 .. n) \ bad /\ x[p] = prices[pi[p]]
  <2>0. \A lo \in 1 .. n : \A hi \in lo .. n :
          Cardinality(bad) < hi - lo + 1 => \E p \in lo .. hi : Good(s, p)
    BY <1>7, OneIsGood
  <2>. HIDE DEF Good
  <2>3. PICK p \in 1 .. low : pi[p] \in (1 .. n) \ bad /\ s[p] = prices[pi[p]]
    <3>1. 1 \in 1 .. n /\ low \in 1 .. n
      BY <1>4
    <3>2. low \in 1 .. n
      BY <1>4
    <3>3. \E p \in 1 .. low : Good(s, p)
      BY <2>0, <2>2, <3>1, <3>2
    <3>. QED
      BY <3>3 DEF Good
  <2>4. PICK q \in high .. n : pi[q] \in (1 .. n) \ bad /\ s[q] = prices[pi[q]]
    <3>1. n \in high .. n
      BY <1>4
    <3>. QED
      BY <1>4, <2>0, <2>2, <3>1 DEF Good
  <2>5. s[p] <= s[low] /\ s[high] <= s[q]
    <3>1. p \in 1 .. n /\ low \in p .. n
      BY <1>4
    <3>. QED
      BY <1>1, <1>4, <3>1
  <2>6. s[p] \in Nat /\ s[q] \in Nat
    <3>1. p \in 1 .. n /\ q \in 1 .. n
      BY <1>4
    <3>. QED
      BY <1>1, <3>1 DEF PriceLists
  <2>7. s[p] <= median /\ median <= s[q]
    BY <1>5, <1>6, <2>5, <2>6
  <2>. QED
    BY <2>3, <2>4, <2>7
<1>. QED
  BY <1>6, <1>8 DEF median

\* What submit_oracle_prices accepts is a list of positive prices.
LEMMA SubmittedPrices ==
  ASSUME RegistryInv, NEW prices \in [DOMAIN Registered -> Prices],
         SubmitOraclePrices(prices)
  PROVE  LET n == Len(Registered) IN
         /\ n \in Nat \ {0} /\ DOMAIN Registered = 1 .. n /\ Len(prices) = n
         /\ prices \in PriceLists(n) /\ price'.last = Median(prices)
<1>1. Registered \in Seq(Oracles)
  BY RegisteredType DEF RegistryInv
<1>2. /\ Len(Registered) \in Nat /\ DOMAIN Registered = 1 .. Len(Registered)
      /\ DOMAIN prices = 1 .. Len(Registered)
  BY <1>1
<1>3. prices # <<>> /\ \A k \in DOMAIN prices : prices[k] > 0
  BY DEF SubmitOraclePrices
<1>4. \A k \in DOMAIN prices : prices[k] \in Nat
  <2>. SUFFICES ASSUME NEW k \in DOMAIN prices PROVE prices[k] \in Nat
    OBVIOUS
  <2>1. prices[k] \in Prices /\ prices[k] > 0
    BY <1>3
  <2>2. prices[k] \in Int
    BY <2>1, OracleAssumption
  <2>. QED
    BY <2>1, <2>2
<1>5. Len(Registered) # 0
  BY <1>2, <1>3
<1>6. price'.last = Median(prices)
  BY DEF SubmitOraclePrices
<1>. QED
  BY <1>2, <1>4, <1>5, <1>6 DEF PriceLists

\* ADR-006, for every number of oracles: the median of the sorted array is not
\* moved out of the range of the others by any minority of the prices, now and
\* with as many oracles as the array has room for (median, insertion of the
\* prices in submit_oracle_prices).
THEOREM MinorityIsHeld == Spec => []MinorityCannotMovePrice
<1>1. ASSUME RegistryInv
      PROVE  MinorityCannotMovePrice
  <2>1. Len(Registered) \in Nat /\ ArraySize \in Nat
    BY <1>1, RegisteredType, OracleAssumption DEF RegistryInv
  <2>2. ASSUME NEW n \in Len(Registered) .. ArraySize, n > 0
        PROVE  n \in RobustLengths
    <3>1. n \in Nat /\ n \in 1 .. ArraySize
      BY <2>1, <2>2
    <3>2. ASSUME NEW prices \in [1 .. n -> 1 .. n], NEW bad \in SUBSET (1 .. n),
                 2 * Cardinality(bad) < n
          PROVE  LET others == {prices[k] : k \in (1 .. n) \ bad}
                 IN  /\ \E p \in others : p <= Median(prices)
                     /\ \E p \in others : Median(prices) <= p
      <4>1. prices \in PriceLists(n)
        BY <3>1 DEF PriceLists
      <4>2. /\ \E k \in (1 .. n) \ bad : prices[k] <= Median(prices)
            /\ \E k \in (1 .. n) \ bad : Median(prices) <= prices[k]
        BY <2>2, <3>1, <3>2, <4>1, MedianRobust
      <4>. QED
        BY <4>2
    <3>. QED
      BY <3>1, <3>2 DEF RobustLengths
  <2>. QED
    BY <2>2 DEF MinorityCannotMovePrice
<1>. QED
  BY RegistryInit, RegistryStep, <1>1, PTL DEF Spec

\* The same of the price that is recorded, whatever prices are submitted:
\* LAST_PRICE lies between two prices of every majority of them.
THEOREM RecordedPriceIsHeld == Spec => RecordedPriceHeld
<1>. DEFINE P ==
       \A prices \in [DOMAIN Registered -> Prices], bad \in SUBSET DOMAIN Registered :
         SubmitOraclePrices(prices) /\ 2 * Cardinality(bad) < Len(prices) =>
           /\ \E k \in DOMAIN prices \ bad : prices[k] <= price'.last
           /\ \E k \in DOMAIN prices \ bad : price'.last <= prices[k]
<1>1. ASSUME RegistryInv
      PROVE  P
  <2>. SUFFICES ASSUME NEW prices \in [DOMAIN Registered -> Prices],
                       NEW bad \in SUBSET DOMAIN Registered,
                       SubmitOraclePrices(prices), 2 * Cardinality(bad) < Len(prices)
                PROVE  /\ \E k \in DOMAIN prices \ bad : prices[k] <= price'.last
                       /\ \E k \in DOMAIN prices \ bad : price'.last <= prices[k]
    OBVIOUS
  <2>. DEFINE n == Len(Registered)
  <2>1. /\ n \in Nat \ {0} /\ DOMAIN Registered = 1 .. n /\ Len(prices) = n
        /\ prices \in PriceLists(n) /\ price'.last = Median(prices)
    BY <1>1, SubmittedPrices
  <2>2. DOMAIN prices = 1 .. n /\ bad \in SUBSET (1 .. n) /\ 2 * Cardinality(bad) < n
    BY <2>1
  <2>. HIDE DEF n
  <2>3. /\ \E k \in (1 .. n) \ bad : prices[k] <= Median(prices)
        /\ \E k \in (1 .. n) \ bad : Median(prices) <= prices[k]
    BY <2>1, <2>2, MedianRobust
  <2>. QED
    BY <2>1, <2>2, <2>3
<1>2. Spec => [][P]_vars
  BY RegistryInit, RegistryStep, <1>1, PTL DEF Spec
<1>. QED
  BY <1>2 DEF RecordedPriceHeld

-----------------------------------------------------------------------------
(* Types.  What is left of OracleTypeOK once the registry, the loans and   *)
(* the observations have their types.                                      *)

FeedType ==
  /\ PausableTypeOK
  /\ minQuorum \in Nat
  /\ price \in [last : Nat, time : Nat]
  /\ twap \in [sum : Nat, count : Nat, price : Nat]
  /\ window \in Nat \ {0} /\ stale \in Nat \ {0}

LEMMA FeedTypeStep ==
  ASSUME FeedType, RegistryInv, [Next]_vars
  PROVE  FeedType'
<1>1. /\ now \in Nat /\ MaxTime \in Nat /\ minQuorum \in Nat
      /\ twap.sum \in Nat /\ twap.count \in Nat
  BY PausableAssumption DEF FeedType, PausableTypeOK
<1>2. ASSUME NEW prices \in [DOMAIN Registered -> Prices], SubmitOraclePrices(prices)
      PROVE  FeedType'
  <2>1. Len(Registered) \in Nat \ {0} /\ prices \in PriceLists(Len(Registered))
    BY <1>2, SubmittedPrices
  <2>2. Median(prices) \in Nat
    BY <2>1, MedianRobust
  <2>3. price' \in [last : Nat, time : Nat]
    BY <1>1, <1>2, <2>2 DEF SubmitOraclePrices
  <2>. QED
    BY <1>2, <2>3 DEF SubmitOraclePrices, FeedType, PausableTypeOK, pauseVars, registryVars
<1>3. ASSUME NEW p \in Prices, SubmitPrice(p)
      PROVE  FeedType'
  <2>1. p \in Nat
    BY <1>3, OracleAssumption DEF SubmitPrice
  <2>2. Accumulated(p).sum \in Nat /\ Accumulated(p).count \in Nat \ {0}
    BY <1>1, <2>1 DEF Accumulated
  <2>3. Accumulated(p).sum \div Accumulated(p).count \in Nat
    BY <2>2, QuotientBound
  <2>4. price' \in [last : Nat, time : Nat] /\ twap' \in [sum : Nat, count : Nat, price : Nat]
    BY <1>1, <1>3, <2>1, <2>2, <2>3 DEF SubmitPrice
  <2>. QED
    BY <1>3, <2>4 DEF SubmitPrice, FeedType, PausableTypeOK, pauseVars, registryVars
<1>4. CASE Feed
  <2>1. ASSUME NEW w \in Windows, SetTwapWindow(w)
        PROVE  FeedType'
    BY <2>1, OracleAssumption
       DEF SetTwapWindow, FeedType, PausableTypeOK, pauseVars, registryVars, priceVars
  <2>2. ASSUME NEW thr \in Thresholds, SetStalenessThreshold(thr)
        PROVE  FeedType'
    BY <2>2, OracleAssumption
       DEF SetStalenessThreshold, FeedType, PausableTypeOK, pauseVars, registryVars, priceVars
  <2>. QED
    BY <1>2, <1>3, <1>4, <2>1, <2>2 DEF Feed
<1>5. CASE Registry
  <2>1. minQuorum' \in Nat
    BY <1>1, <1>5, OracleAssumption
       DEF Registry, AddOracle, RemoveOracle, UpdateOracle
  <2>. QED
    BY <1>5, <2>1 DEF Registry, AddOracle, RemoveOracle, UpdateOracle, FeedType,
                      PausableTypeOK, pauseVars, priceVars
<1>6. CASE Lending \/ UNCHANGED vars
  BY <1>6 DEF Lending, OpenLoan, CloseLoan, vars, FeedType, PausableTypeOK,
              pauseVars, registryVars, priceVars
<1>7. CASE Pausing
  <2>1. PausableTypeOK'
    <3>1. /\ now \in 1 .. MaxTime /\ now \in Nat /\ now' = now
          /\ paused \in BOOLEAN /\ pauseExp \in Nat /\ pauseDur \in Nat
      BY <1>1, <1>7 DEF Pausing, FeedType, PausableTypeOK
    <3>2. CASE Pause
      <4>1. paused' = TRUE /\ pauseExp' = now + pauseDur /\ pauseDur' = pauseDur
        BY <3>2 DEF Pause
      <4>2. pauseExp' \in Nat
        BY <3>1, <4>1
      <4>. QED
        BY <3>1, <4>1, <4>2 DEF PausableTypeOK
    <3>3. CASE Unpause
      BY <3>1, <3>3 DEF Unpause, PausableTypeOK
    <3>4. ASSUME NEW d \in PauseDurations, SetPauseDuration(d)
          PROVE  PausableTypeOK'
      BY <3>1, <3>4, PausableAssumption DEF SetPauseDuration, PausableTypeOK
    <3>. QED
      BY <1>7, <3>2, <3>3, <3>4 DEF Pausing
  <2>. QED
    BY <1>7, <2>1 DEF Pausing, FeedType, registryVars, priceVars
<1>8. CASE Time
  <2>1. PausableTypeOK'
    BY <1>1, <1>8, PausableAssumption
       DEF Time, CloseLedger, FeedType, PausableTypeOK, pauseVars
  <2>. QED
    BY <1>8, <2>1 DEF Time, FeedType, registryVars, priceVars
<1>. QED
  BY <1>4, <1>5, <1>6, <1>7, <1>8 DEF Next

\* Every variable of the feed keeps its type: the recorded price and the
\* average are natural numbers, whatever is submitted.
THEOREM OracleTypes == Spec => []OracleTypeOK
<1>. DEFINE Inv == LastOracleInv /\ AverageInv /\ FeedType
<1>1. Init => Inv
  <2>1. Init => FeedType
    <3>. SUFFICES ASSUME Init PROVE FeedType
      OBVIOUS
    <3>1. 1 \in 1 .. MaxTime
      BY PausableAssumption
    <3>2. PausableTypeOK
      BY <3>1, PausableAssumption DEF Init, PausableInit, PausableTypeOK
    <3>3. minQuorum \in Nat /\ window \in Nat \ {0} /\ stale \in Nat \ {0}
      BY OracleAssumption DEF Init
    <3>4. now = 1
      BY DEF Init, PausableInit
    <3>. QED
      BY <3>2, <3>3, <3>4 DEF Init, FeedType
  <2>. QED
    BY <2>1, LastOracleInit, AverageInit
<1>2. Inv /\ [Next]_vars => Inv'
  BY LastOracleStep, AverageStep, FeedTypeStep DEF LastOracleInv
<1>3. Inv => OracleTypeOK
  BY DEF LastOracleInv, RegistryInv, RegistryType, LoansType, AverageInv, AverageType,
         FeedType, OracleTypeOK
<1>. QED
  BY <1>1, <1>2, <1>3, PTL DEF Spec
=============================================================================

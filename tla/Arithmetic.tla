----------------------------- MODULE Arithmetic -----------------------------
(***************************************************************************)
(* Lemmas about quotients, products and finite sums that the proofs of the *)
(* components share.                                                       *)
(*                                                                         *)
(* The folds of the community modules are recursive functions.  That one   *)
(* is defined by its equation, and what it computes, takes an induction    *)
(* over finite sets.  It is carried out here with a set in the place of a  *)
(* predicate: no smallest set is left out of a set that holds every set    *)
(* whose proper subsets it holds.                                          *)
(***************************************************************************)
EXTENDS Integers, FiniteSets, WellFoundedInduction, FiniteSetTheorems, TLAPS

-----------------------------------------------------------------------------
(* Products and quotients.                                                 *)

\* A product grows with each of its factors.
LEMMA ProductMonotone ==
  ASSUME NEW a \in Nat, NEW b \in Nat, NEW c \in Nat, NEW d \in Nat, a <= b, c <= d
  PROVE  a * c \in Nat /\ b * d \in Nat /\ a * c <= b * d
<1>1. a * c \in Nat /\ b * c \in Nat /\ b * d \in Nat
  OBVIOUS
<1>2. a * c <= b * c
  OBVIOUS
<1>3. b * c <= b * d
  OBVIOUS
<1>. QED
  BY <1>1, <1>2, <1>3

\* A quotient times its divisor is at most the dividend.
LEMMA QuotientBound ==
  ASSUME NEW y \in Nat, NEW D \in Nat \ {0}
  PROVE  y \div D \in Nat /\ (y \div D) * D <= y
  OBVIOUS

\* A share of at most one hundred per cent never exceeds the amount.
LEMMA ShareBound ==
  ASSUME NEW x \in Nat, NEW B \in Nat \ {0}, NEW rate \in 0 .. B
  PROVE  (x * rate) \div B \in 0 .. x
<1>1. x * rate \in Nat /\ x * rate <= x * B
  OBVIOUS
<1>2. (x * rate) \div B \in Nat /\ ((x * rate) \div B) * B <= x * rate
  BY <1>1
<1>3. ASSUME NEW q \in Nat, q * B <= x * B PROVE q <= x
  BY <1>3
<1>. QED
  BY <1>1, <1>2, <1>3

\* What is at most a quotient is, times the divisor, at most the dividend.
LEMMA QuotientLimit ==
  ASSUME NEW x \in Nat, NEW v \in Nat, NEW rate \in Nat, NEW B \in Nat \ {0},
         x <= (v * rate) \div B
  PROVE  x * B <= v * rate
<1>1. v * rate \in Nat
  OBVIOUS
<1>2. ASSUME NEW y \in Nat, x <= y \div B PROVE x * B <= y
  BY <1>2
<1>. QED
  BY <1>1, <1>2

\* A share that reaches the whole amount is one hundred per cent.
LEMMA WholeShare ==
  ASSUME NEW x \in Nat \ {0}, NEW B \in Nat \ {0}, NEW rate \in 0 .. B,
         x <= (x * rate) \div B
  PROVE  rate = B
<1>1. x * B <= x * rate
  BY QuotientLimit
<1>2. CASE rate < B
  <2>1. x * rate < x * B
    BY <1>2
  <2>2. x * rate \in Nat /\ x * B \in Nat
    OBVIOUS
  <2>. QED
    BY <1>1, <2>1, <2>2
<1>. QED
  BY <1>2

-----------------------------------------------------------------------------
(* Induction.                                                              *)

\* Some set of a family of finite sets has no proper subset in the family.
LEMMA MinimalSet ==
  ASSUME NEW T, T # {}, \A t \in T : IsFiniteSet(t)
  PROVE  \E m \in T : \A k \in T : k \subseteq m => k = m
<1>1. T \subseteq FiniteSubsetsOf(UNION T)
  BY DEF FiniteSubsetsOf
<1>2. PICK m \in T : \A k \in T : ~(<<k, m>> \in StrictSubsetOrdering(UNION T))
  BY <1>1, WFMin, FS_StrictSubsetOrderingWellFounded, Zenon
<1>. QED
  BY <1>1, <1>2 DEF StrictSubsetOrdering, FiniteSubsetsOf

\* Induction over the subsets of a finite set: G is the set of those for
\* which the claim holds.
LEMMA SubsetInduction ==
  ASSUME NEW S, IsFiniteSet(S), NEW G,
         \A t \in SUBSET S :
           (\A u \in SUBSET t : u # t => u \in G) => t \in G
  PROVE  \A t \in SUBSET S : t \in G
<1>1. ASSUME NEW Bad, Bad = (SUBSET S) \ G, Bad # {}
      PROVE  FALSE
  <2>1. \A t \in Bad : IsFiniteSet(t)
    BY <1>1, FS_Subset
  <2>2. PICK m \in Bad : \A k \in Bad : k \subseteq m => k = m
    BY <1>1, <2>1, MinimalSet
  <2>3. \A u \in SUBSET m : u # m => u \in G
    BY <1>1, <2>2
  <2>. QED
    BY <1>1, <2>2, <2>3
<1>2. (SUBSET S) \ G = {}
  BY <1>1
<1>. QED
  BY <1>2

\* Induction over the natural numbers up to n.
LEMMA UpToInduction ==
  ASSUME NEW n \in Nat, NEW G, 0 \in G,
         \A k \in 0 .. n - 1 : k \in G => k + 1 \in G
  PROVE  n \in G
<1>. DEFINE H == {t \in SUBSET (1 .. n) : \A k \in 0 .. n : t = 1 .. k => k \in G}
<1>1. IsFiniteSet(1 .. n)
  BY FS_Interval
<1>2. ASSUME NEW t \in SUBSET (1 .. n), \A u \in SUBSET t : u # t => u \in H
      PROVE  t \in H
  <2>. SUFFICES ASSUME NEW k \in 0 .. n, t = 1 .. k PROVE k \in G
    OBVIOUS
  <2>1. CASE k = 0
    BY <2>1
  <2>2. CASE k > 0
    <3>1. k - 1 \in 0 .. n - 1 /\ 1 .. k - 1 \subseteq t /\ k \in t /\ k \notin 1 .. k - 1
      BY <2>2
    <3>2. 1 .. k - 1 \in H
      BY <1>2, <3>1
    <3>3. k - 1 \in G
      BY <3>1, <3>2
    <3>. QED
      BY <3>1, <3>3
  <2>. QED
    BY <2>1, <2>2
<1>3. \A t \in SUBSET (1 .. n) : t \in H
  <2>. DEFINE Up == 1 .. n
  <2>1. \A t \in SUBSET Up : (\A u \in SUBSET t : u # t => u \in H) => t \in H
    BY <1>2
  <2>2. IsFiniteSet(Up)
    BY <1>1
  <2>. HIDE DEF H, Up
  <2>3. \A t \in SUBSET Up : t \in H
    BY <2>1, <2>2, SubsetInduction
  <2>. QED
    BY <2>3 DEF Up
<1>4. (1 .. n) \in H
  BY <1>3
<1>. QED
  BY <1>4

\* A set of natural numbers up to n that is not empty has a greatest element.
LEMMA GreatestExists ==
  ASSUME NEW n \in Nat, NEW S \in SUBSET (0 .. n), S # {}
  PROVE  \E x \in S : \A y \in S : x >= y
<1>. DEFINE Has(T) == \E x \in T : \A y \in T : x >= y
            G == {k \in Nat : \A T \in SUBSET (0 .. k) : T # {} => Has(T)}
<1>1. 0 \in G
  <2>. SUFFICES ASSUME NEW T \in SUBSET (0 .. 0), T # {} PROVE Has(T)
    OBVIOUS
  <2>1. PICK x \in T : TRUE
    OBVIOUS
  <2>2. \A y \in T : y = 0
    OBVIOUS
  <2>3. \A y \in T : x >= y
    BY <2>2
  <2>. QED
    BY <2>3
<1>2. ASSUME NEW k \in 0 .. n - 1, k \in G PROVE k + 1 \in G
  <2>. SUFFICES ASSUME NEW T \in SUBSET (0 .. k + 1), T # {} PROVE Has(T)
    OBVIOUS
  <2>1. CASE k + 1 \in T
    <3>1. \A y \in T : k + 1 >= y
      OBVIOUS
    <3>. QED
      BY <2>1, <3>1
  <2>2. CASE k + 1 \notin T
    <3>1. T \in SUBSET (0 .. k)
      BY <2>2
    <3>. QED
      BY <1>2, <3>1
  <2>. QED
    BY <2>1, <2>2
<1>. HIDE DEF G
<1>3. n \in G
  BY <1>1, <1>2, UpToInduction
<1>. QED
  BY <1>3 DEF G

-----------------------------------------------------------------------------
(* Sums.  SumOn(f, S) is what the folds of the community modules come to   *)
(* for the sum of f over S.                                                *)

SumStep(f, it, s) ==
  IF s = {} THEN 0
  ELSE f[CHOOSE x \in s : TRUE] + it[s \ {CHOOSE x \in s : TRUE}]

PartialSums(f, S) == CHOOSE it : it = [s \in SUBSET S |-> SumStep(f, it, s)]

SumOn(f, S) == PartialSums(f, S)[S]

\* The function that PartialSums chooses exists: it is built up from the
\* sets of at most n elements.
LEMMA PartialSumsExist ==
  ASSUME NEW f, NEW S, IsFiniteSet(S)
  PROVE  \A s \in SUBSET S : PartialSums(f, S)[s] = SumStep(f, PartialSums(f, S), s)
<1>. DEFINE Small(n) == {s \in SUBSET S : Cardinality(s) <= n}
            Defined(n) == \E it : it = [s \in Small(n) |-> SumStep(f, it, s)]
            G == {n \in Nat : Defined(n)}
<1>1. \A s \in SUBSET S : IsFiniteSet(s) /\ Cardinality(s) \in 0 .. Cardinality(S)
  <2>. TAKE s \in SUBSET S
  <2>1. IsFiniteSet(s) /\ Cardinality(s) <= Cardinality(S)
    BY FS_Subset
  <2>2. Cardinality(s) \in Nat /\ Cardinality(S) \in Nat
    BY <2>1, FS_CardinalityType
  <2>. QED
    BY <2>1, <2>2
<1>2. 0 \in G
  <2>1. \A s \in Small(0) : s = {}
    BY <1>1, FS_EmptySet
  <2>2. [s \in Small(0) |-> 0] = [s \in Small(0) |-> SumStep(f, [t \in Small(0) |-> 0], s)]
    BY <2>1 DEF SumStep
  <2>. QED
    BY <2>2
<1>3. ASSUME NEW n \in Nat, n \in G
      PROVE  n + 1 \in G
  <2>1. PICK it : it = [s \in Small(n) |-> SumStep(f, it, s)]
    BY <1>3
  <2>. DEFINE more == [s \in Small(n + 1) |-> SumStep(f, it, s)]
  <2>2. \A s \in Small(n) : more[s] = it[s]
    <3>1. Small(n) \subseteq Small(n + 1)
      BY <1>1
    <3>. QED
      BY <2>1, <3>1
  <2>3. \A s \in Small(n + 1) : s # {} => s \ {CHOOSE x \in s : TRUE} \in Small(n)
    <3>. TAKE s \in Small(n + 1)
    <3>. HAVE s # {}
    <3>. DEFINE c == CHOOSE x \in s : TRUE
    <3>1. c \in s
      OBVIOUS
    <3>. HIDE DEF c
    <3>2. Cardinality(s \ {c}) = Cardinality(s) - 1
      BY <1>1, <3>1, FS_RemoveElement
    <3>3. s \ {c} \in SUBSET S /\ Cardinality(s) \in Nat
      BY <1>1
    <3>4. s \ {c} \in Small(n)
      BY <3>2, <3>3
    <3>. QED
      BY <3>4 DEF c
  <2>4. \A s \in Small(n + 1) : SumStep(f, it, s) = SumStep(f, more, s)
    <3>. HIDE DEF more, Small
    <3>. QED
      BY <2>2, <2>3 DEF SumStep
  <2>5. more = [s \in Small(n + 1) |-> SumStep(f, more, s)]
    <3>1. [s \in Small(n + 1) |-> SumStep(f, it, s)] = [s \in Small(n + 1) |-> SumStep(f, more, s)]
      <4>. HIDE DEF more, Small
      <4>. QED
        BY <2>4
    <3>. QED
      BY <3>1
  <2>6. Defined(n + 1)
    <3>. HIDE DEF more, Small
    <3>. QED
      BY <2>5
  <2>. QED
    BY <2>6
<1>4. Cardinality(S) \in G
  <2>1. Cardinality(S) \in Nat
    BY FS_CardinalityType
  <2>. HIDE DEF G
  <2>. QED
    BY <1>2, <1>3, <2>1, UpToInduction
<1>5. Small(Cardinality(S)) = SUBSET S
  BY <1>1
<1>6. \E it : it = [s \in SUBSET S |-> SumStep(f, it, s)]
  BY <1>4, <1>5
<1>7. PartialSums(f, S) = [s \in SUBSET S |-> SumStep(f, PartialSums(f, S), s)]
  BY <1>6 DEF PartialSums
<1>. DEFINE P == PartialSums(f, S)
<1>8. P = [s \in SUBSET S |-> SumStep(f, P, s)]
  BY <1>7
<1>. HIDE DEF P
<1>9. \A s \in SUBSET S : P[s] = SumStep(f, P, s)
  BY <1>8
<1>. QED
  BY <1>9 DEF P

\* What PartialSums has for a set does not depend on the set it was made for.
LEMMA PartialSumsAgree ==
  ASSUME NEW f, NEW S, IsFiniteSet(S), NEW s \in SUBSET S
  PROVE  PartialSums(f, S)[s] = SumOn(f, s)
<1>. DEFINE P == PartialSums(f, S)
            Q == PartialSums(f, s)
            G == {t \in SUBSET s : P[t] = Q[t]}
<1>1. IsFiniteSet(s)
  BY FS_Subset
<1>2. /\ \A t \in SUBSET S : P[t] = SumStep(f, P, t)
      /\ \A t \in SUBSET s : Q[t] = SumStep(f, Q, t)
  BY <1>1, PartialSumsExist
<1>. HIDE DEF P, Q
<1>3. ASSUME NEW t \in SUBSET s, \A u \in SUBSET t : u # t => u \in G
      PROVE  t \in G
  <2>1. t \in SUBSET S /\ P[t] = SumStep(f, P, t) /\ Q[t] = SumStep(f, Q, t)
    <3>1. t \in SUBSET S
      OBVIOUS
    <3>. QED
      BY <1>2, <3>1
  <2>2. CASE t = {}
    BY <2>1, <2>2 DEF SumStep
  <2>3. CASE t # {}
    <3>. DEFINE c == CHOOSE x \in t : TRUE
    <3>1. c \in t
      BY <2>3
    <3>2. SumStep(f, P, t) = f[c] + P[t \ {c}] /\ SumStep(f, Q, t) = f[c] + Q[t \ {c}]
      BY <2>3 DEF SumStep
    <3>. HIDE DEF c
    <3>3. t \ {c} \in SUBSET t /\ t \ {c} # t
      BY <3>1
    <3>4. t \ {c} \in G
      BY <1>3, <3>3
    <3>5. P[t \ {c}] = Q[t \ {c}]
      BY <3>4
    <3>. QED
      BY <2>1, <3>2, <3>5
  <2>. QED
    BY <2>2, <2>3
<1>4. \A t \in SUBSET s : t \in G
  <2>1. \A t \in SUBSET s : (\A u \in SUBSET t : u # t => u \in G) => t \in G
    BY <1>3
  <2>. HIDE DEF G
  <2>. QED
    BY <1>1, <2>1, SubsetInduction
<1>5. P[s] = Q[s]
  BY <1>4
<1>. QED
  BY <1>5 DEF P, Q, SumOn

\* The equation of a sum, for the element that the fold takes first.
LEMMA SumTakesOne ==
  ASSUME NEW f, NEW S, IsFiniteSet(S)
  PROVE  SumOn(f, S) = IF S = {} THEN 0
                       ELSE f[CHOOSE x \in S : TRUE] + SumOn(f, S \ {CHOOSE x \in S : TRUE})
<1>. DEFINE P == PartialSums(f, S)
<1>1. \A t \in SUBSET S : P[t] = SumStep(f, P, t)
  BY PartialSumsExist
<1>2. \A t \in SUBSET S : P[t] = SumOn(f, t)
  BY PartialSumsAgree
<1>. HIDE DEF P
<1>3. SumOn(f, S) = SumStep(f, P, S)
  <2>1. S \in SUBSET S
    OBVIOUS
  <2>. QED
    BY <1>1, <1>2, <2>1
<1>4. CASE S = {}
  BY <1>3, <1>4 DEF SumStep
<1>5. CASE S # {}
  <2>. DEFINE c == CHOOSE x \in S : TRUE
  <2>1. SumStep(f, P, S) = f[c] + P[S \ {c}]
    BY <1>5 DEF SumStep
  <2>. HIDE DEF c
  <2>2. P[S \ {c}] = SumOn(f, S \ {c})
    BY <1>2
  <2>. QED
    BY <1>3, <1>5, <2>1, <2>2 DEF c
<1>. QED
  BY <1>4, <1>5

LEMMA SumEmpty == \A f : SumOn(f, {}) = 0
  BY SumTakesOne, FS_EmptySet

\* A sum of integers is an integer, and any element can be taken out of it.
LEMMA SumRemove ==
  ASSUME NEW f, NEW S, IsFiniteSet(S), \A x \in S : f[x] \in Int
  PROVE  /\ SumOn(f, S) \in Int
         /\ \A x \in S : SumOn(f, S) = f[x] + SumOn(f, S \ {x})
<1>. DEFINE Good(t) == /\ SumOn(f, t) \in Int
                       /\ \A x \in t : SumOn(f, t) = f[x] + SumOn(f, t \ {x})
            G == {t \in SUBSET S : Good(t)}
<1>1. ASSUME NEW t \in SUBSET S, \A u \in SUBSET t : u # t => u \in G
      PROVE  Good(t)
  <2>1. IsFiniteSet(t)
    BY FS_Subset
  <2>2. CASE t = {}
    BY <2>2, SumEmpty
  <2>3. CASE t # {}
    <3>. DEFINE c == CHOOSE x \in t : TRUE
    <3>1. c \in t
      BY <2>3
    <3>2. SumOn(f, t) = f[c] + SumOn(f, t \ {c})
      BY <2>1, <2>3, SumTakesOne
    <3>. HIDE DEF c
    <3>3. Good(t \ {c})
      <4>1. t \ {c} \in SUBSET t /\ t \ {c} # t
        BY <3>1
      <4>2. t \ {c} \in G
        BY <1>1, <4>1
      <4>. QED
        BY <4>2
    <3>4. f[c] \in Int
      BY <3>1
    <3>5. ASSUME NEW x \in t, x # c
          PROVE  SumOn(f, t) = f[x] + SumOn(f, t \ {x})
      <4>1. f[x] \in Int
        OBVIOUS
      <4>2. SumOn(f, t \ {c}) = f[x] + SumOn(f, (t \ {c}) \ {x})
        BY <3>3, <3>5
      <4>3. Good(t \ {x})
        <5>1. t \ {x} \in SUBSET t /\ t \ {x} # t
          OBVIOUS
        <5>2. t \ {x} \in G
          BY <1>1, <5>1
        <5>. QED
          BY <5>2
      <4>4. SumOn(f, t \ {x}) = f[c] + SumOn(f, (t \ {x}) \ {c})
        BY <3>1, <3>5, <4>3
      <4>5. (t \ {c}) \ {x} = (t \ {x}) \ {c}
        OBVIOUS
      <4>. DEFINE rest == SumOn(f, (t \ {x}) \ {c})
      <4>6. SumOn(f, t \ {c}) = f[x] + rest /\ SumOn(f, t \ {x}) = f[c] + rest
        BY <4>2, <4>4, <4>5
      <4>7. rest \in Int
        <5>1. (t \ {x}) \ {c} \in SUBSET t /\ (t \ {x}) \ {c} # t
          OBVIOUS
        <5>2. (t \ {x}) \ {c} \in G
          BY <1>1, <5>1
        <5>. QED
          BY <5>2
      <4>. HIDE DEF rest
      <4>. QED
        BY <3>2, <3>4, <4>1, <4>6, <4>7
    <3>6. SumOn(f, t) \in Int
      BY <3>2, <3>3, <3>4
    <3>. QED
      BY <3>2, <3>5, <3>6
  <2>. QED
    BY <2>2, <2>3
<1>2. \A t \in SUBSET S : t \in G
  <2>1. \A t \in SUBSET S : (\A u \in SUBSET t : u # t => u \in G) => t \in G
    <3>. HIDE DEF Good
    <3>. QED
      BY <1>1
  <2>. HIDE DEF G
  <2>. QED
    BY <2>1, SubsetInduction
<1>. QED
  BY <1>2

\* Equal terms have equal sums.
LEMMA SumCongruence ==
  ASSUME NEW f, NEW g, NEW S, IsFiniteSet(S),
         \A x \in S : f[x] \in Int /\ g[x] = f[x]
  PROVE  SumOn(g, S) = SumOn(f, S)
<1>. DEFINE G == {t \in SUBSET S : SumOn(g, t) = SumOn(f, t)}
<1>1. ASSUME NEW t \in SUBSET S, \A u \in SUBSET t : u # t => u \in G
      PROVE  t \in G
  <2>1. IsFiniteSet(t)
    BY FS_Subset
  <2>2. CASE t = {}
    BY <2>2, SumEmpty
  <2>3. CASE t # {}
    <3>1. PICK x \in t : TRUE
      BY <2>3
    <3>2. SumOn(g, t) = g[x] + SumOn(g, t \ {x}) /\ SumOn(f, t) = f[x] + SumOn(f, t \ {x})
      BY <2>1, SumRemove
    <3>3. t \ {x} \in SUBSET t /\ t \ {x} # t
      OBVIOUS
    <3>4. t \ {x} \in G
      BY <1>1, <3>3
    <3>5. SumOn(g, t \ {x}) = SumOn(f, t \ {x}) /\ g[x] = f[x]
      BY <3>4
    <3>. QED
      BY <3>2, <3>5
  <2>. QED
    BY <2>2, <2>3
<1>2. \A t \in SUBSET S : t \in G
  <2>1. \A t \in SUBSET S : (\A u \in SUBSET t : u # t => u \in G) => t \in G
    BY <1>1
  <2>. HIDE DEF G
  <2>. QED
    BY <2>1, SubsetInduction
<1>. QED
  BY <1>2

\* One more element.
LEMMA SumAdd ==
  ASSUME NEW f, NEW S, IsFiniteSet(S), NEW a, a \notin S,
         f[a] \in Int, \A x \in S : f[x] \in Int
  PROVE  SumOn(f, S \cup {a}) = SumOn(f, S) + f[a]
<1>1. IsFiniteSet(S \cup {a}) /\ (S \cup {a}) \ {a} = S
  BY FS_AddElement
<1>. DEFINE T == S \cup {a}
<1>2. SumOn(f, T) = f[a] + SumOn(f, T \ {a})
  <2>1. IsFiniteSet(T) /\ a \in T /\ \A x \in T : f[x] \in Int
    BY <1>1
  <2>. HIDE DEF T
  <2>. QED
    BY <2>1, SumRemove
<1>3. SumOn(f, S) \in Int
  BY SumRemove
<1>4. T \ {a} = S
  BY <1>1
<1>. HIDE DEF T
<1>5. SumOn(f, T) = SumOn(f, S) + f[a]
  <2>1. SumOn(f, T) = f[a] + SumOn(f, S)
    BY <1>2, <1>4, Zenon
  <2>. QED
    BY <1>3, <2>1
<1>. QED
  BY <1>5 DEF T

\* One term changed.
LEMMA SumExcept ==
  ASSUME NEW f, NEW g, NEW S, IsFiniteSet(S), NEW a \in S,
         \A x \in S : f[x] \in Int, g[a] \in Int,
         \A x \in S \ {a} : g[x] = f[x]
  PROVE  SumOn(g, S) = SumOn(f, S) - f[a] + g[a]
<1>1. IsFiniteSet(S \ {a})
  BY FS_RemoveElement
<1>2. SumOn(g, S \ {a}) = SumOn(f, S \ {a})
  BY <1>1, SumCongruence
<1>3. \A x \in S : g[x] \in Int
  OBVIOUS
<1>4. SumOn(f, S) = f[a] + SumOn(f, S \ {a}) /\ SumOn(g, S) = g[a] + SumOn(g, S \ {a})
  BY <1>3, SumRemove
<1>5. SumOn(f, S \ {a}) \in Int /\ f[a] \in Int
  BY <1>1, SumRemove
<1>. QED
  BY <1>2, <1>4, <1>5

\* The sum over two parts.
LEMMA SumUnion ==
  ASSUME NEW f, NEW A, NEW B, IsFiniteSet(A), IsFiniteSet(B), A \cap B = {},
         \A x \in A \cup B : f[x] \in Int
  PROVE  SumOn(f, A \cup B) = SumOn(f, A) + SumOn(f, B)
<1>. DEFINE G == {t \in SUBSET B : SumOn(f, A \cup t) = SumOn(f, A) + SumOn(f, t)}
<1>1. SumOn(f, A) \in Int
  BY SumRemove
<1>2. ASSUME NEW t \in SUBSET B, \A u \in SUBSET t : u # t => u \in G
      PROVE  t \in G
  <2>1. CASE t = {}
    <3>1. A \cup t = A
      BY <2>1
    <3>. QED
      BY <1>1, <2>1, <3>1, SumEmpty
  <2>2. CASE t # {}
    <3>1. PICK x \in t : TRUE
      BY <2>2
    <3>. DEFINE rest == t \ {x}
    <3>2. /\ IsFiniteSet(rest) /\ IsFiniteSet(A \cup rest)
          /\ x \notin rest /\ x \notin A \cup rest
          /\ t = rest \cup {x} /\ A \cup t = (A \cup rest) \cup {x}
      <4>1. IsFiniteSet(rest)
        BY FS_Subset
      <4>2. IsFiniteSet(A \cup rest)
        BY <4>1, FS_Union
      <4>. QED
        BY <4>1, <4>2
    <3>3. \A y \in A \cup rest : f[y] \in Int
      OBVIOUS
    <3>4. f[x] \in Int
      OBVIOUS
    <3>5. rest \in G
      <4>1. rest \in SUBSET t /\ rest # t
        OBVIOUS
      <4>. QED
        BY <1>2, <4>1
    <3>6. SumOn(f, A \cup rest) = SumOn(f, A) + SumOn(f, rest)
      BY <3>5
    <3>. HIDE DEF rest
    <3>7. /\ SumOn(f, rest \cup {x}) = SumOn(f, rest) + f[x]
          /\ SumOn(f, (A \cup rest) \cup {x}) = SumOn(f, A \cup rest) + f[x]
          /\ SumOn(f, rest) \in Int
      BY <3>2, <3>3, <3>4, SumAdd, SumRemove
    <3>8. SumOn(f, A \cup t) = SumOn(f, A) + SumOn(f, t)
      <4>1. SumOn(f, A \cup t) = SumOn(f, A \cup rest) + f[x]
        BY <3>2, <3>7
      <4>2. SumOn(f, t) = SumOn(f, rest) + f[x]
        BY <3>2, <3>7
      <4>. QED
        BY <1>1, <3>4, <3>6, <3>7, <4>1, <4>2
    <3>. QED
      BY <3>8
  <2>. QED
    BY <2>1, <2>2
<1>3. \A t \in SUBSET B : t \in G
  <2>1. \A t \in SUBSET B : (\A u \in SUBSET t : u # t => u \in G) => t \in G
    BY <1>2
  <2>. HIDE DEF G
  <2>. QED
    BY <2>1, SubsetInduction
<1>. QED
  BY <1>3

\* A sum of natural numbers is one, and grows with the set.
LEMMA SumNat ==
  ASSUME NEW f, NEW S, IsFiniteSet(S), \A x \in S : f[x] \in Nat
  PROVE  SumOn(f, S) \in Nat
<1>. DEFINE G == {t \in SUBSET S : SumOn(f, t) \in Nat}
<1>1. ASSUME NEW t \in SUBSET S, \A u \in SUBSET t : u # t => u \in G
      PROVE  t \in G
  <2>1. IsFiniteSet(t)
    BY FS_Subset
  <2>2. CASE t = {}
    BY <2>2, SumEmpty
  <2>3. CASE t # {}
    <3>1. PICK x \in t : TRUE
      BY <2>3
    <3>2. SumOn(f, t) = f[x] + SumOn(f, t \ {x})
      BY <2>1, SumRemove
    <3>3. t \ {x} \in SUBSET t /\ t \ {x} # t
      OBVIOUS
    <3>4. t \ {x} \in G
      BY <1>1, <3>3
    <3>5. SumOn(f, t \ {x}) \in Nat /\ f[x] \in Nat
      BY <3>4
    <3>. QED
      BY <3>2, <3>5
  <2>. QED
    BY <2>2, <2>3
<1>2. \A t \in SUBSET S : t \in G
  <2>1. \A t \in SUBSET S : (\A u \in SUBSET t : u # t => u \in G) => t \in G
    BY <1>1
  <2>. HIDE DEF G
  <2>. QED
    BY <2>1, SubsetInduction
<1>. QED
  BY <1>2

LEMMA SumMonotone ==
  ASSUME NEW f, NEW S, IsFiniteSet(S), \A x \in S : f[x] \in Nat, NEW T \in SUBSET S
  PROVE  SumOn(f, T) <= SumOn(f, S)
<1>1. IsFiniteSet(T) /\ IsFiniteSet(S \ T) /\ S = T \cup (S \ T) /\ T \cap (S \ T) = {}
  BY FS_Subset
<1>2. SumOn(f, T) \in Nat /\ SumOn(f, S \ T) \in Nat
  BY <1>1, SumNat
<1>3. SumOn(f, S) = SumOn(f, T) + SumOn(f, S \ T)
  <2>1. \A x \in T \cup (S \ T) : f[x] \in Int
    OBVIOUS
  <2>2. SumOn(f, T \cup (S \ T)) = SumOn(f, T) + SumOn(f, S \ T)
    BY <1>1, <2>1, SumUnion
  <2>. QED
    BY <1>1, <2>2
<1>. QED
  BY <1>2, <1>3

LEMMA SumZero ==
  ASSUME NEW f, NEW S, IsFiniteSet(S), \A x \in S : f[x] = 0
  PROVE  SumOn(f, S) = 0
<1>. DEFINE G == {t \in SUBSET S : SumOn(f, t) = 0}
<1>1. ASSUME NEW t \in SUBSET S, \A u \in SUBSET t : u # t => u \in G
      PROVE  t \in G
  <2>1. IsFiniteSet(t)
    BY FS_Subset
  <2>2. CASE t = {}
    BY <2>2, SumEmpty
  <2>3. CASE t # {}
    <3>1. PICK x \in t : TRUE
      BY <2>3
    <3>2. \A y \in t : f[y] \in Int
      OBVIOUS
    <3>3. SumOn(f, t) = f[x] + SumOn(f, t \ {x})
      BY <2>1, <3>2, SumRemove
    <3>4. t \ {x} \in SUBSET t /\ t \ {x} # t
      OBVIOUS
    <3>5. t \ {x} \in G
      BY <1>1, <3>4
    <3>6. SumOn(f, t \ {x}) = 0 /\ f[x] = 0
      BY <3>5
    <3>. QED
      BY <3>3, <3>6
  <2>. QED
    BY <2>2, <2>3
<1>2. \A t \in SUBSET S : t \in G
  <2>1. \A t \in SUBSET S : (\A u \in SUBSET t : u # t => u \in G) => t \in G
    BY <1>1
  <2>. HIDE DEF G
  <2>. QED
    BY <2>1, SubsetInduction
<1>. QED
  BY <1>2
=============================================================================

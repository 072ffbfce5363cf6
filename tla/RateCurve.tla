----------------------------- MODULE RateCurve -----------------------------
(***************************************************************************)
(* The interest rate as a function of how much of the pool is lent         *)
(* (backend/src/interestRate.ts; calculate_interest_rate of the contract   *)
(* computes the same).  Nothing calls either yet: the amounts lent and     *)
(* available are inputs.                                                   *)
(***************************************************************************)
EXTENDS Integers

CONSTANTS
  RateScale,      \* 10_000
  RateModels,     \* the parameters of the curve
  MaxTotal        \* bound: the amounts lent and available

ASSUME RateCurveAssumption ==
  /\ RateScale \in Nat \ {0} /\ MaxTotal \in Nat
  /\ RateModels \subseteq [base : Nat, slope1 : Nat, slope2 : Nat, kink : Nat]

VARIABLES rateModel, totalBorrowed, totalLiquidity

curveVars == <<rateModel, totalBorrowed, totalLiquidity>>

CurveTypeOK ==
  /\ rateModel \in RateModels
  /\ totalBorrowed \in 0 .. MaxTotal /\ totalLiquidity \in 0 .. MaxTotal

CurveInit ==
  /\ rateModel \in RateModels
  /\ totalBorrowed = 0 /\ totalLiquidity = 0

-----------------------------------------------------------------------------
\* calcUtilization.
Utilization(borrowed, liquidity) ==
  IF liquidity <= 0 THEN 0
  ELSE LET share == (borrowed * RateScale) \div liquidity
       IN  IF share <= RateScale THEN share ELSE RateScale

InUse == Utilization(totalBorrowed, totalLiquidity)

\* Mutant: above the kink only the steep part counts.
SteepPartOnly(m, u) ==
  IF u <= m.kink THEN m.base + (m.slope1 * u) \div RateScale
  ELSE m.base + (m.slope2 * (u - m.kink)) \div RateScale

\* calcInterestRate.
InterestRate(m, u) ==
  IF u <= m.kink THEN m.base + (m.slope1 * u) \div RateScale
  ELSE m.base + (m.slope1 * m.kink) \div RateScale
              + (m.slope2 * (u - m.kink)) \div RateScale

\* Loans are made and repaid, liquidity comes and goes.
TotalsMove(borrowed, liquidity) ==
  /\ totalBorrowed' = borrowed /\ totalLiquidity' = liquidity
  /\ UNCHANGED rateModel

CurveNext == \E borrowed, liquidity \in 0 .. MaxTotal : TotalsMove(borrowed, liquidity)

CurveSpec == CurveInit /\ [][CurveNext]_curveVars

-----------------------------------------------------------------------------
(* Properties.                                                             *)

\* The rate never falls while more of the pool is lent, across the kink too,
\* however the quotients are rounded.
RateRises ==
  [][InUse' >= InUse
       => InterestRate(rateModel', InUse') >= InterestRate(rateModel, InUse)
    ]_curveVars
=============================================================================

----------------------------- MODULE MCOracle -----------------------------
(***************************************************************************)
(* Instances of Oracle for TLC.  Oracles are interchangeable: no action or *)
(* property tells two addresses apart except by equality.                  *)
(***************************************************************************)
EXTENDS Oracle

OracleSymmetry == Permutations(Oracles)
=============================================================================

---------------------------- MODULE MCCalculator ----------------------------
(***************************************************************************)
(* The calculator for TLC; names differ only in being different.           *)
(***************************************************************************)
EXTENDS Calculator, TLC

SameNames == Permutations(Names)
=============================================================================

---------------------------- MODULE MCRollupStore ----------------------------
(***************************************************************************)
(* TLC instance of RollupStore: hours of two windows, days of two hours,   *)
(* one hour of raw and two hours of rollup retention.                      *)
(***************************************************************************)
EXTENDS RollupHistory, TLC

Symmetry == Permutations(Keys) \cup Permutations(Requests)
=============================================================================

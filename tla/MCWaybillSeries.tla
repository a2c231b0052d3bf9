-------------------------- MODULE MCWaybillSeries --------------------------
(* An instance of WaybillSeries for TLC. *)
EXTENDS WaybillSeries, TLC

RequestSymmetry == Permutations(Requests)
=============================================================================

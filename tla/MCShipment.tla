----------------------------- MODULE MCShipment -----------------------------
(* Instances of Shipment for TLC. *)
EXTENDS Shipment, TLC

RequestSymmetry == Permutations(Requests) \cup Permutations(Ports)
=============================================================================

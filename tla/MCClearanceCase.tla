-------------------------- MODULE MCClearanceCase --------------------------
(* Instances of ClearanceCase for TLC: requests go by the order in which    *)
(* they arrive, which is one way of telling them apart and loses nothing.   *)
EXTENDS ClearanceCase, TLC

InOrder == \A q, r \in Requests : q < r /\ r \in Begun => q \in Begun

FileSymmetry == Permutations(Files)
=============================================================================

---------------------------- MODULE MCDelivery ------------------------------
(***************************************************************************)
(* Instances of the delivery protocol for TLC.                             *)
(***************************************************************************)
EXTENDS DeliveryProtocol, TLC

CONSTANTS k1, k2, w1, w2

Symmetry == Permutations({k1, k2}) \cup Permutations({w1, w2})
=============================================================================

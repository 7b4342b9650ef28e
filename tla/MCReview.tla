------------------------------ MODULE MCReview ------------------------------
(***************************************************************************)
(* Instances of the incident queue for TLC.                                *)
(***************************************************************************)
EXTENDS IncidentReview

CONSTANTS i1, w1, w2
=============================================================================

------------------------------- MODULE MCEset -------------------------------
(***************************************************************************)
(* Instances of the ESET client for TLC: a token of five ticks, a skew of   *)
(* two, and hops of one tick, so that tokens expire, are renewed and are   *)
(* used at the edge of their life.                                         *)
(***************************************************************************)
EXTENDS EsetClient

CONSTANTS c1, c2
=============================================================================

---------------------------- MODULE MCDetections ----------------------------
(***************************************************************************)
(* Instances of the detections collector for TLC.  Five records: 1 is old  *)
(* enough to fall out of the window, and where Refused says so holds up    *)
(* the others until then; 2 carries no usable occurTime, 3 is below the    *)
(* threshold, 4 has the key of 2 (both lack a uuid), and 5 is on a page of *)
(* its own.                                                                *)
(***************************************************************************)
EXTENDS DetectionDelivery

CONSTANTS k1, k2, k3, Never

MCKeys == {k1, k2, k3}
MCKeyOf == <<k1, k2, k3, k2, k3>>
MCRank == <<1, 3, 0, 2, 1>>
MCOccurTime == <<0, Never, 1, 1, Never>>

\* A backlog of recent records above the threshold.
BacklogKeyOf == <<k1, k2, k3>>
BacklogRank == <<1, 2, 3>>
BacklogOccurTime == <<0, 0, 0>>
=============================================================================

---------------------------- MODULE MCIncidents -----------------------------
(***************************************************************************)
(* The instance of the incidents collector for TLC.  Of three incidents,   *)
(* each on a page of its own, the first has no updateTime and is below the *)
(* threshold; the second is until it is updated; the third is behind the   *)
(* limit, and an update brings it to a time requests ask for.              *)
(***************************************************************************)
EXTENDS IncidentCollector, TLC

CONSTANTS k1, k2, k3, k4, k5

MCKeys == {k1, k2, k3, k4, k5}
MCKeyOf == <<1, 0>> :> k1 @@ <<1, 1>> :> k1 @@ <<2, 0>> :> k2 @@ <<2, 1>> :> k3
           @@ <<3, 0>> :> k4 @@ <<3, 1>> :> k5
MCRank == [v \in Incidents \X Versions |-> IF v[1] = 1 \/ v = <<2, 0>> THEN 0 ELSE 2]
MCUpdateTime == [v \in Incidents \X Versions |-> IF v[1] = 1 THEN 0 ELSE v[2] + 1]
AllKeyOf == [v \in Incidents \X Versions |-> MCKeyOf[v]]
=============================================================================

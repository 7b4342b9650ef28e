----------------------------- MODULE MCWorkflow -----------------------------
(***************************************************************************)
(* Instances of the workflow for TLC: detections and incidents whose       *)
(* fields are there, empty or missing, with an address, a path, accounts   *)
(* in a row or something no pattern matches in them, and an index of up to *)
(* eleven chunks, two of them equally close.                               *)
(***************************************************************************)
EXTENDS IncidentWorkflow, TLC

Mail == {"email"}
Path == {"home"}

Context ==
  Dict("context",
       [userName |-> Value("userName", Path), deviceUuid |-> Value("deviceUuid", {}),
        process |-> Dict("process", [path |-> Value("path", Path)]),
        message |-> Text("message", Mail, 2)])

Uuid == [uuid |-> Value("uuid", {})]
Titles == {<<>>, [displayName |-> None], [displayName |-> Text("displayName", Mail, 2)]}
Contexts == {<<>>, [context |-> Empty], [context |-> Text("context", Mail \cup Path, 3)],
             [context |-> Context]}
Objects == {<<>>, [objectName |-> Value("objectName", Path \cup {"odd"}), userName |-> Value("user", Path),
                   device |-> Value("device", {})]}

MCDetections ==
  {i @@ t @@ c @@ o @@ [occurTime |-> Value("occurTime", {})] :
     i \in {<<>>, Uuid}, t \in Titles, c \in Contexts, o \in Objects}
MCIncidents ==
  {i @@ t @@ d @@ [updateTime |-> Value("updateTime", {}), status |-> Value("status", {})] :
     i \in {<<>>, Uuid}, t \in Titles,
     d \in {<<>>, [description |-> Text("description", Marks, 1)]}}

Labels == {[prefix |-> "SEVERITY_LEVEL_", word |-> "low"],
           [prefix |-> "SEVERITY_LEVEL_", word |-> "medium"],
           [prefix |-> "", word |-> "high"],
           [prefix |-> "INCIDENT_SEVERITY_LEVEL_", word |-> "critical"],
           [prefix |-> "", word |-> "informational"]}

MCRecords ==
  {[kind |-> "detection", record |-> d, label |-> [prefix |-> "", word |-> "high"]] : d \in MCDetections}
  \cup {[kind |-> "incident", record |-> i, label |-> l] : i \in MCIncidents, l \in Labels}

Similarities == <<20, -5, 90, 40, 40, 70, 10, 60, 30, 80, 50>>
MCIndexes == {SubSeq(Similarities, 1, n) : n \in {0, 1, 3, 4, 6, 11}}
=============================================================================

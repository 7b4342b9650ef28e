------------------------------ MODULE MCSchema ------------------------------
(***************************************************************************)
(* Instances of the schema for TLC: the chain of the repository beside an  *)
(* API process and a worker.  Both write collection runs (a table with a   *)
(* column of a later revision); the API also uses the knowledge index (two *)
(* tables in one transaction, as in the revision that has them).           *)
(***************************************************************************)
EXTENDS SchemaMigration, Migrations, TLC

MCObjects == UNION {Elements(UpgradeChain[n]) : n \in 1..7}
MCTableOf == [o \in MCObjects |-> ColumnTable(o)]

MCNeeds ==
  [notifications |-> NotificationTables, approvals |-> ApprovalTables,
   collection_runs |-> CollectionRunTables, knowledge |-> KnowledgeTables,
   detection_approvals |-> DetectionApprovalTables,
   detection_runs |-> DetectionRunTables]
Processes == {"api", "worker"}
MCCalls == [s \in Processes |-> IF s = "api" THEN {"collection_runs", "knowledge"}
                                ELSE {"collection_runs"}]

\* The default width, and one an operator has chosen to get past revision 006.
BothWidths == {DefaultWidth, 64}

\* The script alone.
OnlyDefault == {DefaultWidth}
NoProcess == {}
NoCalls == <<>>
=============================================================================

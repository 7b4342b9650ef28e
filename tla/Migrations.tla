----------------------------- MODULE Migrations -----------------------------
(***************************************************************************)
(* The revisions of migrations/versions, as what each creates and drops,   *)
(* and what each repository ensures before it queries.  A table is its     *)
(* name; the only column that has a revision of its own is error_message   *)
(* of collection_runs.  CREATE EXTENSION IF NOT EXISTS in revision 002 is  *)
(* left out: it never fails on the image the compose file uses, and no     *)
(* downgrade drops it.                                                     *)
(***************************************************************************)
EXTENDS Sequences

Upgrade001 == <<"raw_eset_events", "incidents">>
Downgrade001 == <<"incidents", "raw_eset_events">>

Upgrade002 == <<"knowledge_documents", "knowledge_chunks", "incident_analyses">>
Downgrade002 == <<"incident_analyses", "knowledge_chunks", "knowledge_documents">>

Upgrade003 == <<"notification_deliveries">>
Downgrade003 == <<"notification_deliveries">>

Upgrade004 == <<"pending_approvals">>
Downgrade004 == <<"pending_approvals">>

Upgrade005 == <<"collection_runs">>
Downgrade005 == <<"collection_runs">>

Upgrade006 == <<"error_message">>
Downgrade006 == <<"error_message">>

Upgrade007 == <<"pending_detection_approvals", "detection_collection_runs">>
Downgrade007 == <<"detection_collection_runs", "pending_detection_approvals">>

UpgradeChain ==
  <<Upgrade001, Upgrade002, Upgrade003, Upgrade004, Upgrade005, Upgrade006, Upgrade007>>
DowngradeChain ==
  <<Downgrade001, Downgrade002, Downgrade003, Downgrade004, Downgrade005, Downgrade006,
    Downgrade007>>

\* Characters in the revision identifiers, from 001_initial_schema to
\* 006_add_collection_run_error_message and 007_add_detection_tables.
RevisionLength == <<18, 20, 31, 25, 23, 36, 24>>

\* Alembic creates version_num as VARCHAR(32); env.py does not change that.
DefaultWidth == 32

ColumnTable(o) == IF o = "error_message" THEN "collection_runs" ELSE o

\* What the _ensure_table methods create.
NotificationTables == <<"notification_deliveries">>
ApprovalTables == <<"pending_approvals">>
CollectionRunTables == <<"collection_runs", "error_message">>
DetectionApprovalTables == <<"pending_detection_approvals">>
DetectionRunTables == <<"detection_collection_runs">>
\* Bug: the other way round.
BugKnowledgeTables == <<"knowledge_chunks", "knowledge_documents">>
KnowledgeTables == <<"knowledge_documents", "knowledge_chunks">>

=============================================================================

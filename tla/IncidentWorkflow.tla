-------------------------- MODULE IncidentWorkflow --------------------------
(***************************************************************************)
(* What becomes of one record: the collector, the backfill script or       *)
(* POST /analyses/run asks for an analysis, builds the message with it or  *)
(* without it, and whoever drives the agent graph fills its state from the *)
(* analysis and the policy and runs it until it ends, more than once if    *)
(* need be.  Nothing in the repository drives the graph yet: Drive and     *)
(* Resume are the caller its state was made for.                           *)
(***************************************************************************)
EXTENDS Analysis, AgentGraph

CONSTANTS
  Records,        \* [kind, record, label]: what ESET may list
  Indexes,        \* what the knowledge index may hold: similarities in a row
  MaxInvocations  \* bound of the invocations of the graph for one record

ASSUME WorkflowAssumption ==
  /\ \A r \in Records :
       /\ r.kind \in {"detection", "incident"}
       /\ \A k \in DOMAIN r.record : IsValue(r.record[k])
       /\ \A k \in {"uuid", "occurTime", "createTime", "updateTime"} :
            Get(r.record, k).marks = {} /\ Get(r.record, k).accounts = 0
  /\ \A index \in Indexes : index \in Seq(Int)
  /\ MaxInvocations \in Nat

VARIABLES
  phase,        \* "idle", "received", "analysed" or "built"
  input,        \* the record in hand
  source,       \* "feed", or "queue": the payload a reviewer's script reads
  index,        \* the knowledge index when it was searched
  analysis,
  message,
  invocations

flow == <<phase, input, source, index, analysis, message>>
workflow == <<flow, invocations, graph>>

NoMessage == <<>>
Kept == [kind |-> "none"]

InputSeverity == Parse(input.label)
Payload(r) == IF r.kind = "detection" THEN DetectionPayload(r.record) ELSE IncidentPayload(r.record)
InHand == IF source = "queue" THEN Payload(input) ELSE input.record

\* The incident the analyzer is given: by the script, from a payload.
Asked ==
  IF input.kind = "incident" THEN FromIncident(InHand, InputSeverity)
  ELSE IF source = "queue" THEN FromPayload(InHand, InputSeverity)
  ELSE FromDetection(InHand, InputSeverity)

Build(r, payload, result) ==
  IF r.kind = "detection" THEN DetectionMessage(payload, result)
  ELSE IncidentMessage(payload, result)

WorkflowTypeOK ==
  /\ phase \in {"idle", "received", "analysed", "built"}
  /\ source \in {"feed", "queue"}
  /\ index \in Indexes \cup {<<>>}
  /\ phase # "idle" => input \in Records
  /\ analysis.done => /\ analysis.confidence \in 0..100
                      /\ analysis.rootConfidence \in 0..100
                      /\ analysis.coverage \in 0..100
                      /\ analysis.evidence # {}
  /\ invocations \in 0..MaxInvocations
  /\ GraphTypeOK

WorkflowInit ==
  /\ phase = "idle"
  /\ input = Kept
  /\ source = "feed"
  /\ index = <<>>
  /\ analysis = NoAnalysis
  /\ message = NoMessage
  /\ invocations = 0
  /\ GraphInit

-----------------------------------------------------------------------------
\* A record comes up in the feed or in a queue.
Receive ==
  /\ phase \in {"idle", "built"}
  /\ node = "end"
  /\ phase' = "received"
  /\ input' \in Records
  /\ source' \in {"feed", "queue"}
  /\ index' = <<>>
  /\ analysis' = NoAnalysis
  /\ message' = NoMessage
  /\ invocations' = 0
  /\ node' = "end" /\ state' = <<>> /\ passed' = {}

\* AnalyzeIncident.execute, for the collectors and the script.
Analyse ==
  /\ phase = "received"
  /\ input.kind = "detection" \/ source = "feed"
  /\ index' \in Indexes
  /\ analysis' = Analyze(Asked, Search(index', SearchLimit))
  /\ phase' = "analysed"
  /\ UNCHANGED <<input, source, message, invocations, graph>>

\* The search or the gateway raises, or no analyzer was passed, as in
\* api/dependencies.py, and collector or script go on without; a reviewer who
\* approves a row asks for no analysis.
GoWithout ==
  /\ phase = "received"
  /\ phase' = "analysed"
  /\ UNCHANGED <<input, source, index, analysis, message, invocations, graph>>

BuildMessage ==
  /\ phase = "analysed"
  /\ message' = Build(input, InHand, analysis)
  /\ phase' = "built"
  /\ UNCHANGED <<input, source, index, analysis, invocations, graph>>

-----------------------------------------------------------------------------
Decision == Evaluate(InputSeverity, analysis, 0, 0)

Drive ==
  /\ phase = "built"
  /\ analysis.done
  /\ invocations = 0 /\ MaxInvocations > 0
  /\ invocations' = 1
  /\ Invoke([confidence |-> analysis.confidence, severity |-> InputSeverity,
             requires_human_approval |-> Decision.approval])
  /\ UNCHANGED flow

\* The same state again, decided on or not.
Resume ==
  /\ invocations \in 1..MaxInvocations - 1
  /\ invocations' = invocations + 1
  /\ Invoke(state)
  /\ UNCHANGED flow

WorkflowNext ==
  \/ Receive \/ Analyse \/ GoWithout \/ BuildMessage
  \/ Drive \/ Resume
  \/ Step /\ UNCHANGED <<flow, invocations>>
  \/ Decide /\ UNCHANGED <<flow, invocations>>

WorkflowSpec == WorkflowInit /\ [][WorkflowNext]_workflow

\* LangGraph runs an invocation to its end; nothing else has to happen.
FairWorkflowSpec ==
  WorkflowSpec /\ WF_workflow(Step /\ UNCHANGED <<flow, invocations>>)

-----------------------------------------------------------------------------
\* What a message shows as it is: the names of a detection, by policy, and what
\* the gateway has counted.
AsIs == {"User", "Device", "Confidence", "Coverage", "Evidence"}

\* Every other text of a message has been through the sanitizer, whatever way the
\* record came and wherever the builder found the text, the summary's quote of the
\* title included: nothing is left of what one pass takes out.  That is less than
\* the notice of a detection's message says, "email addresses and local user paths
\* are pseudonymized in free-text fields" (detection_notification_builder.py:72-76):
\* a path within a context stays, as its JSON has two backslashes for one.
TextsAreSanitized ==
  message # NoMessage =>
    \A f \in DOMAIN message \ AsIs :
      message[f].marks \subseteq (IF message[f].json THEN {"home", "odd"} ELSE {"odd"})

\* What is sent from a queue is what the collector would have sent of the same
\* record, with the sanitizer gone over its texts once more: the payload has lost
\* the process of the context, and what was empty is "N/A" in it, nothing else.
QueueKeepsMessage ==
  message # NoMessage /\ source = "queue" =>
    LET direct == Build(input, input.record, analysis)
        empty == {f \in {"displayName", "objectName", "context", "description"} :
                    Falsy(Get(input.record, f))}
        field == [displayName |-> "Title", objectName |-> "Object",
                  context |-> "Description", description |-> "Description"]
    IN \A f \in DOMAIN direct \ {field[e] : e \in empty} :
         message[f] = IF f \in AsIs \cup {"Summary"} THEN direct[f] ELSE Sanitize(direct[f])

\* The ledger recognises a queued record the collector has sent, and the other
\* way round, if the record has its uuid and its time.
QueueKeepsKey ==
  phase # "idle" /\ ~Falsy(Get(input.record, "uuid")) =>
    IF input.kind = "detection"
      THEN ~Falsy(Get(input.record, "occurTime"))
             => DetectionKey(InHand) = DetectionKey(input.record)
      ELSE ~Falsy(Get(input.record, "updateTime"))
             => IncidentKey(InHand) = IncidentKey(input.record)

\* No incident gets past the critique without evidence, whatever else speaks
\* for it: the sum of all other credits stays below the router's threshold.
NothingUngroundedPasses ==
  passed \cap {"security_review", "compose", "notify"} # {} => analysis.evidence # {NoEvidence}

\* Whatever the policy lets out without a person the graph notifies: its
\* threshold is the lower one and it asks nobody.
GatesAgree ==
  invocations > 0 /\ Decision.allowed =>
    /\ passed \cap {"approval", "reject"} = {}
    /\ node = "end" => "notify" \in passed

\* The graph notifies nothing grave before a person has approved it, over all its
\* invocations, and what a person rejected never.  Of the graph alone: the
\* collectors send grave records without asking anybody.
GraveNeedsApproval ==
  "notify" \in passed /\ Grave(InputSeverity) =>
    GetOr(state, "approval_status", "none") = "approved"

\* Every invocation ends.
InvocationsEnd == node # "end" ~> node = "end"

=============================================================================

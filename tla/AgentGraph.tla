----------------------------- MODULE AgentGraph -----------------------------
(***************************************************************************)
(* The LangGraph workflow of an incident (build_incident_graph).  Its      *)
(* state is a function on the keys it has, as the TypedDict with           *)
(* total=False; a node changes the state and the graph follows an edge.    *)
(* The nodes are what the code has today: placeholders that fill in keys.  *)
(* Of the dicts critique and notification_payload the state has the one    *)
(* entry a router or a node reads; "errors", which nothing reads, is left  *)
(* out.                                                                    *)
(* A finished invocation may be repeated with the state it left, above all *)
(* one that ended waiting for an approval.                                 *)
(***************************************************************************)
EXTENDS Integers

VARIABLES
  node,   \* the node that runs next; "end" when no invocation is under way
  state,  \* IncidentAgentState
  passed  \* history: nodes this invocation has run

graph == <<node, state, passed>>

Nodes == {"intake", "retrieve", "investigate", "root_cause", "remediation", "critique",
          "security_review", "approval", "compose", "notify", "reject"}
Statuses == {"not_required", "pending", "approved", "rejected"}

Has(s, key) == key \in DOMAIN s
GetOr(s, key, default) == IF Has(s, key) THEN s[key] ELSE default
Put(s, key, value) ==
  [k \in DOMAIN s \cup {key} |-> IF k = key THEN value ELSE s[k]]
SetDefault(s, key, value) == IF Has(s, key) THEN s ELSE Put(s, key, value)

-----------------------------------------------------------------------------
(* Nodes *)

IntakeNode(s) == SetDefault(s, "retry_count", 0)
RetrieveNode(s) == SetDefault(s, "retrieved_evidence", "none")
InvestigateNode(s) == Put(s, "investigation", "pending_llm_gateway")
RootCauseNode(s) == Put(s, "root_cause", "pending_llm_gateway")
RemediationNode(s) == Put(s, "remediation", "pending_llm_gateway")

\* Bug: the critique finds an unsupported claim, and no node counts the retries.
BugCritiqueNode(s) == SetDefault(Put(s, "unsupported_claim_count", 1), "confidence", 0)

\* The critique finds no unsupported claim, whatever the state.
CritiqueNode(s) == SetDefault(Put(s, "unsupported_claim_count", 0), "confidence", 0)

\* The key is "passed"; the router asks for "pass".
SecurityReviewNode(s) == Put(s, "security_review", [passed |-> TRUE])
ApprovalNode(s) == SetDefault(s, "approval_status", "pending")

RejectNode(s) == Put(s, "approval_status", "rejected")
ComposeNode(s) == SetDefault(s, "delivery_status", "none")
NotifyNode(s) == Put(s, "delivery_status", "pending_notifier")

Work(n, s) ==
  CASE n = "intake" -> IntakeNode(s)
    [] n = "retrieve" -> RetrieveNode(s)
    [] n = "investigate" -> InvestigateNode(s)
    [] n = "root_cause" -> RootCauseNode(s)
    [] n = "remediation" -> RemediationNode(s)
    [] n = "critique" -> CritiqueNode(s)
    [] n = "security_review" -> SecurityReviewNode(s)
    [] n = "approval" -> ApprovalNode(s)
    [] n = "compose" -> ComposeNode(s)
    [] n = "notify" -> NotifyNode(s)
    [] n = "reject" -> RejectNode(s)

-----------------------------------------------------------------------------
(* Edges *)

RetryLimit == 2

\* Bug: the confidence must reach what the gateway gives at most.
BugAfterCritique(s) ==
  IF GetOr(s, "confidence", 0) < 85 THEN "reject" ELSE "security_review"

AfterCritique(s) ==
  IF GetOr(s, "unsupported_claim_count", 0) > 0
    THEN IF GetOr(s, "retry_count", 0) < RetryLimit THEN "investigate" ELSE "reject"
    ELSE IF GetOr(s, "confidence", 0) < 65 THEN "reject" ELSE "security_review"

AfterSecurityReview(s) ==
  LET review == GetOr(s, "security_review", <<>>) IN
    IF Has(review, "pass") /\ review["pass"] = FALSE THEN "reject"
    ELSE IF GetOr(s, "requires_human_approval", FALSE) THEN "approval" ELSE "compose"

\* Bug: only a rejection stops the notification.
BugAfterApproval(s) ==
  IF GetOr(s, "approval_status", "pending") = "rejected" THEN "reject" ELSE "compose"

AfterApproval(s) ==
  LET status == GetOr(s, "approval_status", "pending") IN
    IF status = "approved" THEN "compose" ELSE IF status = "rejected" THEN "reject" ELSE "end"

Edge == [intake |-> "retrieve", retrieve |-> "investigate", investigate |-> "root_cause",
         root_cause |-> "remediation", remediation |-> "critique", compose |-> "notify",
         notify |-> "end", reject |-> "end"]

Follow(n, s) ==
  CASE n = "critique" -> AfterCritique(s)
    [] n = "security_review" -> AfterSecurityReview(s)
    [] n = "approval" -> AfterApproval(s)
    [] OTHER -> Edge[n]

-----------------------------------------------------------------------------
GraphTypeOK ==
  /\ node \in Nodes \cup {"end"}
  /\ passed \subseteq Nodes
  /\ GetOr(state, "confidence", 0) \in 0..100
  /\ GetOr(state, "retry_count", 0) \in Nat
  /\ GetOr(state, "approval_status", "pending") \in Statuses

GraphInit ==
  /\ node = "end"
  /\ state = <<>>
  /\ passed = {}

\* The caller: with a state of its own, or with the one the graph returned.
Invoke(s) ==
  /\ node = "end"
  /\ node' = "intake"
  /\ state' = s
  /\ passed' = {}

\* A node and its edge.
Step ==
  /\ node # "end"
  /\ state' = Work(node, state)
  /\ node' = Follow(node, state')
  /\ passed' = passed \cup {node}

\* A person decides on what waits.
Decide ==
  /\ node = "end"
  /\ "approval" \in passed
  /\ state["approval_status"] = "pending"
  /\ \E verdict \in {"approved", "rejected"} :
       state' = [state EXCEPT !["approval_status"] = verdict]
  /\ UNCHANGED <<node, passed>>

=============================================================================

------------------------------ MODULE Analysis ------------------------------
(***************************************************************************)
(* The local analysis of an incident and the decision whether its result   *)
(* may be notified without a person: search of the knowledge index,        *)
(* LocalAnalysisGateway, OutputPolicy.  Shares are in hundredths; no sum   *)
(* of the code's decimals lies on one of its thresholds, so the rounding   *)
(* of floats decides nothing.  Everything is a function of the severity,   *)
(* the summary and the chunks found.                                       *)
(***************************************************************************)
EXTENDS Messages, Integers, Sequences, FiniteSets, FiniteSetsExt

\* A label of ESET: "SEVERITY_LEVEL_HIGH", "INCIDENT_SEVERITY_LEVEL_HIGH",
\* "high" or anything else; the part behind "_level_" decides.
Severities == {"low", "medium", "high", "critical"}
Parse(label) == IF label.word \in Severities THEN label.word ELSE "low"

Grave(severity) == severity \in {"high", "critical"}

-----------------------------------------------------------------------------
(* The incident an analysis is asked for *)

Incident(title, severity, summary) ==
  [title |-> title, severity |-> severity, summary |-> summary]

\* str(None) is a text like any other: a detection without context has a
\* summary, one with an empty context has none.
FromDetection(d, severity) ==
  LET id == Or(Or(Get(d, "uuid"), Get(d, "displayName")), Value("unknown", {}))
      context == Get(d, "context")
  IN Incident(Or(Get(d, "displayName"), id), severity,
              IF context = None THEN Value("str(None)", {}) ELSE Stringify(context))

\* The script's, from the payload of a queue.
FromPayload(payload, severity) == FromDetection(payload, severity)

FromIncident(i, severity) ==
  LET id == Or(Or(Get(i, "uuid"), Get(i, "displayName")), Value("unknown", {}))
  IN Incident(Or(Get(i, "displayName"), id), severity, Stringify(Or(Get(i, "description"), None)))

-----------------------------------------------------------------------------
(* Search and gateway *)

SearchLimit == 10

\* index gives the similarity of the chunks to the title in the order the SELECT
\* returns them; the sort is stable, so that of two equal ones the first is better.
Better(index, n) ==
  {m \in DOMAIN index : index[m] > index[n] \/ (index[m] = index[n] /\ m < n)}

Search(index, limit) ==
  [k \in 1..Min({limit, Len(index)}) |->
     CHOOSE n \in DOMAIN index : Cardinality(Better(index, n)) = k - 1]

NoEvidence == 0
\* evidence[:5], or "no-supporting-evidence".
Cited(found) ==
  IF found = <<>> THEN {NoEvidence}
  ELSE {found[n] : n \in 1..Min({5, Len(found)})}

\* Bug: the placeholder for no evidence counts as one.
BugConfidence(incident, found) ==
  Min({35 + (IF Falsy(incident.summary) THEN 0 ELSE 15)
        + 8 * Max({1, Min({5, Len(found)})})
        + (IF Grave(incident.severity) THEN 10 ELSE 0), 85})

Confidence(incident, found) ==
  LET base == 35
        + (IF Falsy(incident.summary) THEN 0 ELSE 15)
        + 8 * Min({5, Len(found)})
        + (IF Grave(incident.severity) THEN 10 ELSE 0)
  IN Min({base, 85})

FalsePositive(severity) ==
  IF Grave(severity) THEN 25 ELSE IF severity = "medium" THEN 40 ELSE 55

Coverage(found) == Min({20 * Len(found), 100})

Analyze(incident, found) ==
  LET confidence == Confidence(incident, found)
  IN [done |-> TRUE,
      summary |-> Text("summary", incident.title.marks, incident.title.accounts),
      evidence |-> Cited(found),
      confidence |-> confidence,
      rootConfidence |-> Max({confidence - 20, 10}),
      falsePositive |-> FalsePositive(incident.severity),
      coverage |-> Coverage(found),
      destructive |-> Grave(incident.severity)]

\* What the caller has when the search or the gateway raises.
NoAnalysis == [done |-> FALSE]

-----------------------------------------------------------------------------
(* The policy *)

\* allowed when there is no reason against it; PII and secret findings count
\* alike.
Evaluate(severity, analysis, unsupported, findings) ==
  LET approval == Grave(severity) \/ analysis.destructive
  IN [approval |-> approval,
      allowed |-> /\ ~approval
                  /\ unsupported = 0
                  /\ findings = 0
                  /\ analysis.confidence >= 80
                  /\ analysis.coverage >= 75]

=============================================================================

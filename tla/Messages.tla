------------------------------ MODULE Messages ------------------------------
(***************************************************************************)
(* The messages built for Discord and the payloads kept in the approval    *)
(* queues, as far as they differ in what they show of a record and in what *)
(* the sanitizer has gone over.                                            *)
(*                                                                         *)
(* A value is where it comes from, the personal data in it, whether it is  *)
(* JSON text, and its entries when it is a dict.  A record of ESET is a    *)
(* function on the keys it has.                                            *)
(***************************************************************************)
EXTENDS Integers, FiniteSetsExt

\* Personal data by what the sanitizer's patterns make of it.  "email" is what
\* one matches wherever it stands: an address with no letter next to it, a home
\* on Unix.  "home" is C:\Users\name\ as it is written, which JSON is not: there
\* each backslash is two.  "odd" is what none matches: an address before a Korean
\* particle, C:\Users\name without another backslash, a name of two words.
Marks == {"email", "home", "odd"}

\* accounts is how many DOMAIN\account follow each other, at most, in one line
\* with nothing but words between them.
Text(source, marks, accounts) ==
  [source |-> source, marks |-> marks, accounts |-> accounts, json |-> FALSE, items |-> <<>>]
Value(source, marks) == Text(source, marks, 0)
Dict(source, items) ==
  [source |-> source, items |-> items, json |-> TRUE,
   marks |-> UNION {items[k].marks : k \in DOMAIN items},
   accounts |-> Max({items[k].accounts : k \in DOMAIN items})]

None == Value("None", {})
Empty == Value("", {})
Falsy(v) == v \in {None, Empty}
IsDict(v) == DOMAIN v.items # {}

Get(record, key) == IF key \in DOMAIN record THEN record[key] ELSE None
Or(v, w) == IF Falsy(v) THEN w ELSE v

\* {**rest, **first}
Over(first, rest) ==
  [k \in DOMAIN first \cup DOMAIN rest |-> IF k \in DOMAIN first THEN first[k] ELSE rest[k]]

\* What ESET lists.  "None" and "" are the sources of nothing but the missing
\* and the empty value; entries of entries are as deep as the builders look.
IsText(v) ==
  /\ v = [source |-> v.source, marks |-> v.marks, accounts |-> v.accounts,
          json |-> v.json, items |-> v.items]
  /\ v.marks \subseteq Marks
  /\ v.accounts \in Nat
  /\ v.json \in BOOLEAN
  /\ v.source = "None" => v = None
  /\ v.source = "" => v = Empty
IsValue(v) ==
  /\ IsText(v)
  /\ \A k \in DOMAIN v.items :
       IsText(v.items[k]) /\ \A j \in DOMAIN v.items[k].items : IsText(v.items[k].items[j])

\* json.dumps for a dict, str() for the rest.
Stringify(v) == [v EXCEPT !.items = <<>>]

\* sanitize_text.  The patterns for paths and accounts want one backslash, and
\* that for accounts none with nothing but words before it: of accounts in a row
\* a pass masks the last one.
Sanitize(t) ==
  [source |-> t.source, json |-> t.json, items |-> t.items,
   marks |-> t.marks \ (IF t.json THEN {"email"} ELSE {"email", "home"}),
   accounts |-> IF t.json \/ t.accounts = 0 THEN t.accounts ELSE t.accounts - 1]

NotAvailable == Value("N/A", {})
SafeText(v) == Sanitize(Stringify(Or(v, NotAvailable)))
RawText(v) == Stringify(Or(v, NotAvailable))

-----------------------------------------------------------------------------
(* Detections *)

\* The fallbacks into the context, when it is a dict.
Entry(context, key) == IF IsDict(context) THEN Get(context.items, key) ELSE None
UserName(d, context) == Or(Get(d, "userName"), Entry(context, "userName"))
Device(d, context) ==
  Or(Get(d, "device"),
     LET uuid == Entry(context, "deviceUuid")
     IN IF Falsy(uuid) THEN Entry(context, "device")
        ELSE [uuid EXCEPT !.source = "uuid:"])
ObjectName(d, context) ==
  Or(Get(d, "objectName"),
     LET process == Entry(context, "process")
     IN IF IsDict(process) THEN Or(Entry(process, "path"), Entry(process, "name")) ELSE None)

\* The fields of a local analysis.  Its summary quotes the title of the
\* incident it was given, which nothing has sanitized.
AnalysisFields(analysis) ==
  [Summary |-> SafeText(analysis.summary),
   Confidence |-> analysis.confidence,
   Coverage |-> analysis.coverage,
   Evidence |-> analysis.evidence]

Attach(fields, analysis) ==
  IF analysis.done THEN Over(fields, AnalysisFields(analysis)) ELSE fields

DetectionMessage(d, analysis) ==
  LET context == Get(d, "context")
      fields ==
        [Title |-> SafeText(Or(Get(d, "displayName"), Get(d, "uuid"))),
         Description |-> Sanitize(Stringify(Or(context, Value("No context", {})))),
         Category |-> SafeText(Get(d, "category")),
         Occurred |-> SafeText(Get(d, "occurTime")),
         User |-> RawText(UserName(d, context)),
         Device |-> RawText(Device(d, context)),
         Object |-> SafeText(ObjectName(d, context)),
         ObjectURL |-> SafeText(Get(d, "objectUrl")),
         SHA1 |-> SafeText(Get(d, "objectHashSha1"))]
  IN Attach(fields, analysis)

DetectionKeys ==
  {"uuid", "displayName", "context", "severityLevel", "category", "occurTime",
   "objectName", "objectHashSha1", "objectUrl", "userName", "device"}
RawKeys == {"userName", "device"}

\* Bug: the names are copied from the top level only.
BugDetectionPayload(d) ==
  [k \in DetectionKeys \cap DOMAIN d |->
     IF k \in RawKeys THEN RawText(d[k]) ELSE SafeText(d[k])]

\* What the queue keeps of a detection: text throughout, so the context is no
\* dict any more; user and device are looked up before that.
DetectionPayload(d) ==
  LET context == Get(d, "context")
      found == [userName |-> UserName(d, context), device |-> Device(d, context)]
      names == {k \in RawKeys : ~Falsy(found[k])}
  IN Over([k \in names |-> RawText(found[k])],
          [k \in DetectionKeys \cap DOMAIN d |->
             IF k \in RawKeys THEN RawText(d[k]) ELSE SafeText(d[k])])

\* str(... or "unknown").  The key is a hash of the two texts.
DetectionKey(d) ==
  <<Stringify(Or(Or(Get(d, "uuid"), Get(d, "displayName")), Value("unknown", {}))),
    Stringify(Or(Get(d, "occurTime"), Value("unknown", {})))>>

-----------------------------------------------------------------------------
(* Incidents *)

\* Bug: the description is not sanitized.
BugIncidentMessage(i, analysis) ==
  Attach([Title |-> SafeText(Or(Get(i, "displayName"), Get(i, "uuid"))),
          Description |-> RawText(Get(i, "description"))], analysis)

IncidentMessage(i, analysis) ==
  LET fields ==
        [Title |-> SafeText(Or(Get(i, "displayName"), Get(i, "uuid"))),
         Description |-> Sanitize(Stringify(Or(Get(i, "description"), Value("No description", {})))),
         Status |-> SafeText(Get(i, "status")),
         Created |-> SafeText(Get(i, "createTime")),
         Updated |-> SafeText(Get(i, "updateTime"))]
  IN Attach(fields, analysis)

\* Bug: the time of the update is left out.
BugIncidentKeys ==
  {"uuid", "displayName", "description", "severity", "status", "createTime"}

IncidentKeys ==
  {"uuid", "displayName", "description", "severity", "status", "createTime", "updateTime"}

IncidentPayload(i) == [k \in IncidentKeys \cap DOMAIN i |-> SafeText(i[k])]

IncidentKey(i) ==
  <<Stringify(Or(Or(Get(i, "uuid"), Get(i, "displayName")), Value("unknown", {}))),
    Stringify(Or(Or(Get(i, "updateTime"), Get(i, "createTime")), Value("unknown", {})))>>

=============================================================================

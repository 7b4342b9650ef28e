--------------------------- MODULE IncidentProofs ---------------------------
(***************************************************************************)
(* Proofs about what becomes of an incident, or of a detection on the same *)
(* way.  First the workflow of one record: what the messages and the       *)
(* payloads of the queues show of it, for all records, then what the       *)
(* search finds, then which nodes of the agent graph its analysis reaches, *)
(* for any index and any number of invocations.  At the end the approvals  *)
(* of incidents (IncidentReview), for any number of use cases, incidents,  *)
(* versions, restarts and failures.                                        *)
(***************************************************************************)
EXTENDS IncidentReview, IncidentWorkflow, FiniteSetTheorems, TLAPS


-----------------------------------------------------------------------------
(* Values *)

\* The values every builder falls back to.
LEMMA PlainTexts ==
  /\ None = [source |-> "None", marks |-> {}, accounts |-> 0, json |-> FALSE, items |-> <<>>]
  /\ Empty = [source |-> "", marks |-> {}, accounts |-> 0, json |-> FALSE, items |-> <<>>]
  /\ NotAvailable = [source |-> "N/A", marks |-> {}, accounts |-> 0, json |-> FALSE, items |-> <<>>]
  /\ IsText(None) /\ IsText(Empty) /\ IsText(NotAvailable)
  /\ DOMAIN None.items = {} /\ DOMAIN Empty.items = {}
BY DEF None, Empty, NotAvailable, Value, Text, IsText

\* What a pass of the sanitizer takes out of a text, and how many accounts it
\* leaves of a row.
Masked(json) == IF json THEN {"email"} ELSE {"email", "home"}
Fewer(json, n) == IF json \/ n = 0 THEN n ELSE n - 1

\* EXCEPT on a value, field by field.
LEMMA RecordFacts ==
  ASSUME NEW v, IsText(v), NEW x
  PROVE  /\ [v EXCEPT !.items = x]
              = [source |-> v.source, marks |-> v.marks, accounts |-> v.accounts,
                 json |-> v.json, items |-> x]
         /\ [v EXCEPT !.source = x]
              = [source |-> x, marks |-> v.marks, accounts |-> v.accounts,
                 json |-> v.json, items |-> v.items]
<1>1. \A a, b, n, c, d, w :
        w = [source |-> a, marks |-> b, accounts |-> n, json |-> c, items |-> d]
        => /\ [w EXCEPT !.items = x]
             = [source |-> a, marks |-> b, accounts |-> n, json |-> c, items |-> x]
           /\ [w EXCEPT !.source = x]
             = [source |-> x, marks |-> b, accounts |-> n, json |-> c, items |-> d]
  OBVIOUS
<1>2. v = [source |-> v.source, marks |-> v.marks, accounts |-> v.accounts,
           json |-> v.json, items |-> v.items]
  BY DEF IsText
<1>3. \A a, b, n, c, d :
        v = [source |-> a, marks |-> b, accounts |-> n, json |-> c, items |-> d]
        => /\ [v EXCEPT !.items = x]
             = [source |-> a, marks |-> b, accounts |-> n, json |-> c, items |-> x]
           /\ [v EXCEPT !.source = x]
             = [source |-> x, marks |-> b, accounts |-> n, json |-> c, items |-> d]
  BY <1>1
<1>4. QED BY <1>2, <1>3

LEMMA SanitizeForm ==
  ASSUME NEW v
  PROVE  Sanitize(v) = [source |-> v.source, json |-> v.json, items |-> v.items,
                        marks |-> v.marks \ Masked(v.json),
                        accounts |-> Fewer(v.json, v.accounts)]
BY DEF Sanitize, Masked, Fewer

LEMMA StringifyForm ==
  ASSUME NEW v, IsText(v)
  PROVE  Stringify(v) = [source |-> v.source, marks |-> v.marks, accounts |-> v.accounts,
                         json |-> v.json, items |-> <<>>]
BY RecordFacts DEF Stringify

\* Only the missing and the empty value have the sources of nothing.
LEMMA TextForm ==
  ASSUME NEW a, NEW b \in SUBSET Marks, NEW n \in Nat, NEW c \in BOOLEAN, NEW d,
         a \in {"None", ""} => b = {} /\ n = 0 /\ c = FALSE /\ d = <<>>
  PROVE  IsText([source |-> a, marks |-> b, accounts |-> n, json |-> c, items |-> d])
BY PlainTexts DEF IsText

LEMMA TextFields ==
  ASSUME NEW v, IsText(v)
  PROVE  /\ v.marks \in SUBSET Marks /\ v.accounts \in Nat /\ v.json \in BOOLEAN
         /\ v.source \in {"None", ""}
              => v.marks = {} /\ v.accounts = 0 /\ v.json = FALSE /\ v.items = <<>>
BY PlainTexts DEF IsText

LEMMA FewerFacts ==
  ASSUME NEW n \in Nat, NEW json \in BOOLEAN
  PROVE  Fewer(json, n) \in Nat /\ (n = 0 => Fewer(json, n) = 0)
BY DEF Fewer

LEMMA TextOfString ==
  ASSUME NEW v, IsText(v)
  PROVE  IsText(Stringify(v)) /\ IsText(Sanitize(v))
<1>1. IsText(Stringify(v))
  <2>1. IsText([source |-> v.source, marks |-> v.marks, accounts |-> v.accounts,
                json |-> v.json, items |-> <<>>])
    BY TextForm, TextFields
  <2> QED BY <2>1, StringifyForm
<1>2. IsText(Sanitize(v))
  <2> DEFINE m == v.marks \ Masked(v.json)
             n == Fewer(v.json, v.accounts)
  <2>1. /\ m \in SUBSET Marks /\ n \in Nat
        /\ v.source \in {"None", ""} => m = {} /\ n = 0
    BY TextFields, FewerFacts
  <2> HIDE DEF m, n
  <2>2. IsText([source |-> v.source, marks |-> m, accounts |-> n,
                json |-> v.json, items |-> v.items])
    BY <2>1, TextForm, TextFields
  <2> QED BY <2>2, SanitizeForm DEF m, n
<1>3. QED BY <1>1, <1>2

\* What is in a text behind the sanitizer, and that it is text already.
Clean(v) == v.marks \subseteq (IF v.json THEN {"home", "odd"} ELSE {"odd"})

LEMMA CleanText ==
  ASSUME NEW v, IsText(v)
  PROVE  LET t == Sanitize(Stringify(v))
         IN /\ t = [source |-> v.source, json |-> v.json, items |-> <<>>,
                    marks |-> v.marks \ Masked(v.json),
                    accounts |-> Fewer(v.json, v.accounts)]
            /\ IsText(t) /\ Clean(t) /\ Stringify(t) = t
<1> DEFINE s == Stringify(v)
           t == Sanitize(s)
<1>1. s = [source |-> v.source, marks |-> v.marks, accounts |-> v.accounts,
           json |-> v.json, items |-> <<>>] /\ IsText(s)
  BY StringifyForm, TextOfString
<1>2. t = [source |-> v.source, json |-> v.json, items |-> <<>>,
           marks |-> v.marks \ Masked(v.json), accounts |-> Fewer(v.json, v.accounts)]
      /\ IsText(t)
  <2> HIDE DEF s
  <2>1. /\ s.source = v.source /\ s.marks = v.marks /\ s.accounts = v.accounts
        /\ s.json = v.json /\ s.items = <<>>
    BY <1>1
  <2>2. IsText(t)
    BY <1>1, TextOfString
  <2>3. Sanitize(s) = [source |-> s.source, json |-> s.json, items |-> s.items,
                       marks |-> s.marks \ Masked(s.json),
                       accounts |-> Fewer(s.json, s.accounts)]
    BY <1>1, SanitizeForm
  <2> QED BY <2>1, <2>2, <2>3
<1> HIDE DEF t
<1>3. Clean(t)
  <2>1. v.marks \subseteq {"email", "home", "odd"}
    BY TextFields DEF Marks
  <2> QED BY <1>2, <2>1 DEF Clean, Masked
<1>4. Stringify(t) = t
  <2>1. Stringify(t) = [source |-> t.source, marks |-> t.marks, accounts |-> t.accounts,
                        json |-> t.json, items |-> <<>>]
    BY <1>2, StringifyForm
  <2> QED BY <1>2, <2>1
<1>5. QED BY <1>2, <1>3, <1>4 DEF t, s

LEMMA TextIsFalsy ==
  ASSUME NEW v, IsText(v)
  PROVE  Falsy(v) <=> v.source \in {"None", ""}
BY PlainTexts DEF IsText, Falsy

\* "N/A" has nothing in it.
LEMMA PlainNotAvailable == Sanitize(NotAvailable) = NotAvailable
<1>1. Sanitize(NotAvailable) =
        [source |-> "N/A", json |-> FALSE, items |-> <<>>,
         marks |-> {} \ Masked(FALSE), accounts |-> Fewer(FALSE, 0)]
  <2> DEFINE v == NotAvailable
  <2>1. IsText(v) /\ v.source = "N/A" /\ v.json = FALSE /\ v.items = <<>>
        /\ v.marks = {} /\ v.accounts = 0
    BY PlainTexts
  <2> HIDE DEF v
  <2>2. Sanitize(v) = [source |-> v.source, json |-> v.json, items |-> v.items,
                       marks |-> v.marks \ Masked(v.json),
                       accounts |-> Fewer(v.json, v.accounts)]
    BY <2>1, SanitizeForm
  <2> QED BY <2>1, <2>2 DEF v
<1>2. QED BY <1>1, PlainTexts DEF Fewer

\* SafeText: what a builder makes of any value is clean text, and what it makes of
\* this is the same with the sanitizer gone over it once more.
LEMMA SafeTextFacts ==
  ASSUME NEW v, IsText(v)
  PROVE  /\ IsText(SafeText(v)) /\ ~Falsy(SafeText(v))
         /\ SafeText(v).items = <<>>
         /\ Clean(SafeText(v))
         /\ SafeText(SafeText(v)) = Sanitize(SafeText(v))
         /\ Stringify(SafeText(v)) = SafeText(v)
         /\ Falsy(v) => SafeText(v) = NotAvailable
         /\ ~Falsy(v) => SafeText(v) = Sanitize(Stringify(v))
         /\ ~Falsy(v) /\ v.marks = {} /\ v.accounts = 0
              => Stringify(SafeText(v)) = Stringify(v)
<1> DEFINE w == Or(v, NotAvailable)
           t == Sanitize(Stringify(w))
<1>1. IsText(w) /\ w.source \notin {"None", ""}
  BY PlainTexts, TextIsFalsy DEF Or
<1>2. SafeText(v) = t
  BY DEF SafeText
<1>3. /\ t = [source |-> w.source, json |-> w.json, items |-> <<>>,
              marks |-> w.marks \ Masked(w.json),
              accounts |-> Fewer(w.json, w.accounts)]
      /\ IsText(t) /\ Clean(t) /\ Stringify(t) = t
  <2> HIDE DEF w
  <2> QED BY <1>1, CleanText
<1>4. ~Falsy(t)
  <2> HIDE DEF w, t
  <2>1. t.source = w.source
    BY <1>3
  <2> QED BY <1>1, <1>3, <2>1, TextIsFalsy
<1>5. SafeText(t) = Sanitize(t)
  <2> HIDE DEF w, t
  <2> QED BY <1>3, <1>4 DEF SafeText, Or
<1>6. ASSUME Falsy(v) PROVE t = NotAvailable
  <2>1. w = NotAvailable
    BY <1>6 DEF Or
  <2> HIDE DEF w, t
  <2>2. t = [source |-> "N/A", json |-> FALSE, items |-> <<>>,
             marks |-> {} \ Masked(FALSE), accounts |-> Fewer(FALSE, 0)]
    BY <1>3, <2>1, PlainTexts
  <2> QED BY <2>2, PlainTexts DEF Fewer
<1>7. ASSUME ~Falsy(v) PROVE t = Sanitize(Stringify(v))
  BY <1>7 DEF Or
<1>8. ASSUME ~Falsy(v), v.marks = {}, v.accounts = 0 PROVE Stringify(t) = Stringify(v)
  <2>1. w = v
    BY <1>8 DEF Or
  <2> HIDE DEF w, t
  <2>2. Stringify(v) = [source |-> v.source, marks |-> v.marks, accounts |-> v.accounts,
                        json |-> v.json, items |-> <<>>]
    BY StringifyForm
  <2>3. Fewer(v.json, v.accounts) = v.accounts
    BY <1>8 DEF Fewer
  <2>4. t = [source |-> v.source, json |-> v.json, items |-> <<>>,
             marks |-> v.marks, accounts |-> v.accounts]
    BY <1>3, <1>8, <2>1, <2>3
  <2> QED BY <1>3, <2>2, <2>4
<1> HIDE DEF t, w
<1>9. t.items = <<>>
  BY <1>3
<1>10. QED BY <1>2, <1>3, <1>4, <1>5, <1>6, <1>7, <1>8, <1>9

\* RawText: the names, which nothing sanitizes, are stable as well.
LEMMA RawTextFacts ==
  ASSUME NEW v, IsText(v)
  PROVE  /\ IsText(RawText(v)) /\ ~Falsy(RawText(v))
         /\ RawText(v).items = <<>>
         /\ RawText(RawText(v)) = RawText(v)
         /\ Falsy(v) => RawText(v) = NotAvailable
<1> DEFINE w == Or(v, NotAvailable)
           t == Stringify(w)
<1>1. IsText(w) /\ w.source \notin {"None", ""}
  BY PlainTexts, TextIsFalsy DEF Or
<1>2. RawText(v) = t
  BY DEF RawText
<1>3. /\ t = [source |-> w.source, marks |-> w.marks, accounts |-> w.accounts,
              json |-> w.json, items |-> <<>>]
      /\ IsText(t)
  <2> HIDE DEF w
  <2> QED BY <1>1, StringifyForm, TextOfString
<1>4. ASSUME Falsy(v) PROVE t = NotAvailable
  BY <1>3, <1>4, PlainTexts DEF Or
<1> HIDE DEF w, t
<1>5. ~Falsy(t)
  <2>1. t.source = w.source
    BY <1>3
  <2> QED BY <1>1, <1>3, <2>1, TextIsFalsy
<1>6. RawText(t) = t
  BY <1>3, <1>5, StringifyForm DEF RawText, Or
<1>7. t.items = <<>>
  BY <1>3
<1>8. QED BY <1>2, <1>3, <1>4, <1>5, <1>6, <1>7

-----------------------------------------------------------------------------
(* Records and payloads *)

\* A record, or a payload, all of whose values are as ESET lists them.
Listed(record) == \A k \in DOMAIN record : IsValue(record[k])

LEMMA GetFacts ==
  ASSUME NEW d, Listed(d), NEW k
  PROVE  IsValue(Get(d, k)) /\ IsText(Get(d, k))
BY PlainTexts DEF Listed, Get, IsValue

LEMMA OrFacts ==
  ASSUME NEW v, NEW w, IsText(v), IsText(w)
  PROVE  IsText(Or(v, w))
BY DEF Or

\* Entries of the context, and entries of these.
LEMMA EntryFacts ==
  ASSUME NEW c, IsValue(c), NEW k
  PROVE  /\ IsText(Entry(c, k))
         /\ \A j : IsText(Entry(Entry(c, k), j))
         /\ DOMAIN c.items = {} => Entry(c, k) = None
<1>1. CASE k \in DOMAIN c.items
  <2>1. Entry(c, k) = c.items[k] /\ IsText(c.items[k])
    BY <1>1 DEF Entry, IsDict, Get, IsValue
  <2>2. \A j \in DOMAIN c.items[k].items : IsText(c.items[k].items[j])
    BY <1>1 DEF IsValue
  <2>3. ASSUME NEW j PROVE IsText(Entry(c.items[k], j))
    BY <2>2, PlainTexts DEF Entry, Get
  <2>4. QED BY <1>1, <2>1, <2>3
<1>2. CASE k \notin DOMAIN c.items
  <2>1. Entry(c, k) = None
    BY <1>2 DEF Entry, Get
  <2>2. \A j : Entry(None, j) = None
    BY PlainTexts DEF Entry, IsDict
  <2>3. QED BY <2>1, <2>2, PlainTexts
<1>3. QED BY <1>1, <1>2

LEMMA NameFacts ==
  ASSUME NEW d, Listed(d)
  PROVE  LET context == Get(d, "context")
         IN IsText(UserName(d, context)) /\ IsText(Device(d, context))
            /\ IsText(ObjectName(d, context))
<1> DEFINE context == Get(d, "context")
           uuid == Entry(context, "deviceUuid")
           process == Entry(context, "process")
<1>1. IsValue(context) /\ \A k : IsText(Get(d, k))
  BY GetFacts
<1> HIDE DEF context
<1>2. \A k : IsText(Entry(context, k)) /\ \A j : IsText(Entry(Entry(context, k), j))
  BY <1>1, EntryFacts
<1>3. IsText(UserName(d, context))
  BY <1>1, <1>2, OrFacts DEF UserName
<1>4. IsText([uuid EXCEPT !.source = "uuid:"])
  <2>1. IsText(uuid)
    BY <1>2
  <2> HIDE DEF uuid
  <2>2. [uuid EXCEPT !.source = "uuid:"]
         = [source |-> "uuid:", marks |-> uuid.marks, accounts |-> uuid.accounts,
            json |-> uuid.json, items |-> uuid.items]
    BY <2>1, RecordFacts
  <2>3. IsText([source |-> "uuid:", marks |-> uuid.marks, accounts |-> uuid.accounts,
                json |-> uuid.json, items |-> uuid.items])
    BY <2>1, TextForm, TextFields
  <2> QED BY <2>2, <2>3
<1>5. IsText(Device(d, context))
  <2>1. IsText(IF Falsy(uuid) THEN Entry(context, "device") ELSE [uuid EXCEPT !.source = "uuid:"])
    BY <1>2, <1>4
  <2> QED BY <1>1, <2>1, OrFacts DEF Device
<1>6. IsText(ObjectName(d, context))
  <2>1. IsText(Or(Entry(process, "path"), Entry(process, "name")))
    BY <1>2, OrFacts
  <2>2. IsText(IF IsDict(process) THEN Or(Entry(process, "path"), Entry(process, "name")) ELSE None)
    BY <2>1, PlainTexts
  <2> QED BY <1>1, <2>2, OrFacts DEF ObjectName
<1>7. QED BY <1>3, <1>5, <1>6 DEF context

LEMMA TextIsListed ==
  ASSUME NEW v, IsText(v)
  PROVE  /\ IsValue(SafeText(v)) /\ ~IsDict(SafeText(v))
         /\ IsValue(RawText(v)) /\ ~IsDict(RawText(v))
BY SafeTextFacts, RawTextFacts DEF IsValue, IsDict

\* What the queue keeps of a detection: each field but the names as SafeText, no
\* dict, and the names the collector would show.
LEMMA DetectionPayloadFacts ==
  ASSUME NEW d, Listed(d)
  PROVE  LET p == DetectionPayload(d)
             context == Get(d, "context")
         IN /\ Listed(p)
            /\ \A k \in DetectionKeys \ RawKeys :
                 Get(p, k) = IF k \in DOMAIN d THEN SafeText(d[k]) ELSE None
            /\ DOMAIN Get(p, "context").items = {}
            /\ RawText(Get(p, "userName")) = RawText(UserName(d, context))
            /\ RawText(Get(p, "device")) = RawText(Device(d, context))
<1> DEFINE context == Get(d, "context")
           found == [userName |-> UserName(d, context), device |-> Device(d, context)]
           names == {k \in RawKeys : ~Falsy(found[k])}
           top == [k \in DetectionKeys \cap DOMAIN d |->
                     IF k \in RawKeys THEN RawText(d[k]) ELSE SafeText(d[k])]
           first == [k \in names |-> RawText(found[k])]
           p == Over(first, top)
<1>1. \A k \in RawKeys : IsText(found[k])
  BY NameFacts DEF RawKeys
<1>2. DetectionPayload(d) = p
  BY DEF DetectionPayload
<1>3. \A k \in DOMAIN d : IsText(d[k])
  BY DEF Listed, IsValue
<1>4. found["userName"] = Or(Get(d, "userName"), Entry(context, "userName"))
  BY DEF UserName
<1>5. \E w : found["device"] = Or(Get(d, "device"), w)
  BY DEF Device
<1>6. \A k \in RawKeys : ~Falsy(Get(d, k)) => ~Falsy(found[k])
  BY <1>4, <1>5 DEF RawKeys, Or
<1> HIDE DEF found, context
<1>7. /\ DOMAIN p = names \cup (DetectionKeys \cap DOMAIN d)
      /\ \A k \in names : p[k] = RawText(found[k])
      /\ \A k \in (DetectionKeys \cap DOMAIN d) \ names :
           p[k] = IF k \in RawKeys THEN RawText(d[k]) ELSE SafeText(d[k])
  BY DEF Over
<1> HIDE DEF p, names
<1>8. names \subseteq RawKeys /\ \A k \in RawKeys : k \in names <=> ~Falsy(found[k])
  BY DEF names
<1>9. Listed(p)
  <2>1. \A k \in names : IsValue(p[k])
    BY <1>1, <1>7, <1>8, TextIsListed
  <2>2. \A k \in (DetectionKeys \cap DOMAIN d) \ names : IsValue(p[k])
    BY <1>3, <1>7, TextIsListed
  <2>3. QED BY <2>1, <2>2, <1>7 DEF Listed
<1>10. \A k \in DetectionKeys \ RawKeys :
         Get(p, k) = IF k \in DOMAIN d THEN SafeText(d[k]) ELSE None
  BY <1>7, <1>8 DEF Get
<1>11. DOMAIN Get(p, "context").items = {}
  <2>1. "context" \in DetectionKeys \ RawKeys
    BY DEF DetectionKeys, RawKeys
  <2>2. \A k \in DOMAIN d : DOMAIN SafeText(d[k]).items = {}
    BY <1>3, SafeTextFacts
  <2>3. QED BY <2>1, <2>2, <1>10, PlainTexts
<1>12. \A k \in RawKeys : RawText(Get(p, k)) = RawText(found[k])
  <2> SUFFICES ASSUME NEW k \in RawKeys PROVE RawText(Get(p, k)) = RawText(found[k])
    OBVIOUS
  <2>1. CASE k \in names
    BY <2>1, <1>1, <1>7, RawTextFacts DEF Get
  <2>2. CASE k \notin names
    <3>1. RawText(found[k]) = NotAvailable /\ Falsy(Get(d, k))
      BY <2>2, <1>1, <1>6, <1>8, RawTextFacts
    <3>2. RawText(Get(d, k)) = NotAvailable /\ RawText(None) = NotAvailable
      BY <3>1, RawTextFacts, GetFacts, PlainTexts DEF Falsy
    <3>3. k \in DetectionKeys
      BY DEF RawKeys, DetectionKeys
    <3>4. CASE k \in DOMAIN d
      <4>1. Get(p, k) = RawText(d[k]) /\ Get(d, k) = d[k]
        BY <2>2, <3>3, <3>4, <1>7 DEF Get
      <4>2. QED BY <4>1, <3>1, <3>2, <3>4, <1>3, RawTextFacts
    <3>5. CASE k \notin DOMAIN d
      BY <2>2, <3>1, <3>2, <3>5, <1>7 DEF Get
    <3>6. QED BY <3>4, <3>5
  <2>3. QED BY <2>1, <2>2
<1>13. QED BY <1>2, <1>9, <1>10, <1>11, <1>12 DEF RawKeys, found, context

\* What the queue keeps of an incident.
LEMMA IncidentPayloadFacts ==
  ASSUME NEW i, Listed(i)
  PROVE  LET p == IncidentPayload(i)
         IN /\ Listed(p)
            /\ \A k \in IncidentKeys :
                 Get(p, k) = IF k \in DOMAIN i THEN SafeText(i[k]) ELSE None
<1>1. \A k \in DOMAIN i : IsValue(SafeText(i[k]))
  BY TextIsListed DEF Listed, IsValue
<1>2. QED BY <1>1 DEF IncidentPayload, Listed, Get

\* Text of a field once more sanitized.
LEMMA SafeAgain ==
  ASSUME NEW d, Listed(d), NEW p, NEW k,
         Get(p, k) = IF k \in DOMAIN d THEN SafeText(d[k]) ELSE None
  PROVE  /\ SafeText(Get(p, k)) = Sanitize(SafeText(Get(d, k)))
         /\ ~Falsy(Get(d, k)) => ~Falsy(Get(p, k)) /\ Get(p, k) = SafeText(Get(d, k))
<1>1. CASE k \in DOMAIN d
  <2>1. IsText(d[k]) /\ Get(d, k) = d[k]
    BY <1>1 DEF Listed, IsValue, Get
  <2>2. QED BY <2>1, <1>1, SafeTextFacts
<1>2. CASE k \notin DOMAIN d
  <2>1. Get(p, k) = None /\ Get(d, k) = None /\ Falsy(None)
    BY <1>2 DEF Get, Falsy
  <2>2. SafeText(None) = NotAvailable
    BY <2>1, PlainTexts, SafeTextFacts
  <2>3. QED BY <2>1, <2>2, PlainNotAvailable
<1>3. QED BY <1>1, <1>2

-----------------------------------------------------------------------------
(* Messages *)

WithSummary(result) == result.done => IsText(result.summary)

\* The fields of an analysis add one text, its summary.
LEMMA AttachClean ==
  ASSUME NEW fields, NEW result, WithSummary(result),
         \A f \in DOMAIN fields \ AsIs : Clean(fields[f])
  PROVE  \A f \in DOMAIN Attach(fields, result) \ AsIs : Clean(Attach(fields, result)[f])
<1>1. CASE result.done
  <2> DEFINE more == AnalysisFields(result)
  <2>1. \A f \in DOMAIN more \ AsIs : Clean(more[f])
    BY <1>1, SafeTextFacts DEF AnalysisFields, AsIs, Clean, WithSummary
  <2> HIDE DEF more
  <2>2. \A f \in DOMAIN Over(fields, more) \ AsIs : Clean(Over(fields, more)[f])
    BY <2>1 DEF Over
  <2>3. QED BY <1>1, <2>2 DEF Attach, more
<1>2. CASE ~result.done
  BY <1>2 DEF Attach
<1>3. QED BY <1>1, <1>2

LEMMA SafeIsClean ==
  ASSUME NEW v, IsText(v) PROVE Clean(SafeText(v)) /\ Clean(Sanitize(Stringify(v)))
BY SafeTextFacts, CleanText

LEMMA PlainDefault ==
  IsText(Value("No context", {})) /\ IsText(Value("No description", {}))
  /\ IsText(Value("unknown", {}))
BY PlainTexts DEF Value, Text, IsText

\* Every text of a detection's message is clean, whatever the record has.
LEMMA DetectionMessageClean ==
  ASSUME NEW d, Listed(d), NEW result, WithSummary(result)
  PROVE  \A f \in DOMAIN DetectionMessage(d, result) \ AsIs :
           Clean(DetectionMessage(d, result)[f])
<1> DEFINE context == Get(d, "context")
           fields ==
             [Title |-> SafeText(Or(Get(d, "displayName"), Get(d, "uuid"))),
              Description |-> Sanitize(Stringify(Or(context, Value("No context", {})))),
              Category |-> SafeText(Get(d, "category")),
              Occurred |-> SafeText(Get(d, "occurTime")),
              User |-> RawText(UserName(d, context)),
              Device |-> RawText(Device(d, context)),
              Object |-> SafeText(ObjectName(d, context)),
              ObjectURL |-> SafeText(Get(d, "objectUrl")),
              SHA1 |-> SafeText(Get(d, "objectHashSha1"))]
<1>1. \A k : IsText(Get(d, k))
  BY GetFacts
<1>2. IsText(Or(Get(d, "displayName"), Get(d, "uuid"))) /\ IsText(ObjectName(d, context))
      /\ IsText(Or(context, Value("No context", {})))
  BY <1>1, OrFacts, NameFacts, PlainDefault
<1>3. \A f \in DOMAIN fields \ AsIs : Clean(fields[f])
  <2>1. Clean(fields.Title) /\ Clean(fields.Description) /\ Clean(fields.Category)
        /\ Clean(fields.Occurred) /\ Clean(fields.Object) /\ Clean(fields.ObjectURL)
        /\ Clean(fields.SHA1)
    BY <1>1, <1>2, SafeIsClean
  <2>2. DOMAIN fields \ AsIs
          = {"Title", "Description", "Category", "Occurred", "Object", "ObjectURL", "SHA1"}
    BY DEF AsIs
  <2> HIDE DEF fields
  <2>3. QED BY <2>1, <2>2
<1>4. DetectionMessage(d, result) = Attach(fields, result)
  BY DEF DetectionMessage
<1> HIDE DEF fields
<1>5. QED BY <1>3, <1>4, AttachClean

\* The same of an incident's message.
LEMMA IncidentMessageClean ==
  ASSUME NEW i, Listed(i), NEW result, WithSummary(result)
  PROVE  \A f \in DOMAIN IncidentMessage(i, result) \ AsIs :
           Clean(IncidentMessage(i, result)[f])
<1> DEFINE fields ==
        [Title |-> SafeText(Or(Get(i, "displayName"), Get(i, "uuid"))),
         Description |-> Sanitize(Stringify(Or(Get(i, "description"), Value("No description", {})))),
         Status |-> SafeText(Get(i, "status")),
         Created |-> SafeText(Get(i, "createTime")),
         Updated |-> SafeText(Get(i, "updateTime"))]
<1>1. \A k : IsText(Get(i, k))
  BY GetFacts
<1>2. IsText(Or(Get(i, "displayName"), Get(i, "uuid")))
      /\ IsText(Or(Get(i, "description"), Value("No description", {})))
  BY <1>1, OrFacts, PlainDefault
<1>3. \A f \in DOMAIN fields \ AsIs : Clean(fields[f])
  <2>1. Clean(fields.Title) /\ Clean(fields.Description) /\ Clean(fields.Status)
        /\ Clean(fields.Created) /\ Clean(fields.Updated)
    BY <1>1, <1>2, SafeIsClean
  <2>2. DOMAIN fields \ AsIs
          = {"Title", "Description", "Status", "Created", "Updated"}
    BY DEF AsIs
  <2> HIDE DEF fields
  <2>3. QED BY <2>1, <2>2
<1>4. IncidentMessage(i, result) = Attach(fields, result)
  BY DEF IncidentMessage
<1> HIDE DEF fields
<1>5. QED BY <1>3, <1>4, AttachClean

\* A field of the message from a queue: the texts of the record have been through
\* the sanitizer twice, the names never and the summary once, as in the other.
Twice(f, t) == IF f \in AsIs \cup {"Summary"} THEN t ELSE Sanitize(t)

LEMMA AttachSame ==
  ASSUME NEW one, NEW two, NEW result, NEW fields,
         DOMAIN one = DOMAIN two, \A f \in fields \cap DOMAIN two : one[f] = Twice(f, two[f])
  PROVE  \A f \in fields \cap DOMAIN Attach(two, result) :
           Attach(one, result)[f] = Twice(f, Attach(two, result)[f])
<1>1. CASE result.done
  <2> DEFINE more == AnalysisFields(result)
  <2>1. DOMAIN more \subseteq AsIs \cup {"Summary"}
    BY DEF AnalysisFields, AsIs
  <2> HIDE DEF more
  <2>2. \A f \in DOMAIN more : Twice(f, more[f]) = more[f]
    BY <2>1 DEF Twice
  <2>3. \A f \in fields \cap DOMAIN Over(two, more) :
          Over(one, more)[f] = Twice(f, Over(two, more)[f])
    BY <2>2 DEF Over
  <2>4. QED BY <1>1, <2>3 DEF Attach, more
<1>2. CASE ~result.done
  BY <1>2 DEF Attach
<1>3. QED BY <1>1, <1>2

LEMMA OrSame ==
  ASSUME NEW d, Listed(d), NEW p, NEW k, NEW v, NEW w, ~Falsy(Get(d, k)),
         Get(p, k) = IF k \in DOMAIN d THEN SafeText(d[k]) ELSE None
  PROVE  /\ SafeText(Or(Get(p, k), v)) = Sanitize(SafeText(Or(Get(d, k), w)))
         /\ Sanitize(Stringify(Or(Get(p, k), v)))
              = Sanitize(Sanitize(Stringify(Or(Get(d, k), w))))
<1>1. Or(Get(p, k), v) = Get(p, k) /\ Or(Get(d, k), w) = Get(d, k)
  BY SafeAgain DEF Or
<1>2. SafeText(Get(p, k)) = Sanitize(SafeText(Get(d, k)))
  BY SafeAgain
<1>3. Sanitize(Stringify(Get(p, k))) = Sanitize(Sanitize(Stringify(Get(d, k))))
  <2>1. Get(p, k) = Sanitize(Stringify(Get(d, k)))
    BY SafeAgain, SafeTextFacts, GetFacts
  <2>2. QED BY <2>1, CleanText, GetFacts
<1>4. QED BY <1>1, <1>2, <1>3

\* The message built of the payload is the one built of the detection with its texts
\* once more sanitized, in every field whose first source is there.
LEMMA DetectionMessageSame ==
  ASSUME NEW d, Listed(d), NEW result
  PROVE  LET p == DetectionPayload(d)
             direct == DetectionMessage(d, result)
         IN \A f \in DOMAIN direct :
              /\ f = "Title" => ~Falsy(Get(d, "displayName"))
              /\ f = "Description" => ~Falsy(Get(d, "context"))
              /\ f = "Object" => ~Falsy(Get(d, "objectName"))
              => DetectionMessage(p, result)[f] = Twice(f, direct[f])
<1> DEFINE p == DetectionPayload(d)
           Fields(e) ==
             [Title |-> SafeText(Or(Get(e, "displayName"), Get(e, "uuid"))),
              Description |-> Sanitize(Stringify(Or(Get(e, "context"), Value("No context", {})))),
              Category |-> SafeText(Get(e, "category")),
              Occurred |-> SafeText(Get(e, "occurTime")),
              User |-> RawText(UserName(e, Get(e, "context"))),
              Device |-> RawText(Device(e, Get(e, "context"))),
              Object |-> SafeText(ObjectName(e, Get(e, "context"))),
              ObjectURL |-> SafeText(Get(e, "objectUrl")),
              SHA1 |-> SafeText(Get(e, "objectHashSha1"))]
           same == {f \in {"Title", "Description", "Category", "Occurred", "User", "Device",
                           "Object", "ObjectURL", "SHA1", "Summary", "Confidence", "Coverage",
                           "Evidence"} :
                      /\ f = "Title" => ~Falsy(Get(d, "displayName"))
                      /\ f = "Description" => ~Falsy(Get(d, "context"))
                      /\ f = "Object" => ~Falsy(Get(d, "objectName"))}
<1>1. \A e : DetectionMessage(e, result) = Attach(Fields(e), result)
  BY DEF DetectionMessage
<1>2. /\ Listed(p)
      /\ \A k \in DetectionKeys \ RawKeys :
           Get(p, k) = IF k \in DOMAIN d THEN SafeText(d[k]) ELSE None
      /\ DOMAIN Get(p, "context").items = {}
      /\ RawText(Get(p, "userName")) = RawText(UserName(d, Get(d, "context")))
      /\ RawText(Get(p, "device")) = RawText(Device(d, Get(d, "context")))
  BY DetectionPayloadFacts
<1> HIDE DEF p
<1>3. {"displayName", "context", "category", "occurTime", "objectName", "objectUrl",
       "objectHashSha1"} \subseteq DetectionKeys \ RawKeys
  BY DEF DetectionKeys, RawKeys
<1>4. \A k : Entry(Get(p, "context"), k) = None
  BY <1>2, EntryFacts, GetFacts
<1>5. RawText(UserName(p, Get(p, "context"))) = RawText(Get(p, "userName"))
  BY <1>4, PlainTexts DEF UserName, RawText, Or, Falsy
<1>6. RawText(Device(p, Get(p, "context"))) = RawText(Get(p, "device"))
  BY <1>4, PlainTexts DEF Device, RawText, Or, Falsy
<1>7. ASSUME ~Falsy(Get(d, "displayName")) PROVE Fields(p).Title = Sanitize(Fields(d).Title)
  BY <1>2, <1>3, <1>7, OrSame
<1>8. ASSUME ~Falsy(Get(d, "context")) PROVE Fields(p).Description = Sanitize(Fields(d).Description)
  <2> DEFINE none == Value("No context", {})
  <2>1. Get(p, "context") = IF "context" \in DOMAIN d THEN SafeText(d["context"]) ELSE None
    BY <1>2, <1>3
  <2> HIDE DEF none
  <2>2. \A v, w : Sanitize(Stringify(Or(Get(p, "context"), v)))
                    = Sanitize(Sanitize(Stringify(Or(Get(d, "context"), w))))
    BY <2>1, <1>8, OrSame
  <2>3. QED BY <2>2 DEF none
<1>9. ASSUME ~Falsy(Get(d, "objectName")) PROVE Fields(p).Object = Sanitize(Fields(d).Object)
  BY <1>2, <1>3, <1>9, OrSame DEF ObjectName
<1>10. /\ Fields(p).Category = Sanitize(Fields(d).Category) /\ Fields(p).Occurred = Sanitize(Fields(d).Occurred)
       /\ Fields(p).ObjectURL = Sanitize(Fields(d).ObjectURL) /\ Fields(p).SHA1 = Sanitize(Fields(d).SHA1)
  BY <1>2, <1>3, SafeAgain
<1>11. Fields(p).User = Fields(d).User /\ Fields(p).Device = Fields(d).Device
  BY <1>2, <1>5, <1>6
<1>12. /\ DOMAIN Fields(p) = DOMAIN Fields(d)
       /\ DOMAIN Fields(d) = {"Title", "Description", "Category", "Occurred", "User", "Device",
                              "Object", "ObjectURL", "SHA1"}
  OBVIOUS
<1> HIDE DEF Fields
<1>13. \A f \in same \cap DOMAIN Fields(d) : Fields(p)[f] = Twice(f, Fields(d)[f])
  BY <1>7, <1>8, <1>9, <1>10, <1>11, <1>12 DEF Twice, AsIs
<1>14. \A f \in DOMAIN Attach(Fields(d), result) :
         /\ f = "Title" => ~Falsy(Get(d, "displayName"))
         /\ f = "Description" => ~Falsy(Get(d, "context"))
         /\ f = "Object" => ~Falsy(Get(d, "objectName"))
         => f \in same
  <2>1. DOMAIN AnalysisFields(result) = {"Summary", "Confidence", "Coverage", "Evidence"}
    BY DEF AnalysisFields
  <2>2. DOMAIN Attach(Fields(d), result) \subseteq DOMAIN Fields(d) \cup DOMAIN AnalysisFields(result)
    BY DEF Attach, Over
  <2>3. QED BY <2>1, <2>2, <1>12
<1> HIDE DEF same
<1>15. \A f \in same \cap DOMAIN Attach(Fields(d), result) :
         Attach(Fields(p), result)[f] = Twice(f, Attach(Fields(d), result)[f])
  BY <1>12, <1>13, AttachSame
<1>16. QED BY <1>1, <1>14, <1>15 DEF p
\* The same of an incident.
LEMMA IncidentMessageSame ==
  ASSUME NEW i, Listed(i), NEW result
  PROVE  LET p == IncidentPayload(i)
             direct == IncidentMessage(i, result)
         IN \A f \in DOMAIN direct :
              /\ f = "Title" => ~Falsy(Get(i, "displayName"))
              /\ f = "Description" => ~Falsy(Get(i, "description"))
              => IncidentMessage(p, result)[f] = Twice(f, direct[f])
<1> DEFINE p == IncidentPayload(i)
           Fields(e) ==
             [Title |-> SafeText(Or(Get(e, "displayName"), Get(e, "uuid"))),
              Description |-> Sanitize(Stringify(Or(Get(e, "description"), Value("No description", {})))),
              Status |-> SafeText(Get(e, "status")),
              Created |-> SafeText(Get(e, "createTime")),
              Updated |-> SafeText(Get(e, "updateTime"))]
           same == {f \in {"Title", "Description", "Status", "Created", "Updated", "Summary",
                           "Confidence", "Coverage", "Evidence"} :
                      /\ f = "Title" => ~Falsy(Get(i, "displayName"))
                      /\ f = "Description" => ~Falsy(Get(i, "description"))}
<1>1. \A e : IncidentMessage(e, result) = Attach(Fields(e), result)
  BY DEF IncidentMessage
<1>2. \A k \in IncidentKeys : Get(p, k) = IF k \in DOMAIN i THEN SafeText(i[k]) ELSE None
  BY IncidentPayloadFacts
<1> HIDE DEF p
<1>3. {"displayName", "description", "status", "createTime", "updateTime"} \subseteq IncidentKeys
  BY DEF IncidentKeys
<1>4. ASSUME ~Falsy(Get(i, "displayName")) PROVE Fields(p).Title = Sanitize(Fields(i).Title)
  BY <1>2, <1>3, <1>4, OrSame
<1>5. ASSUME ~Falsy(Get(i, "description")) PROVE Fields(p).Description = Sanitize(Fields(i).Description)
  <2> DEFINE none == Value("No description", {})
  <2>1. Get(p, "description") = IF "description" \in DOMAIN i THEN SafeText(i["description"]) ELSE None
    BY <1>2, <1>3
  <2> HIDE DEF none
  <2>2. \A v, w : Sanitize(Stringify(Or(Get(p, "description"), v)))
                    = Sanitize(Sanitize(Stringify(Or(Get(i, "description"), w))))
    BY <2>1, <1>5, OrSame
  <2>3. QED BY <2>2 DEF none
<1>6. /\ Fields(p).Status = Sanitize(Fields(i).Status) /\ Fields(p).Created = Sanitize(Fields(i).Created)
      /\ Fields(p).Updated = Sanitize(Fields(i).Updated)
  BY <1>2, <1>3, SafeAgain
<1>7. /\ DOMAIN Fields(p) = DOMAIN Fields(i)
      /\ DOMAIN Fields(i) = {"Title", "Description", "Status", "Created", "Updated"}
  OBVIOUS
<1> HIDE DEF Fields
<1>8. \A f \in same \cap DOMAIN Fields(i) : Fields(p)[f] = Twice(f, Fields(i)[f])
  BY <1>4, <1>5, <1>6, <1>7 DEF Twice, AsIs
<1>9. \A f \in DOMAIN Attach(Fields(i), result) :
        /\ f = "Title" => ~Falsy(Get(i, "displayName"))
        /\ f = "Description" => ~Falsy(Get(i, "description"))
        => f \in same
  <2>1. DOMAIN AnalysisFields(result) = {"Summary", "Confidence", "Coverage", "Evidence"}
    BY DEF AnalysisFields
  <2>2. DOMAIN Attach(Fields(i), result) \subseteq DOMAIN Fields(i) \cup DOMAIN AnalysisFields(result)
    BY DEF Attach, Over
  <2>3. QED BY <2>1, <2>2, <1>7
<1> HIDE DEF same
<1>10. \A f \in same \cap DOMAIN Attach(Fields(i), result) :
         Attach(Fields(p), result)[f] = Twice(f, Attach(Fields(i), result)[f])
  BY <1>7, <1>8, AttachSame
<1>11. QED BY <1>1, <1>9, <1>10 DEF p

-----------------------------------------------------------------------------
(* Keys *)

\* A text without personal data is itself after the sanitizer.
LEMMA KeyText ==
  ASSUME NEW d, Listed(d), NEW p, NEW k, ~Falsy(Get(d, k)), Get(d, k).marks = {},
         Get(d, k).accounts = 0,
         Get(p, k) = IF k \in DOMAIN d THEN SafeText(d[k]) ELSE None
  PROVE  \A v, w : Stringify(Or(Get(p, k), v)) = Stringify(Or(Get(d, k), w))
<1>1. Get(p, k) = SafeText(Get(d, k)) /\ ~Falsy(Get(p, k))
  BY SafeAgain
<1>2. Stringify(Get(p, k)) = Stringify(Get(d, k))
  BY <1>1, SafeTextFacts, GetFacts
<1>3. QED BY <1>1, <1>2 DEF Or

\* The key the ledger knows a detection by is that of its payload.
LEMMA DetectionKeySame ==
  ASSUME NEW d, Listed(d), ~Falsy(Get(d, "uuid")), ~Falsy(Get(d, "occurTime")),
         \A k \in {"uuid", "occurTime"} : Get(d, k).marks = {} /\ Get(d, k).accounts = 0
  PROVE  DetectionKey(DetectionPayload(d)) = DetectionKey(d)
<1> DEFINE p == DetectionPayload(d)
<1>1. \A k \in {"uuid", "occurTime"} : Get(p, k) = IF k \in DOMAIN d THEN SafeText(d[k]) ELSE None
  BY DetectionPayloadFacts DEF DetectionKeys, RawKeys
<1> HIDE DEF p
<1>2. \A w : Stringify(Or(Get(p, "occurTime"), w)) = Stringify(Or(Get(d, "occurTime"), w))
  BY <1>1, KeyText
<1>3. Or(Or(Get(p, "uuid"), Get(p, "displayName")), Value("unknown", {})) = Get(p, "uuid")
      /\ Or(Or(Get(d, "uuid"), Get(d, "displayName")), Value("unknown", {})) = Get(d, "uuid")
  BY <1>1, SafeAgain DEF Or
<1>4. Stringify(Get(p, "uuid")) = Stringify(Get(d, "uuid"))
  BY <1>1, SafeAgain, SafeTextFacts, GetFacts
<1>5. QED BY <1>2, <1>3, <1>4 DEF DetectionKey, p

\* The same of an incident.
LEMMA IncidentKeySame ==
  ASSUME NEW i, Listed(i), ~Falsy(Get(i, "uuid")), ~Falsy(Get(i, "updateTime")),
         \A k \in {"uuid", "updateTime"} : Get(i, k).marks = {} /\ Get(i, k).accounts = 0
  PROVE  IncidentKey(IncidentPayload(i)) = IncidentKey(i)
<1> DEFINE p == IncidentPayload(i)
<1>1. \A k \in {"uuid", "updateTime"} : Get(p, k) = IF k \in DOMAIN i THEN SafeText(i[k]) ELSE None
  BY IncidentPayloadFacts DEF IncidentKeys
<1> HIDE DEF p
<1>2. ASSUME NEW k \in {"uuid", "updateTime"}
      PROVE  \A v, w : Or(Or(Get(p, k), v), w) = Get(p, k) /\ Or(Or(Get(i, k), v), w) = Get(i, k)
  BY <1>1, SafeAgain DEF Or
<1>3. \A k \in {"uuid", "updateTime"} : Stringify(Get(p, k)) = Stringify(Get(i, k))
  BY <1>1, SafeAgain, SafeTextFacts, GetFacts
<1>4. QED BY <1>2, <1>3 DEF IncidentKey, p

-----------------------------------------------------------------------------
(* The messages of the workflow *)

\* What the workflow has in hand: a record that was listed, an analysis with a
\* summary and a message built of both.
WorkflowInv ==
  /\ source \in {"feed", "queue"}
  /\ phase # "idle" => input \in Records
  /\ analysis.done => phase \in {"analysed", "built"} /\ IsText(analysis.summary)
  /\ message # NoMessage => phase = "built" /\ message = Build(input, InHand, analysis)

LEMMA RecordListed ==
  ASSUME NEW r \in Records
  PROVE  Listed(r.record) /\ Listed(Payload(r)) /\ r.kind \in {"detection", "incident"}
<1>1. Listed(r.record) /\ r.kind \in {"detection", "incident"}
  BY WorkflowAssumption DEF Listed
<1>2. Listed(Payload(r))
  BY <1>1, DetectionPayloadFacts, IncidentPayloadFacts DEF Payload
<1>3. QED BY <1>1, <1>2

\* Whoever asks, the title given to the analyzer is text of the record.
TitleIsText(title) == title.marks \in SUBSET Marks /\ title.accounts \in Nat

LEMMA TitleText ==
  ASSUME NEW d, Listed(d), NEW severity
  PROVE  /\ TitleIsText(FromDetection(d, severity).title)
         /\ TitleIsText(FromPayload(d, severity).title)
         /\ TitleIsText(FromIncident(d, severity).title)
<1> DEFINE id == Or(Or(Get(d, "uuid"), Get(d, "displayName")), Value("unknown", {}))
           title == Or(Get(d, "displayName"), id)
<1>1. IsText(title)
  BY GetFacts, OrFacts, PlainDefault
<1>2. TitleIsText(title)
  BY <1>1, TextFields DEF TitleIsText
<1>3. FromDetection(d, severity).title = title /\ FromIncident(d, severity).title = title
      /\ FromPayload(d, severity).title = title
  BY DEF FromDetection, FromIncident, FromPayload, Incident
<1>4. QED BY <1>2, <1>3

\* The summary quotes the title, with whatever is in it.
LEMMA AnalysisSummary ==
  ASSUME NEW subject, NEW found, TitleIsText(subject.title)
  PROVE  Analyze(subject, found).done /\ IsText(Analyze(subject, found).summary)
<1>1. Analyze(subject, found).summary
        = [source |-> "summary", marks |-> subject.title.marks,
           accounts |-> subject.title.accounts, json |-> FALSE, items |-> <<>>]
  BY DEF Analyze, Text
<1>2. IsText([source |-> "summary", marks |-> subject.title.marks,
              accounts |-> subject.title.accounts, json |-> FALSE, items |-> <<>>])
  BY TextForm DEF TitleIsText
<1>3. QED BY <1>1, <1>2 DEF Analyze

\* A message is always the one built of what is in hand.
LEMMA WorkflowInvHolds == WorkflowSpec => []WorkflowInv
<1>1. WorkflowInit => WorkflowInv
  BY DEF WorkflowInit, WorkflowInv, NoAnalysis
<1>2. WorkflowInv /\ [WorkflowNext]_workflow => WorkflowInv'
  <2> SUFFICES ASSUME WorkflowInv, [WorkflowNext]_workflow PROVE WorkflowInv'
    OBVIOUS
  <2>1. CASE Receive
    BY <2>1 DEF Receive, WorkflowInv, NoAnalysis
  <2>2. CASE Analyse
    <3>1. input \in Records /\ analysis' = Analyze(Asked, Search(index', SearchLimit))
          /\ input' = input /\ source' = source /\ phase' = "analysed" /\ message' = message
          /\ message = NoMessage
      BY <2>2 DEF Analyse, WorkflowInv
    <3>2. Listed(InHand)
      BY <3>1, RecordListed DEF InHand
    <3>3. TitleIsText(Asked.title)
      BY <3>2, TitleText DEF Asked
    <3>4. analysis'.done /\ IsText(analysis'.summary)
      BY <3>1, <3>3, AnalysisSummary
    <3>5. QED BY <3>1, <3>4 DEF WorkflowInv
  <2>3. CASE GoWithout
    BY <2>3 DEF GoWithout, WorkflowInv
  <2>4. CASE BuildMessage
    BY <2>4 DEF BuildMessage, WorkflowInv, InHand
  <2>5. CASE UNCHANGED flow
    BY <2>5 DEF flow, WorkflowInv, InHand
  <2>6. QED
    BY <2>1, <2>2, <2>3, <2>4, <2>5 DEF WorkflowNext, Drive, Resume, workflow, flow
<1>3. QED BY <1>1, <1>2, PTL DEF WorkflowSpec

\* No message built here shows a text the sanitizer has not been over, for all
\* records ESET may list, fed directly or from a queue.
THEOREM MessagesAreSanitized == WorkflowSpec => []TextsAreSanitized
<1>1. WorkflowInv => TextsAreSanitized
  <2> SUFFICES ASSUME WorkflowInv, message # NoMessage PROVE
        \A f \in DOMAIN message \ AsIs : Clean(message[f])
    BY DEF TextsAreSanitized, Clean
  <2>1. input \in Records /\ message = Build(input, InHand, analysis)
    BY DEF WorkflowInv
  <2>2. Listed(InHand) /\ WithSummary(analysis)
    BY <2>1, RecordListed DEF InHand, WorkflowInv, WithSummary
  <2>3. message = DetectionMessage(InHand, analysis) \/ message = IncidentMessage(InHand, analysis)
    BY <2>1 DEF Build
  <2> HIDE DEF InHand
  <2>4. QED BY <2>2, <2>3, DetectionMessageClean, IncidentMessageClean
<1>2. QED BY <1>1, WorkflowInvHolds, PTL

\* A message sent from a queue shows what the collector would have shown of the
\* same record, with its texts once more sanitized, for all records.
THEOREM QueueShowsTheSame == WorkflowSpec => []QueueKeepsMessage
<1>1. WorkflowInv => QueueKeepsMessage
  <2> SUFFICES ASSUME WorkflowInv, message # NoMessage, source = "queue" PROVE QueueKeepsMessage
    BY DEF QueueKeepsMessage
  <2> DEFINE d == input.record
             direct == Build(input, d, analysis)
             empty == {f \in {"displayName", "objectName", "context", "description"} :
                         Falsy(Get(d, f))}
             field == [displayName |-> "Title", objectName |-> "Object",
                       context |-> "Description", description |-> "Description"]
  <2>1. input \in Records /\ message = Build(input, Payload(input), analysis)
    BY DEF WorkflowInv, InHand
  <2>2. Listed(d) /\ input.kind \in {"detection", "incident"}
    BY <2>1, RecordListed
  <2>3. /\ Falsy(Get(d, "displayName")) => "Title" \in {field[e] : e \in empty}
        /\ Falsy(Get(d, "objectName")) => "Object" \in {field[e] : e \in empty}
        /\ Falsy(Get(d, "context")) => "Description" \in {field[e] : e \in empty}
        /\ Falsy(Get(d, "description")) => "Description" \in {field[e] : e \in empty}
    <3> DEFINE D == {"displayName", "objectName", "context", "description"}
    <3>1. \A e \in D : Falsy(Get(d, e)) => e \in empty
      OBVIOUS
    <3>2. field["displayName"] = "Title" /\ field["objectName"] = "Object"
          /\ field["context"] = "Description" /\ field["description"] = "Description"
      OBVIOUS
    <3> HIDE DEF empty, field
    <3>3. QED BY <3>1, <3>2
  <2> DEFINE dropped == {field[e] : e \in empty}
  <2>4. \A f \in DOMAIN direct \ dropped : message[f] = Twice(f, direct[f])
    <3>1. CASE input.kind = "detection"
      <4>1. message = DetectionMessage(DetectionPayload(d), analysis)
            /\ direct = DetectionMessage(d, analysis)
        BY <2>1, <3>1 DEF Build, Payload
      <4> HIDE DEF d, direct, dropped, empty, field
      <4>2. QED BY <2>2, <2>3, <4>1, DetectionMessageSame DEF dropped
    <3>2. CASE input.kind # "detection"
      <4>1. message = IncidentMessage(IncidentPayload(d), analysis)
            /\ direct = IncidentMessage(d, analysis)
        BY <2>1, <3>2 DEF Build, Payload
      <4> HIDE DEF d, direct, dropped, empty, field
      <4>2. QED BY <2>2, <2>3, <4>1, IncidentMessageSame DEF dropped
    <3>3. QED BY <3>1, <3>2
  <2>5. QED BY <2>4 DEF QueueKeepsMessage, Twice
<1>2. QED BY <1>1, WorkflowInvHolds, PTL

\* The ledger knows a queued record and the one in the feed by the same key, so
\* that neither is sent after the other.
THEOREM QueueHasTheSameKey == WorkflowSpec => []QueueKeepsKey
<1>1. WorkflowInv => QueueKeepsKey
  <2> SUFFICES ASSUME WorkflowInv, phase # "idle", ~Falsy(Get(input.record, "uuid"))
               PROVE  QueueKeepsKey
    BY DEF QueueKeepsKey
  <2>1. input \in Records
    BY DEF WorkflowInv
  <2>2. /\ Listed(input.record)
        /\ \A k \in {"uuid", "occurTime", "updateTime"} :
             Get(input.record, k).marks = {} /\ Get(input.record, k).accounts = 0
    BY <2>1, RecordListed, WorkflowAssumption
  <2>3. CASE source # "queue"
    BY <2>3 DEF QueueKeepsKey, InHand
  <2>4. CASE source = "queue"
    <3>1. InHand = Payload(input)
      BY <2>4 DEF InHand
    <3>2. CASE input.kind = "detection"
      BY <2>2, <3>1, <3>2, DetectionKeySame DEF QueueKeepsKey, Payload
    <3>3. CASE input.kind # "detection"
      BY <2>2, <3>1, <3>3, IncidentKeySame DEF QueueKeepsKey, Payload
    <3>4. QED BY <3>2, <3>3
  <2>5. QED BY <2>3, <2>4
<1>2. QED BY <1>1, WorkflowInvHolds, PTL

-----------------------------------------------------------------------------
(* The search *)

\* The two numbers a limit is made of.
LEMMA MinOfTwo ==
  ASSUME NEW a \in Int, NEW b \in Int
  PROVE  Min({a, b}) = IF a <= b THEN a ELSE b
<1> DEFINE m == IF a <= b THEN a ELSE b
           M(x) == x \in {a, b} /\ \A y \in {a, b} : x <= y
<1>1. \A x : M(x) <=> x = m
  OBVIOUS
<1>2. (CHOOSE x : M(x)) = m
  <2> HIDE DEF M, m
  <2> QED BY <1>1
<1>3. QED BY <1>2 DEF Min

LEMMA MaxOfTwo ==
  ASSUME NEW a \in Int, NEW b \in Int
  PROVE  Max({a, b}) = IF a >= b THEN a ELSE b
<1> DEFINE m == IF a >= b THEN a ELSE b
           M(x) == x \in {a, b} /\ \A y \in {a, b} : x >= y
<1>1. \A x : M(x) <=> x = m
  OBVIOUS
<1>2. (CHOOSE x : M(x)) = m
  <2> HIDE DEF M, m
  <2> QED BY <1>1
<1>3. QED BY <1>2 DEF Max

\* Closer to the title, or as close and selected earlier.
Ahead(chunks, m, n) == chunks[m] > chunks[n] \/ (chunks[m] = chunks[n] /\ m < n)
Rank(chunks, n) == Cardinality(Better(chunks, n))

\* A chunk that is ahead has fewer better ones.
LEMMA RankOrders ==
  ASSUME NEW chunks \in Seq(Int), NEW m \in DOMAIN chunks, NEW n \in DOMAIN chunks,
         Ahead(chunks, m, n)
  PROVE  Rank(chunks, m) < Rank(chunks, n)
<1> DEFINE D == DOMAIN chunks
<1>1. D = 1..Len(chunks) /\ Len(chunks) \in Nat /\ \A k \in D : chunks[k] \in Int
  OBVIOUS
<1>2. IsFiniteSet(D)
  BY <1>1, FS_Interval
<1> HIDE DEF D
<1>3. Better(chunks, m) \subseteq Better(chunks, n)
  BY <1>1 DEF Better, Ahead, D
<1>4. m \in Better(chunks, n) /\ m \notin Better(chunks, m)
  BY <1>1 DEF Better, Ahead, D
<1>5. IsFiniteSet(Better(chunks, n))
  BY <1>2, FS_Subset DEF Better, D
<1>6. /\ Cardinality(Better(chunks, m)) <= Cardinality(Better(chunks, n))
      /\ Cardinality(Better(chunks, m)) # Cardinality(Better(chunks, n))
      /\ Cardinality(Better(chunks, m)) \in Nat /\ Cardinality(Better(chunks, n)) \in Nat
  BY <1>3, <1>4, <1>5, FS_Subset, FS_CardinalityType
<1>7. QED BY <1>6 DEF Rank

\* The ranks of n chunks are 0 to n-1: no two are alike, and none is left out.
LEMMA EveryRank ==
  ASSUME NEW chunks \in Seq(Int), NEW k \in 0..Len(chunks)-1
  PROVE  \E n \in DOMAIN chunks : Rank(chunks, n) = k
<1> DEFINE D == DOMAIN chunks
           R == 0..Len(chunks)-1
           f == [n \in D |-> Rank(chunks, n)]
<1>1. D = 1..Len(chunks) /\ Len(chunks) \in Nat /\ \A n \in D : chunks[n] \in Int
  OBVIOUS
<1>2. IsFiniteSet(D) /\ Cardinality(D) = Len(chunks)
  <2>1. 1 \in Int /\ Len(chunks) \in Int
    BY <1>1
  <2>2. IsFiniteSet(1..Len(chunks))
        /\ Cardinality(1..Len(chunks)) = IF 1 > Len(chunks) THEN 0 ELSE Len(chunks) - 1 + 1
    BY <2>1, FS_Interval
  <2>3. (IF 1 > Len(chunks) THEN 0 ELSE Len(chunks) - 1 + 1) = Len(chunks)
    BY <1>1
  <2>4. QED BY <1>1, <2>2, <2>3
<1>3. IsFiniteSet(R) /\ Cardinality(R) = Len(chunks)
  <2>1. 0 \in Int /\ Len(chunks) - 1 \in Int
    BY <1>1
  <2>2. IsFiniteSet(R) /\ Cardinality(R) = IF 0 > Len(chunks) - 1 THEN 0 ELSE Len(chunks) - 1 - 0 + 1
    BY <2>1, FS_Interval
  <2>3. QED BY <1>1, <2>2
<1> HIDE DEF D, R
<1>4. ASSUME NEW n \in D PROVE Rank(chunks, n) \in R
  <2>1. Better(chunks, n) \subseteq D \ {n}
    BY <1>1 DEF Better, D
  <2>2. IsFiniteSet(D \ {n}) /\ Cardinality(D \ {n}) = Len(chunks) - 1
    BY <1>2, FS_RemoveElement
  <2>3. Cardinality(Better(chunks, n)) <= Len(chunks) - 1 /\ Cardinality(Better(chunks, n)) \in Nat
    BY <2>1, <2>2, FS_Subset, FS_CardinalityType
  <2>4. QED BY <1>1, <2>3 DEF Rank, R
<1>5. ASSUME NEW m \in D, NEW n \in D, m # n PROVE Rank(chunks, m) # Rank(chunks, n)
  <2>1. Ahead(chunks, m, n) \/ Ahead(chunks, n, m)
    BY <1>1, <1>5 DEF Ahead
  <2>2. Rank(chunks, m) < Rank(chunks, n) \/ Rank(chunks, n) < Rank(chunks, m)
    BY <2>1, RankOrders DEF D
  <2>3. Rank(chunks, m) \in Int /\ Rank(chunks, n) \in Int
    BY <1>4, <1>1 DEF R
  <2>4. QED BY <2>2, <2>3
<1>6. f \in Injection(D, R)
  BY <1>4, <1>5 DEF Injection, IsInjective
<1> HIDE DEF f
<1>7. f \in Surjection(D, R)
  BY <1>2, <1>3, <1>6, FS_Injection
<1>8. \E n \in D : f[n] = k
  BY <1>7 DEF Surjection, R
<1>9. QED BY <1>8 DEF f, D

\* What the search of the knowledge index returns, for every index and limit: as
\* many chunks as there are, up to the limit, best first, ties as selected, and
\* none that is left out is ahead of one that is returned.
THEOREM SearchRanks ==
  ASSUME NEW chunks \in Seq(Int), NEW limit \in Nat
  PROVE  LET found == Search(chunks, limit)
         IN /\ found \in Seq(DOMAIN chunks)
            /\ Len(found) = IF limit <= Len(chunks) THEN limit ELSE Len(chunks)
            /\ \A j, k \in DOMAIN found : j < k => Ahead(chunks, found[j], found[k])
            /\ \A n \in DOMAIN chunks :
                 (\A k \in DOMAIN found : found[k] # n)
                   => \A k \in DOMAIN found : Ahead(chunks, found[k], n)
<1> DEFINE size == IF limit <= Len(chunks) THEN limit ELSE Len(chunks)
           found == Search(chunks, limit)
           D == DOMAIN chunks
<1>1. D = 1..Len(chunks) /\ Len(chunks) \in Nat /\ \A n \in D : chunks[n] \in Int
  OBVIOUS
<1>2. Min({limit, Len(chunks)}) = size /\ size \in Nat /\ size <= Len(chunks)
  BY <1>1, MinOfTwo
<1> HIDE DEF size
<1>3. found = [k \in 1..size |-> CHOOSE n \in D : Rank(chunks, n) = k - 1]
  BY <1>2 DEF Search, Rank
<1> HIDE DEF D, found
<1>4. \A k \in 1..size : found[k] \in D /\ Rank(chunks, found[k]) = k - 1
  <2> SUFFICES ASSUME NEW k \in 1..size PROVE found[k] \in D /\ Rank(chunks, found[k]) = k - 1
    OBVIOUS
  <2>1. \E n \in D : Rank(chunks, n) = k - 1
    <3>1. k - 1 \in 0..Len(chunks)-1
      BY <1>1, <1>2
    <3>2. QED BY <3>1, EveryRank DEF D
  <2>2. QED BY <2>1, <1>3
<1>5. DOMAIN found = 1..size /\ found \in Seq(D) /\ Len(found) = size
  <2>1. found \in [1..size -> D]
    BY <1>3, <1>4
  <2>2. QED BY <2>1, <1>2
<1>6. ASSUME NEW m \in D, NEW n \in D, m # n, ~Ahead(chunks, m, n)
      PROVE  Ahead(chunks, n, m)
  BY <1>1, <1>6 DEF Ahead
<1>7. ASSUME NEW j \in 1..size, NEW n \in D, found[j] # n,
             \A k \in 1..size : k < j => found[k] # n
      PROVE  Ahead(chunks, found[j], n)
  <2>1. SUFFICES ASSUME Ahead(chunks, n, found[j]) PROVE FALSE
    BY <1>4, <1>6, <1>7
  <2>2. Rank(chunks, n) < j - 1
    BY <2>1, <1>4, RankOrders DEF D
  <2>3. Rank(chunks, n) \in Nat
    <3>1. Better(chunks, n) \subseteq D /\ IsFiniteSet(D)
      BY <1>1, FS_Interval DEF Better, D
    <3>2. QED BY <3>1, FS_Subset, FS_CardinalityType DEF Rank
  <2> DEFINE k == Rank(chunks, n) + 1
  <2>4. k \in 1..size /\ k < j
    BY <2>2, <2>3, <1>2
  <2>5. Rank(chunks, found[k]) = Rank(chunks, n) /\ found[k] \in D
    BY <2>3, <2>4, <1>4
  <2> HIDE DEF k
  <2>6. found[k] # n
    BY <2>4, <1>7
  <2>7. Rank(chunks, found[k]) # Rank(chunks, n)
    <3>1. Rank(chunks, found[k]) < Rank(chunks, n) \/ Rank(chunks, n) < Rank(chunks, found[k])
      BY <2>5, <2>6, <1>6, RankOrders DEF D
    <3>2. QED BY <3>1, <2>3, <2>5
  <2>8. QED BY <2>5, <2>7
<1>8. ASSUME NEW j \in 1..size, NEW k \in 1..size, j < k
      PROVE  Ahead(chunks, found[j], found[k])
  <2>1. \A l \in 1..size : l # k => found[l] # found[k]
    <3>1. \A l \in 1..size : Rank(chunks, found[l]) = l - 1
      BY <1>4
    <3>2. \A l \in 1..size : l # k => l - 1 # k - 1
      BY <1>2
    <3>3. QED BY <3>1, <3>2
  <2>2. found[j] # found[k] /\ \A l \in 1..size : l < j => found[l] # found[k]
    BY <2>1, <1>2, <1>8
  <2>3. found[k] \in D
    BY <1>4
  <2>4. QED BY <2>2, <2>3, <1>7
<1>9. ASSUME NEW n \in D, \A k \in 1..size : found[k] # n, NEW k \in 1..size
      PROVE  Ahead(chunks, found[k], n)
  BY <1>7, <1>9
<1>10. QED BY <1>5, <1>8, <1>9 DEF found, size, D

-----------------------------------------------------------------------------
(* The analysis *)

\* The caps of the gateway's sums.
LEMMA AtMost ==
  ASSUME NEW n \in Nat, NEW m \in Nat
  PROVE  Min({n, m}) \in 0..m /\ (n <= m => Min({n, m}) = n)
BY MinOfTwo

LEMMA FiveAtMost ==
  ASSUME NEW n \in Nat
  PROVE  Min({5, n}) \in 0..5 /\ (n = 0 => Min({5, n}) = 0) /\ (n # 0 => 1 \in 1..Min({5, n}))
BY MinOfTwo

LEMMA CappedConfidence ==
  ASSUME NEW b \in 35..100
  PROVE  Min({b, 85}) \in 35..85 /\ (b <= 60 => Min({b, 85}) <= 60)
BY MinOfTwo

LEMMA RootConfidence ==
  ASSUME NEW c \in 35..85
  PROVE  Max({c - 20, 10}) \in 0..100
<1>1. ASSUME NEW d \in 15..65 PROVE Max({d, 10}) \in 0..100
  BY MaxOfTwo
<1>2. c - 20 \in 15..65
  OBVIOUS
<1>3. QED BY <1>1, <1>2, Zenon

\* Without evidence the confidence ends at 60, below the threshold of 65.
LEMMA ConfidenceBounds ==
  ASSUME NEW subject, NEW found, NEW n \in Nat, n = Len(found)
  PROVE  /\ Confidence(subject, found) \in 35..85
         /\ n = 0 => Confidence(subject, found) <= 60
<1> DEFINE summary == IF Falsy(subject.summary) THEN 0 ELSE 15
           grave == IF Grave(subject.severity) THEN 10 ELSE 0
<1>1. Confidence(subject, found) = Min({35 + summary + 8 * Min({5, n}) + grave, 85})
  BY DEF Confidence
<1>2. summary \in {0, 15} /\ grave \in {0, 10}
  OBVIOUS
<1> HIDE DEF summary, grave
<1>3. \A s \in {0, 15}, g \in {0, 10}, e \in 0..5 :
        /\ 35 + s + 8 * e + g \in 35..100
        /\ e = 0 => 35 + s + 8 * e + g <= 60
  OBVIOUS
<1>4. Min({5, n}) \in 0..5 /\ (n = 0 => Min({5, n}) = 0)
  BY FiveAtMost, Zenon
<1> DEFINE b == 35 + summary + 8 * Min({5, n}) + grave
<1>5. b \in 35..100 /\ (n = 0 => b <= 60)
  <2> DEFINE e == Min({5, n})
  <2>1. e \in 0..5 /\ (n = 0 => e = 0) /\ b = 35 + summary + 8 * e + grave
    BY <1>4
  <2> HIDE DEF e
  <2>2. QED BY <1>2, <1>3, <2>1
<1> HIDE DEF b
<1>6. Confidence(subject, found) = Min({b, 85})
  BY <1>1 DEF b
<1>7. Min({b, 85}) \in 35..85 /\ (b <= 60 => Min({b, 85}) <= 60)
  BY <1>5, CappedConfidence, Zenon
<1>8. QED BY <1>5, <1>6, <1>7, Zenon

\* What an analysis of chunks found in an index is like.
Grounded(result, severity) ==
  /\ result.done
  /\ result.confidence \in 0..100
  /\ result.rootConfidence \in 0..100
  /\ result.coverage \in 0..100
  /\ result.evidence # {}
  /\ result.evidence = {NoEvidence} => result.confidence < 65
  /\ result.destructive <=> Grave(severity)

\* Every analysis of the local gateway is, for every incident and index.
LEMMA AnalysisIsGrounded ==
  ASSUME NEW subject, NEW chunks \in Seq(Int)
  PROVE  Grounded(Analyze(subject, Search(chunks, SearchLimit)), subject.severity)
<1> DEFINE found == Search(chunks, SearchLimit)
           c == Confidence(subject, found)
           result == Analyze(subject, found)
<1>1. chunks \in Seq(Int) /\ SearchLimit \in Nat /\ SearchLimit # 0
  BY DEF SearchLimit
<1>2. /\ found \in Seq(DOMAIN chunks)
      /\ Len(found) = IF SearchLimit <= Len(chunks) THEN SearchLimit ELSE Len(chunks)
  BY <1>1, SearchRanks
<1>3. Len(found) \in Nat /\ DOMAIN chunks = 1..Len(chunks)
  BY <1>2
<1> DEFINE n == Len(found)
<1> HIDE DEF found, n
<1>4. c \in 35..85 /\ (n = 0 => c <= 60)
  BY <1>3, ConfidenceBounds DEF n
<1> HIDE DEF c
<1>5. Max({c - 20, 10}) \in 0..100
  BY <1>4, RootConfidence, Zenon
<1>6. Coverage(found) \in 0..100
  <2>1. 20 * n \in Nat
    BY <1>3 DEF n
  <2>2. QED BY <2>1, AtMost, Zenon DEF Coverage, n
<1>7. Cited(found) # {} /\ (Cited(found) = {NoEvidence} => n = 0)
  <2>1. CASE found = <<>>
    BY <2>1 DEF Cited, n
  <2>2. CASE found # <<>>
    <3>1. Len(found) \in Nat \ {0}
      BY <2>2, <1>2
    <3>2. Min({5, Len(found)}) >= 1 /\ Min({5, Len(found)}) \in Nat
      BY <3>1, MinOfTwo
    <3>3. found[1] \in DOMAIN chunks
      BY <3>1, <1>2
    <3>4. Cited(found) = {found[i] : i \in 1..Min({5, Len(found)})}
      BY <2>2 DEF Cited
    <3>5. 1 \in 1..Min({5, Len(found)})
      BY <3>2
    <3>6. found[1] \in Cited(found)
      BY <3>4, <3>5
    <3>7. found[1] # NoEvidence
      BY <3>3, <1>3 DEF NoEvidence
    <3>8. QED BY <3>6, <3>7
  <2>3. QED BY <2>1, <2>2
<1>8. /\ result.done /\ result.confidence = c /\ result.rootConfidence = Max({c - 20, 10})
      /\ result.coverage = Coverage(found) /\ result.evidence = Cited(found)
      /\ result.destructive <=> Grave(subject.severity)
  BY DEF Analyze, c
<1> HIDE DEF result
<1>9. Grounded(result, subject.severity)
  BY <1>4, <1>5, <1>6, <1>7, <1>8 DEF Grounded
<1>10. QED BY <1>9 DEF result, found

-----------------------------------------------------------------------------
(* The agent graph *)

\* The state of the graph, for an analysis of confidence c and the policy's
\* decision a on the approval.
NeedsApproval(s) == GetOr(s, "requires_human_approval", FALSE)
GoodState(s, c, a) ==
  /\ Has(s, "confidence") /\ GetOr(s, "confidence", 0) = c
  /\ NeedsApproval(s) = a
  /\ GetOr(s, "unsupported_claim_count", 0) = 0
  /\ GetOr(s, "security_review", <<>>) \in {<<>>, [passed |-> TRUE]}
  /\ GetOr(s, "approval_status", "pending") \in Statuses
  /\ GetOr(s, "retry_count", 0) \in Nat

Status(s) == GetOr(s, "approval_status", "none")

\* A node fills in one key and leaves the others.
LEMMA PutFacts ==
  ASSUME NEW s, NEW k, NEW v
  PROVE  /\ \A x : Has(Put(s, k, v), x) <=> x = k \/ Has(s, x)
         /\ \A d : GetOr(Put(s, k, v), k, d) = v
         /\ \A x, d : x # k => GetOr(Put(s, k, v), x, d) = GetOr(s, x, d)
         /\ k # "requires_human_approval" => NeedsApproval(Put(s, k, v)) = NeedsApproval(s)
<1>1. /\ \A x : Has(Put(s, k, v), x) <=> x = k \/ Has(s, x)
      /\ \A d : GetOr(Put(s, k, v), k, d) = v
      /\ \A x, d : x # k => GetOr(Put(s, k, v), x, d) = GetOr(s, x, d)
  BY DEF Put, GetOr, Has
<1>2. k # "requires_human_approval" => NeedsApproval(Put(s, k, v)) = NeedsApproval(s)
  BY <1>1, Zenon DEF NeedsApproval
<1>3. QED BY <1>1, <1>2

\* No other key has a part in it.
LEMMA PutGood ==
  ASSUME NEW s, NEW c, NEW a, GoodState(s, c, a), NEW k, NEW v,
         k \notin {"confidence", "requires_human_approval", "unsupported_claim_count",
                   "security_review", "approval_status", "retry_count"}
  PROVE  GoodState(Put(s, k, v), c, a) /\ Status(Put(s, k, v)) = Status(s)
BY PutFacts DEF GoodState, Status

\* No node but the approval and the rejection touches the verdict, and none the
\* confidence or the decision of the policy.
LEMMA WorkGood ==
  ASSUME NEW s, NEW c, NEW a, GoodState(s, c, a), NEW n \in Nodes
  PROVE  /\ GoodState(Work(n, s), c, a)
         /\ n \notin {"approval", "reject"} => Status(Work(n, s)) = Status(s)
         /\ n = "approval" => Status(Work(n, s)) = GetOr(s, "approval_status", "pending")
         /\ n = "reject" => Status(Work(n, s)) = "rejected"
<1>1. CASE n = "intake"
  <2>1. Work(n, s) = IF Has(s, "retry_count") THEN s ELSE Put(s, "retry_count", 0)
    BY <1>1 DEF Work, IntakeNode, SetDefault
  <2>2. GoodState(Put(s, "retry_count", 0), c, a)
        /\ Status(Put(s, "retry_count", 0)) = Status(s)
    BY PutFacts DEF GoodState, Status
  <2>3. QED BY <1>1, <2>1, <2>2
<1>2. CASE n = "retrieve"
  BY <1>2, PutGood DEF Work, RetrieveNode, SetDefault
<1>3. CASE n = "investigate"
  BY <1>3, PutGood DEF Work, InvestigateNode
<1>4. CASE n = "root_cause"
  BY <1>4, PutGood DEF Work, RootCauseNode
<1>5. CASE n = "remediation"
  BY <1>5, PutGood DEF Work, RemediationNode
<1>6. CASE n = "critique"
  <2> DEFINE t == Put(s, "unsupported_claim_count", 0)
  <2>1. GoodState(t, c, a) /\ Status(t) = Status(s)
    BY PutFacts DEF GoodState, Status
  <2>2. Has(t, "confidence")
    BY <2>1 DEF GoodState
  <2>3. Work(n, s) = t
    BY <1>6, <2>2 DEF Work, CritiqueNode, SetDefault
  <2>4. QED BY <1>6, <2>1, <2>3
<1>7. CASE n = "security_review"
  <2>1. Work(n, s) = Put(s, "security_review", [passed |-> TRUE])
    BY <1>7 DEF Work, SecurityReviewNode
  <2>2. QED BY <1>7, <2>1, PutFacts DEF GoodState, Status
<1>8. CASE n = "approval"
  <2>1. Work(n, s) = IF Has(s, "approval_status") THEN s ELSE Put(s, "approval_status", "pending")
    BY <1>8 DEF Work, ApprovalNode, SetDefault
  <2>2. GoodState(Put(s, "approval_status", "pending"), c, a)
        /\ Status(Put(s, "approval_status", "pending")) = "pending"
    BY PutFacts DEF GoodState, Status, Statuses
  <2>3. QED BY <1>8, <2>1, <2>2 DEF Status, GetOr, Has
<1>9. CASE n = "compose"
  BY <1>9, PutGood DEF Work, ComposeNode, SetDefault
<1>10. CASE n = "notify"
  BY <1>10, PutGood DEF Work, NotifyNode
<1>11. CASE n = "reject"
  <2>1. Work(n, s) = Put(s, "approval_status", "rejected")
    BY <1>11 DEF Work, RejectNode
  <2>2. QED BY <1>11, <2>1, PutFacts DEF GoodState, Status, Statuses
<1>12. QED
  BY <1>1, <1>2, <1>3, <1>4, <1>5, <1>6, <1>7, <1>8, <1>9, <1>10, <1>11 DEF Nodes

\* Where an edge leads, for every state of that kind.
LEMMA FollowGood ==
  ASSUME NEW s, NEW c \in 0..100, NEW a \in BOOLEAN, GoodState(s, c, a), NEW n \in Nodes
  PROVE  /\ Follow(n, s) \in Nodes \cup {"end"}
         /\ n = "critique" => Follow(n, s) = IF c < 65 THEN "reject" ELSE "security_review"
         /\ n = "security_review" => Follow(n, s) = IF a THEN "approval" ELSE "compose"
         /\ n = "approval" /\ Status(s) = "approved" => Follow(n, s) = "compose"
         /\ n = "approval" /\ Status(s) # "approved" => Follow(n, s) \in {"reject", "end"}
         /\ n \in {"intake", "retrieve", "investigate", "root_cause", "remediation"} =>
              Follow(n, s) \in {"retrieve", "investigate", "root_cause", "remediation", "critique"}
         /\ n = "compose" => Follow(n, s) = "notify"
         /\ n \in {"notify", "reject"} => Follow(n, s) = "end"
<1>1. CASE n = "critique"
  <2>1. GetOr(s, "unsupported_claim_count", 0) = 0 /\ GetOr(s, "confidence", 0) = c
    BY DEF GoodState
  <2>2. Follow(n, s) = IF c < 65 THEN "reject" ELSE "security_review"
    BY <1>1, <2>1 DEF Follow, AfterCritique
  <2>3. QED BY <1>1, <2>2 DEF Nodes
<1>2. CASE n = "security_review"
  <2> DEFINE review == GetOr(s, "security_review", <<>>)
  <2>1. review \in {<<>>, [passed |-> TRUE]} /\ NeedsApproval(s) = a
    BY DEF GoodState
  <2>2. ~Has(review, "pass")
    BY <2>1 DEF Has
  <2>3. Follow(n, s) = IF a THEN "approval" ELSE "compose"
    BY <1>2, <2>1, <2>2, Zenon DEF Follow, AfterSecurityReview, NeedsApproval
  <2>4. QED BY <1>2, <2>3 DEF Nodes
<1>3. CASE n = "approval"
  BY <1>3 DEF Follow, AfterApproval, Status, GetOr, Nodes
<1>4. CASE n \notin {"critique", "security_review", "approval"}
  BY <1>4 DEF Follow, Edge, Nodes
<1>5. QED BY <1>1, <1>2, <1>3, <1>4

-----------------------------------------------------------------------------
(* The workflow *)

\* The state of the analysis, and that of the graph under way with it.
AnalysisInv ==
  /\ index \in Indexes \cup {<<>>}
  /\ analysis.done \in BOOLEAN
  /\ analysis.done => Grounded(analysis, InputSeverity)

\* Nothing has driven the graph for the record in hand.
GraphIdle == node = "end" /\ passed = {} /\ state = <<>>

\* The nodes an invocation has run or is about to.
Reached == passed \cup {node}

\* What the graph may have run, given the analysis and the policy: nothing behind
\* the critique without confidence, the approval only if the policy asks for one,
\* nothing behind the approval but with the verdict that lets it pass.
GraphInv ==
  /\ phase = "built" /\ analysis.done
  /\ node \in Nodes \cup {"end"} /\ passed \subseteq Nodes
  /\ GoodState(state, analysis.confidence, Decision.approval)
  /\ analysis.confidence < 65 =>
       Reached \cap {"security_review", "approval", "compose", "notify"} = {}
  /\ "approval" \in Reached => Decision.approval
  /\ Decision.approval /\ Reached \cap {"compose", "notify"} # {} => Status(state) = "approved"
  /\ "reject" \in Reached => analysis.confidence < 65 \/ Decision.approval
  /\ node = "end" => "notify" \in passed \/ analysis.confidence < 65 \/ Decision.approval
  /\ node \notin {"notify", "end"} => passed \cap {"compose", "notify"} = {}
  /\ "approval" \in passed => Status(state) # "none"

\* The inductive invariant of the workflow.
WorkflowIInv ==
  /\ WorkflowInv
  /\ AnalysisInv
  /\ phase \in {"idle", "received", "analysed", "built"}
  /\ invocations \in 0..MaxInvocations
  /\ invocations = 0 => GraphIdle
  /\ invocations # 0 => GraphInv

\* The analyzer and the policy have the severity of the record.
LEMMA AskedSeverity == Asked.severity = InputSeverity
BY DEF Asked, FromIncident, FromPayload, FromDetection, Incident

\* The policy asks for an approval of what is grave and of nothing else.
LEMMA DecisionFacts ==
  ASSUME Grounded(analysis, InputSeverity)
  PROVE  /\ Decision.approval \in BOOLEAN
         /\ Decision.approval <=> Grave(InputSeverity)
         /\ Decision.allowed => ~Decision.approval /\ analysis.confidence >= 80
BY DEF Decision, Evaluate, Grounded

\* What a node leaves, and where its edge leads.
LEMMA StepLeads ==
  ASSUME WorkflowIInv, Step, NEW c, NEW a, c = analysis.confidence, a = Decision.approval
  PROVE  /\ node \in Nodes /\ invocations # 0 /\ GraphInv
         /\ c \in 0..100 /\ a \in BOOLEAN
         /\ GoodState(state', c, a)
         /\ node \notin {"approval", "reject"} => Status(state') = Status(state)
         /\ node = "approval" => Status(state') \in Statuses
         /\ node = "reject" => Status(state') = "rejected"
         /\ node' \in Nodes \cup {"end"}
         /\ node = "critique" => node' = IF c < 65 THEN "reject" ELSE "security_review"
         /\ node = "security_review" => node' = IF a THEN "approval" ELSE "compose"
         /\ node = "approval" /\ Status(state') = "approved" => node' = "compose"
         /\ node = "approval" /\ Status(state') # "approved" => node' \in {"reject", "end"}
         /\ node \in {"intake", "retrieve", "investigate", "root_cause", "remediation"} =>
              node' \in {"retrieve", "investigate", "root_cause", "remediation", "critique"}
         /\ node = "compose" => node' = "notify"
         /\ node \in {"notify", "reject"} => node' = "end"
<1>1. node \in Nodes /\ invocations # 0 /\ GraphInv
  BY DEF Step, WorkflowIInv, GraphIdle, GraphInv
<1>2. state' = Work(node, state) /\ node' = Follow(node, state')
  BY DEF Step
<1>3. Grounded(analysis, InputSeverity)
  BY <1>1 DEF WorkflowIInv, AnalysisInv, GraphInv
<1>4. c \in 0..100 /\ a \in BOOLEAN
  BY <1>3, DecisionFacts DEF Grounded
<1>5. GoodState(state, c, a)
  BY <1>1 DEF GraphInv
<1>6. /\ GoodState(state', c, a)
      /\ node \notin {"approval", "reject"} => Status(state') = Status(state)
      /\ node = "approval" => Status(state') \in Statuses
      /\ node = "reject" => Status(state') = "rejected"
  BY <1>1, <1>2, <1>5, WorkGood DEF GoodState
<1>7. /\ node' \in Nodes \cup {"end"}
      /\ node = "critique" => node' = IF c < 65 THEN "reject" ELSE "security_review"
      /\ node = "security_review" => node' = IF a THEN "approval" ELSE "compose"
      /\ node = "approval" /\ Status(state') = "approved" => node' = "compose"
      /\ node = "approval" /\ Status(state') # "approved" => node' \in {"reject", "end"}
      /\ node \in {"intake", "retrieve", "investigate", "root_cause", "remediation"} =>
           node' \in {"retrieve", "investigate", "root_cause", "remediation", "critique"}
      /\ node = "compose" => node' = "notify"
      /\ node \in {"notify", "reject"} => node' = "end"
  <2> DEFINE next == Follow(node, state')
  <2>1. /\ next \in Nodes \cup {"end"}
        /\ node = "critique" => next = IF c < 65 THEN "reject" ELSE "security_review"
        /\ node = "security_review" => next = IF a THEN "approval" ELSE "compose"
        /\ node = "approval" /\ Status(state') = "approved" => next = "compose"
        /\ node = "approval" /\ Status(state') # "approved" => next \in {"reject", "end"}
        /\ node \in {"intake", "retrieve", "investigate", "root_cause", "remediation"} =>
             next \in {"retrieve", "investigate", "root_cause", "remediation", "critique"}
        /\ node = "compose" => next = "notify"
        /\ node \in {"notify", "reject"} => next = "end"
    BY <1>1, <1>4, <1>6, FollowGood
  <2>2. node' = next
    BY <1>2
  <2> HIDE DEF next
  <2>3. QED BY <2>1, <2>2
<1>8. QED BY <1>1, <1>4, <1>6, <1>7

\* A node and its edge.
LEMMA StepKeeps ==
  ASSUME WorkflowIInv, Step, UNCHANGED <<flow, invocations>>
  PROVE  WorkflowIInv'
<1> DEFINE c == analysis.confidence
           a == Decision.approval
<1>1. node \in Nodes /\ invocations # 0 /\ GraphInv
  BY DEF Step, WorkflowIInv, GraphIdle, GraphInv
<1>2. /\ state' = Work(node, state) /\ node' = Follow(node, state') /\ passed' = passed \cup {node}
      /\ analysis' = analysis /\ phase' = phase /\ invocations' = invocations
      /\ index' = index /\ input' = input /\ source' = source /\ message' = message
  BY DEF Step, flow
<1>3. Decision' = Decision /\ InputSeverity' = InputSeverity
  BY <1>2 DEF Decision, InputSeverity
<1>4. WorkflowInv' /\ AnalysisInv'
  BY <1>2, <1>3 DEF WorkflowIInv, WorkflowInv, AnalysisInv, InHand
<1> HIDE DEF c, a
<1>5. /\ c \in 0..100 /\ a \in BOOLEAN
      /\ GoodState(state', c, a)
      /\ node \notin {"approval", "reject"} => Status(state') = Status(state)
      /\ node = "approval" => Status(state') \in Statuses
      /\ node = "reject" => Status(state') = "rejected"
      /\ node' \in Nodes \cup {"end"}
      /\ node = "critique" => node' = IF c < 65 THEN "reject" ELSE "security_review"
      /\ node = "security_review" => node' = IF a THEN "approval" ELSE "compose"
      /\ node = "approval" /\ Status(state') = "approved" => node' = "compose"
      /\ node = "approval" /\ Status(state') # "approved" => node' \in {"reject", "end"}
      /\ node \in {"intake", "retrieve", "investigate", "root_cause", "remediation"} =>
           node' \in {"retrieve", "investigate", "root_cause", "remediation", "critique"}
      /\ node = "compose" => node' = "notify"
      /\ node \in {"notify", "reject"} => node' = "end"
  BY StepLeads DEF c, a
<1>6. node \in {"intake", "retrieve", "investigate", "root_cause", "remediation", "critique",
                "security_review", "approval", "compose", "notify", "reject"}
  BY <1>1 DEF Nodes
<1>7. GraphInv'
  <2>1. c' = c /\ a' = a
    BY <1>2, <1>3 DEF c, a
  <2>2. phase' = "built" /\ analysis'.done /\ passed' \subseteq Nodes
    BY <1>1, <1>2 DEF GraphInv
  <2>3. c < 65 => Reached' \cap {"security_review", "approval", "compose", "notify"} = {}
    BY <1>1, <1>2, <1>5, <1>6 DEF GraphInv, Reached, c
  <2>4. "approval" \in Reached' => a
    BY <1>1, <1>2, <1>5, <1>6 DEF GraphInv, Reached, a
  <2>5. a /\ Reached' \cap {"compose", "notify"} # {} => Status(state') = "approved"
    BY <1>1, <1>2, <1>5, <1>6 DEF GraphInv, Reached, a
  <2>6. "reject" \in Reached' => c < 65 \/ a
    BY <1>1, <1>2, <1>5, <1>6 DEF GraphInv, Reached, a, c
  <2>7. node' = "end" => "notify" \in passed' \/ c < 65 \/ a
    BY <1>1, <1>2, <1>5, <1>6 DEF GraphInv, Reached, a, c
  <2>8. node' \notin {"notify", "end"} => passed' \cap {"compose", "notify"} = {}
    BY <1>1, <1>2, <1>5, <1>6 DEF GraphInv
  <2>9. "approval" \in passed' => Status(state') # "none"
    BY <1>1, <1>2, <1>5, <1>6 DEF GraphInv, Statuses
  <2>10. GoodState(state', analysis'.confidence, Decision'.approval)
    BY <1>5, <2>1 DEF c, a
  <2>11. QED
    BY <1>5, <2>1, <2>2, <2>3, <2>4, <2>5, <2>6, <2>7, <2>8, <2>9, <2>10 DEF GraphInv, c, a
<1>8. QED
  BY <1>1, <1>2, <1>4, <1>7 DEF WorkflowIInv

\* A new invocation, with a fresh state or with the one the last one left.
LEMMA InvokeKeeps ==
  ASSUME GraphInv \/ (phase = "built" /\ analysis.done),
         Grounded(analysis, InputSeverity),
         NEW s, GoodState(s, analysis.confidence, Decision.approval),
         Invoke(s), UNCHANGED flow
  PROVE  GraphInv'
<1>1. /\ node' = "intake" /\ state' = s /\ passed' = {}
      /\ analysis' = analysis /\ phase' = phase /\ input' = input
  BY DEF Invoke, flow
<1>2. Decision' = Decision
  BY <1>1 DEF Decision, InputSeverity
<1>3. phase' = "built" /\ analysis'.done
  BY <1>1 DEF GraphInv
<1>4. GoodState(state', analysis'.confidence, Decision'.approval)
  BY <1>1, <1>2
<1>5. Reached' = {"intake"}
  BY <1>1 DEF Reached
<1>6. QED BY <1>1, <1>3, <1>4, <1>5 DEF GraphInv, Nodes

\* The verdict of a person.
LEMMA DecideKeeps ==
  ASSUME WorkflowIInv, Decide, UNCHANGED <<flow, invocations>>
  PROVE  WorkflowIInv'
<1>1. PICK verdict \in {"approved", "rejected"} :
        state' = [state EXCEPT !["approval_status"] = verdict]
  BY DEF Decide
<1>2. /\ node = "end" /\ "approval" \in passed /\ node' = node /\ passed' = passed
      /\ state["approval_status"] = "pending"
      /\ analysis' = analysis /\ phase' = phase /\ invocations' = invocations
      /\ index' = index /\ input' = input /\ source' = source /\ message' = message
  BY DEF Decide, flow
<1>3. invocations # 0 /\ GraphInv
  BY <1>2 DEF WorkflowIInv, GraphIdle
<1>4. Decision' = Decision /\ InputSeverity' = InputSeverity
  BY <1>2 DEF Decision, InputSeverity
<1>5. WorkflowInv' /\ AnalysisInv'
  BY <1>2, <1>4 DEF WorkflowIInv, WorkflowInv, AnalysisInv, InHand
<1>6. Has(state, "approval_status") /\ Status(state) = "pending"
  <2>1. Status(state) # "none"
    BY <1>2, <1>3 DEF GraphInv
  <2>2. QED BY <2>1, <1>2 DEF Status, GetOr, Has
<1>7. /\ \A x : Has(state', x) <=> Has(state, x)
      /\ \A d : GetOr(state', "approval_status", d) = verdict
      /\ \A x, d : x # "approval_status" => GetOr(state', x, d) = GetOr(state, x, d)
  <2>1. DOMAIN state' = DOMAIN state
    BY <1>1
  <2>2. state'["approval_status"] = verdict
    BY <1>1, <1>6 DEF Has
  <2>3. \A x \in DOMAIN state : x # "approval_status" => state'[x] = state[x]
    BY <1>1
  <2>4. QED BY <1>6, <2>1, <2>2, <2>3 DEF Has, GetOr
<1>8. NeedsApproval(state') = NeedsApproval(state)
  BY <1>7, Zenon DEF NeedsApproval
<1>9. GoodState(state', analysis'.confidence, Decision'.approval) /\ Status(state') = verdict
  BY <1>2, <1>3, <1>4, <1>7, <1>8 DEF GraphInv, GoodState, Status, Statuses
<1>10. GraphInv'
  <2>1. Decision.approval
    BY <1>2, <1>3 DEF GraphInv, Reached
  <2>2. Reached \cap {"compose", "notify"} = {}
    BY <1>3, <1>6, <2>1 DEF GraphInv
  <2>3. Reached' = Reached
    BY <1>2 DEF Reached
  <2>4. QED BY <1>2, <1>3, <1>4, <1>9, <2>1, <2>2, <2>3 DEF GraphInv
<1>11. QED BY <1>2, <1>3, <1>5, <1>10 DEF WorkflowIInv

\* Together with the messages the whole invariant.
LEMMA WorkflowIInvHolds == WorkflowSpec => []WorkflowIInv
<1>1. WorkflowInit => WorkflowIInv
  BY WorkflowAssumption
  DEF WorkflowInit, GraphInit, WorkflowIInv, WorkflowInv, AnalysisInv, GraphIdle, NoAnalysis
<1>2. WorkflowIInv /\ WorkflowInv' /\ [WorkflowNext]_workflow => WorkflowIInv'
  <2> SUFFICES ASSUME WorkflowIInv, WorkflowInv', [WorkflowNext]_workflow PROVE WorkflowIInv'
    OBVIOUS
  <2>0. invocations \in Nat /\ MaxInvocations \in Nat
    BY WorkflowAssumption DEF WorkflowIInv
  <2>1. CASE Receive
    <3>1. GraphIdle' /\ AnalysisInv'
      BY <2>1 DEF Receive, GraphIdle, AnalysisInv, NoAnalysis
    <3>2. invocations' = 0 /\ phase' = "received"
      BY <2>1 DEF Receive
    <3>3. QED BY <3>1, <3>2, <2>0 DEF WorkflowIInv
  <2>2. CASE Analyse
    <3>1. /\ phase = "received" /\ phase' = "analysed" /\ index' \in Indexes
          /\ analysis' = Analyze(Asked, Search(index', SearchLimit))
          /\ input' = input /\ source' = source /\ message' = message
          /\ invocations' = invocations /\ node' = node /\ state' = state /\ passed' = passed
      BY <2>2 DEF Analyse, graph
    <3>2. Grounded(analysis', InputSeverity)
      <4>1. index' \in Seq(Int)
        BY <3>1, WorkflowAssumption
      <4>2. QED BY <3>1, <4>1, AskedSeverity, AnalysisIsGrounded
    <3>3. AnalysisInv'
      <4>1. InputSeverity' = InputSeverity
        BY <3>1 DEF InputSeverity
      <4>2. analysis'.done = TRUE
        BY <3>1 DEF Analyze
      <4>3. QED BY <3>1, <3>2, <4>1, <4>2 DEF AnalysisInv
    <3>4. invocations = 0 /\ GraphIdle'
      BY <3>1 DEF WorkflowIInv, GraphInv, GraphIdle
    <3>5. QED BY <3>1, <3>3, <3>4 DEF WorkflowIInv
  <2>3. CASE GoWithout
    <3>1. /\ phase = "received" /\ phase' = "analysed" /\ index' = index /\ analysis' = analysis
          /\ input' = input /\ invocations' = invocations
          /\ node' = node /\ state' = state /\ passed' = passed
      BY <2>3 DEF GoWithout, graph
    <3>2. QED BY <3>1 DEF WorkflowIInv, AnalysisInv, GraphInv, GraphIdle, InputSeverity
  <2>4. CASE BuildMessage
    <3>1. /\ phase = "analysed" /\ phase' = "built" /\ index' = index /\ analysis' = analysis
          /\ input' = input /\ invocations' = invocations
          /\ node' = node /\ state' = state /\ passed' = passed
      BY <2>4 DEF BuildMessage, graph
    <3>2. QED BY <3>1 DEF WorkflowIInv, AnalysisInv, GraphInv, GraphIdle, InputSeverity
  <2>5. CASE Drive
    <3> DEFINE s == [confidence |-> analysis.confidence, severity |-> InputSeverity,
                     requires_human_approval |-> Decision.approval]
    <3>1. /\ phase = "built" /\ analysis.done /\ invocations' = 1 /\ MaxInvocations > 0
          /\ Invoke(s) /\ UNCHANGED flow
      BY <2>5 DEF Drive
    <3>2. Grounded(analysis, InputSeverity)
      BY <3>1 DEF WorkflowIInv, AnalysisInv
    <3>3. GoodState(s, analysis.confidence, Decision.approval)
      <4>1. DOMAIN s = {"confidence", "severity", "requires_human_approval"}
        OBVIOUS
      <4>2. s["confidence"] = analysis.confidence
            /\ s["requires_human_approval"] = Decision.approval
        OBVIOUS
      <4> HIDE DEF s
      <4>3. NeedsApproval(s) = Decision.approval
        BY <4>1, <4>2 DEF NeedsApproval, GetOr, Has
      <4>4. QED BY <4>1, <4>2, <4>3 DEF GoodState, GetOr, Has, Statuses
    <3> HIDE DEF s
    <3>4. GraphInv'
      BY <3>1, <3>2, <3>3, InvokeKeeps
    <3>5. AnalysisInv'
      BY <3>1 DEF WorkflowIInv, AnalysisInv, flow, InputSeverity
    <3>6. QED BY <2>0, <3>1, <3>4, <3>5 DEF WorkflowIInv, flow
  <2>6. CASE Resume
    <3>1. /\ invocations \in 1..MaxInvocations - 1 /\ invocations' = invocations + 1
          /\ Invoke(state) /\ UNCHANGED flow
      BY <2>6 DEF Resume
    <3>2. GraphInv
      BY <3>1, <2>0 DEF WorkflowIInv
    <3>3. Grounded(analysis, InputSeverity)
          /\ GoodState(state, analysis.confidence, Decision.approval)
      BY <3>2 DEF WorkflowIInv, AnalysisInv, GraphInv
    <3>4. GraphInv'
      BY <3>1, <3>2, <3>3, InvokeKeeps
    <3>5. AnalysisInv'
      BY <3>1 DEF WorkflowIInv, AnalysisInv, flow, InputSeverity
    <3>6. invocations' \in 0..MaxInvocations /\ invocations' # 0
      BY <2>0, <3>1
    <3>7. phase' = phase
      BY <3>1 DEF flow
    <3>8. QED BY <3>4, <3>5, <3>6, <3>7 DEF WorkflowIInv
  <2>7. CASE Step /\ UNCHANGED <<flow, invocations>>
    BY <2>7, StepKeeps
  <2>8. CASE Decide /\ UNCHANGED <<flow, invocations>>
    BY <2>8, DecideKeeps
  <2>9. CASE UNCHANGED workflow
    <3>1. /\ phase' = phase /\ index' = index /\ analysis' = analysis
          /\ input' = input /\ invocations' = invocations
          /\ node' = node /\ state' = state /\ passed' = passed
      BY <2>9 DEF workflow, flow, graph
    <3>2. Decision' = Decision /\ InputSeverity' = InputSeverity
      BY <3>1 DEF Decision, InputSeverity
    <3>3. GraphInv => GraphInv'
      BY <3>1, <3>2 DEF GraphInv, Reached
    <3>4. QED BY <3>1, <3>2, <3>3 DEF WorkflowIInv, AnalysisInv, GraphIdle
  <2>10. QED
    BY <2>1, <2>2, <2>3, <2>4, <2>5, <2>6, <2>7, <2>8, <2>9 DEF WorkflowNext
<1>3. QED BY <1>1, <1>2, WorkflowInvHolds, PTL DEF WorkflowSpec

\* The workflow stays within its types: confidence and coverage are percentages,
\* every analysis has evidence or the placeholder for none.
THEOREM WorkflowTypes == WorkflowSpec => []WorkflowTypeOK
<1>1. WorkflowIInv => WorkflowTypeOK
  <2> SUFFICES ASSUME WorkflowIInv PROVE WorkflowTypeOK
    OBVIOUS
  <2>1. /\ phase \in {"idle", "received", "analysed", "built"} /\ source \in {"feed", "queue"}
        /\ index \in Indexes \cup {<<>>}
        /\ phase # "idle" => input \in Records
        /\ invocations \in 0..MaxInvocations
    BY DEF WorkflowIInv, WorkflowInv, AnalysisInv
  <2>2. analysis.done => Grounded(analysis, InputSeverity)
    BY DEF WorkflowIInv, AnalysisInv
  <2>3. CASE invocations = 0
    <3>1. node = "end" /\ passed = {} /\ state = <<>>
      BY <2>3 DEF WorkflowIInv, GraphIdle
    <3>2. GraphTypeOK
      BY <3>1 DEF GraphTypeOK, GetOr, Has, Statuses
    <3>3. QED BY <2>1, <2>2, <3>2 DEF WorkflowTypeOK, Grounded
  <2>4. CASE invocations # 0
    <3>1. GraphInv
      BY <2>4 DEF WorkflowIInv
    <3>2. analysis.confidence \in 0..100
      BY <2>2, <3>1 DEF GraphInv, Grounded
    <3>3. GraphTypeOK
      BY <3>1, <3>2 DEF GraphInv, GoodState, GraphTypeOK
    <3>4. QED BY <2>1, <2>2, <3>3 DEF WorkflowTypeOK, Grounded
  <2>5. QED BY <2>3, <2>4
<1>2. QED BY <1>1, WorkflowIInvHolds, PTL

\* Nothing gets past the critique on an analysis that found no evidence, for every
\* index and any number of invocations.
THEOREM EvidenceComesFirst == WorkflowSpec => []NothingUngroundedPasses
<1>1. WorkflowIInv => NothingUngroundedPasses
  <2> SUFFICES ASSUME WorkflowIInv, passed \cap {"security_review", "compose", "notify"} # {},
                      analysis.evidence = {NoEvidence}
               PROVE  FALSE
    BY DEF NothingUngroundedPasses
  <2>1. GraphInv
    BY DEF WorkflowIInv, GraphIdle
  <2>2. analysis.confidence < 65
    BY <2>1 DEF WorkflowIInv, AnalysisInv, GraphInv, Grounded
  <2>3. QED BY <2>1, <2>2 DEF GraphInv, Reached
<1>2. QED BY <1>1, WorkflowIInvHolds, PTL

\* What the policy allows the graph notifies and asks nobody about.
THEOREM GraphAgreesWithPolicy == WorkflowSpec => []GatesAgree
<1>1. WorkflowIInv => GatesAgree
  <2> SUFFICES ASSUME WorkflowIInv, invocations > 0, Decision.allowed
               PROVE  passed \cap {"approval", "reject"} = {} /\ (node = "end" => "notify" \in passed)
    BY DEF GatesAgree
  <2>1. GraphInv
    BY DEF WorkflowIInv
  <2>2. Grounded(analysis, InputSeverity)
    BY <2>1 DEF WorkflowIInv, AnalysisInv, GraphInv
  <2>3. ~Decision.approval /\ ~(analysis.confidence < 65)
    <3>1. analysis.confidence \in 0..100 /\ analysis.confidence >= 80 /\ ~Decision.approval
      BY <2>2, DecisionFacts DEF Grounded
    <3>2. QED BY <3>1
  <2>4. QED BY <2>1, <2>3 DEF GraphInv, Reached
<1>2. QED BY <1>1, WorkflowIInvHolds, PTL

\* The graph notifies nothing of high or critical severity before a person has
\* approved it, however often it is resumed.
THEOREM GraveWaits == WorkflowSpec => []GraveNeedsApproval
<1>1. WorkflowIInv => GraveNeedsApproval
  <2> SUFFICES ASSUME WorkflowIInv, "notify" \in passed, Grave(InputSeverity)
               PROVE  Status(state) = "approved"
    BY DEF GraveNeedsApproval, Status
  <2>1. GraphInv
    BY DEF WorkflowIInv, GraphIdle
  <2>2. Decision.approval
    BY <2>1, DecisionFacts DEF WorkflowIInv, AnalysisInv, GraphInv
  <2>3. QED BY <2>1, <2>2 DEF GraphInv, Reached
<1>2. QED BY <1>1, WorkflowIInvHolds, PTL

\* The nodes an invocation may have behind it.
Behind ==
  LET begin == {"intake", "retrieve", "investigate", "root_cause", "remediation"}
      checks == begin \cup {"critique", "security_review", "approval"}
  IN /\ node = "intake" => passed = {}
     /\ node = "retrieve" => passed \subseteq {"intake"}
     /\ node = "investigate" => passed \subseteq {"intake", "retrieve"}
     /\ node = "root_cause" => passed \subseteq {"intake", "retrieve", "investigate"}
     /\ node = "remediation" => passed \subseteq begin \ {"remediation"}
     /\ node = "critique" => passed \subseteq begin
     /\ node = "security_review" => passed \subseteq begin \cup {"critique"}
     /\ node = "approval" => passed \subseteq checks \ {"approval"}
     /\ node \in {"compose", "reject"} => passed \subseteq checks
     /\ node = "notify" => passed \subseteq checks \cup {"compose"}
     /\ "end" \notin passed

\* Each edge leads to a node not behind it.
LEMMA BehindStep == WorkflowIInv /\ Behind /\ [WorkflowNext]_workflow => Behind'
<1> SUFFICES ASSUME WorkflowIInv, Behind, [WorkflowNext]_workflow PROVE Behind'
  OBVIOUS
<1>1. CASE Step
  <2> DEFINE c == analysis.confidence
             a == Decision.approval
  <2>1. /\ node \in Nodes /\ passed' = passed \cup {node} /\ node' = Follow(node, state')
        /\ node = "critique" => node' = IF c < 65 THEN "reject" ELSE "security_review"
        /\ node = "security_review" => node' = IF a THEN "approval" ELSE "compose"
        /\ node = "approval" /\ Status(state') = "approved" => node' = "compose"
        /\ node = "approval" /\ Status(state') # "approved" => node' \in {"reject", "end"}
        /\ node = "compose" => node' = "notify"
        /\ node \in {"notify", "reject"} => node' = "end"
    BY <1>1, StepLeads DEF Step
  <2>2. /\ node = "intake" => node' = "retrieve"
        /\ node = "retrieve" => node' = "investigate"
        /\ node = "investigate" => node' = "root_cause"
        /\ node = "root_cause" => node' = "remediation"
        /\ node = "remediation" => node' = "critique"
    BY <2>1 DEF Follow, Edge
  <2>3. node \in {"intake", "retrieve", "investigate", "root_cause", "remediation", "critique",
                  "security_review", "approval", "compose", "notify", "reject"}
    BY <2>1 DEF Nodes
  <2> HIDE DEF c, a
  <2>4. QED BY <2>1, <2>2, <2>3 DEF Behind
<1>2. CASE node' = node /\ passed' = passed
  BY <1>2 DEF Behind
<1>3. CASE passed' = {} /\ node' \in {"end", "intake"}
  BY <1>3 DEF Behind
<1>4. QED
  BY <1>1, <1>2, <1>3 DEF WorkflowNext, Receive, Analyse, GoWithout, BuildMessage, Drive, Resume,
     Invoke, Decide, workflow, graph

\* No invocation runs a node twice, whatever the state it starts with: the edges
\* lead forward only, the retry of the critique is never taken, and an invocation
\* has ended after ten nodes.
THEOREM NoNodeTwice == WorkflowSpec => [](node \notin passed)
<1>1. WorkflowInit => Behind
  BY DEF WorkflowInit, GraphInit, Behind
<1>2. WorkflowIInv /\ Behind => node \notin passed
  BY DEF Behind, WorkflowIInv, GraphIdle, GraphInv, Nodes
<1>3. QED BY <1>1, <1>2, BehindStep, WorkflowIInvHolds, PTL DEF WorkflowSpec

-----------------------------------------------------------------------------
(* The approvals of incidents *)


\* Where a use case can be: what it is doing, and that it has an incident.
Placed(w) ==
  /\ pc[w] # "idle" => incident[w] \in Incidents
  /\ pc[w] \in {"check", "send", "mark"} => job[w] \in {"approve", "collect"}
  /\ pc[w] = "review" => job[w] \in {"approve", "reject"}

\* A pending row has the version it offers; an approval means a version that was
\* offered, and whoever is about to review it has recorded that version.
Offering == \A i \in Incidents : status[i] = "pending" => saved[i] \in offered[i]

Backed(w) ==
  /\ pc[w] # "idle" /\ job[w] = "approve" => version[w] \in offered[incident[w]]
  /\ pc[w] = "review" /\ job[w] = "approve" => Key(w) \in delivered

\* Who is about to record has posted, if its notifier is the webhook.
Sent(w) == pc[w] = "mark" /\ wired[w] => posts[Key(w)] > 0

TypeInv == TypeOK /\ \A w \in Workers : Placed(w)

Inv ==
  /\ TypeInv
  /\ Offering
  /\ \A w \in Workers : Backed(w) /\ Sent(w)
  /\ ApprovedImpliesRecorded
  /\ RecordedOrMuted

UseCase(w) ==
  \/ \E i \in Incidents : Approve(w, i) \/ Reject(w, i) \/ Collect(w, i)
  \/ Progress(w) \/ SendFails(w) \/ Abort(w)

Outside == Switch \/ \E i \in Incidents : Update(i) \/ SavePending(i)

LEMMA Forms ==
  [Next]_vars <=> (\E w \in Workers : UseCase(w)) \/ Outside \/ UNCHANGED vars
BY DEF Next, UseCase, Outside

-----------------------------------------------------------------------------
LEMMA InvInit == Init => Inv
BY ReviewAssumption
DEF Init, Inv, TypeInv, TypeOK, Placed, Offering, Backed, Sent, ApprovedImpliesRecorded,
    RecordedOrMuted, Versions, Keys

\* A key is a pair, and only equal to itself.
LEMMA KeyIsKey ==
  ASSUME TypeInv, NEW w \in Workers, pc[w] # "idle"
  PROVE  Key(w) \in Keys /\ incident[w] \in Incidents /\ version[w] \in Versions
BY DEF TypeInv, TypeOK, Placed, Key, Keys

LEMMA OthersWait ==
  ASSUME TypeInv, NEW w \in Workers, UseCase(w), NEW q \in Workers, q # w
  PROVE  /\ pc'[q] = pc[q] /\ job'[q] = job[q] /\ incident'[q] = incident[q]
         /\ version'[q] = version[q] /\ wired'[q] = wired[q]
BY DEF TypeInv, TypeOK, UseCase, Progress, Approve, Reject, Collect, CheckDelivered,
       Send, MarkDelivered, MarkReviewed, SendFails, Abort, Take, End, GoTo, worker

\* What a use case does to the stores.
LEMMA StoresGrow ==
  ASSUME TypeInv, NEW w \in Workers, UseCase(w)
  PROVE  /\ saved' = saved /\ offered' = offered /\ current' = current
         /\ delivered \subseteq delivered'
         /\ \A k \in Keys : posts[k] > 0 => posts'[k] > 0
<1>1. ASSUME Send(w) \/ SendFails(w)
      PROVE  \A k \in Keys : posts[k] > 0 => posts'[k] > 0
  BY <1>1, KeyIsKey DEF Send, SendFails, TypeInv, TypeOK
<1>2. ASSUME ~(Send(w) \/ SendFails(w))
      PROVE  posts' = posts
  BY <1>2 DEF UseCase, Progress, Approve, Reject, Collect, CheckDelivered,
              MarkDelivered, MarkReviewed, Abort
<1>3. saved' = saved /\ offered' = offered /\ current' = current /\ delivered \subseteq delivered'
  BY DEF UseCase, Progress, Approve, Reject, Collect, CheckDelivered, Send,
         MarkDelivered, MarkReviewed, SendFails, Abort, table
<1>4. QED BY <1>1, <1>2, <1>3

(***************************************************************************)
(* Types.                                                                  *)
(***************************************************************************)
\* A use case that ends, whatever it leaves behind.
LEMMA EndTypes ==
  ASSUME TypeInv, NEW w \in Workers, End(w)
  PROVE  /\ pc' \in [Workers -> {"idle", "check", "send", "mark", "review"}]
         /\ job' \in [Workers -> {"none", "approve", "reject", "collect"}]
         /\ incident' \in [Workers -> Incidents \cup {NoIncident}]
         /\ version' \in [Workers -> Versions]
         /\ wired' \in [Workers -> BOOLEAN]
         /\ \A q \in Workers : Placed(q)'
BY ReviewAssumption DEF TypeInv, TypeOK, Placed, End, GoTo, Versions

LEMMA TypeStep == TypeInv /\ [Next]_vars => TypeInv'
<1> SUFFICES ASSUME TypeInv, [Next]_vars PROVE TypeInv'
  OBVIOUS
<1> USE ReviewAssumption DEF TypeInv, TypeOK, Placed, GoTo, Fault, table, settings, worker,
                             Versions
<1>1. ASSUME NEW w \in Workers, UseCase(w) PROVE TypeInv'
  <2>1. CASE \E i \in Incidents : Approve(w, i) \/ Reject(w, i) \/ Collect(w, i)
    BY <2>1 DEF Approve, Reject, Collect, Take, GetPending
  <2>2. CASE CheckDelivered(w)
    <3>1. CASE End(w)
      BY <2>2, <3>1, EndTypes DEF CheckDelivered
    <3>2. CASE ~End(w)
      BY <2>2, <3>2 DEF CheckDelivered
    <3>3. QED BY <3>1, <3>2
  <2>3. CASE Send(w)
    BY <2>3, KeyIsKey DEF Send
  <2>4. CASE MarkDelivered(w)
    <3>1. Key(w) \in Keys
      BY <2>4, KeyIsKey DEF MarkDelivered
    <3>2. delivered' \subseteq Keys /\ muted' \subseteq delivered'
      BY <2>4, <3>1 DEF MarkDelivered
    <3>3. CASE End(w)
      BY <2>4, <3>2, <3>3, EndTypes DEF MarkDelivered
    <3>4. CASE ~End(w)
      BY <2>4, <3>2, <3>4 DEF MarkDelivered
    <3>5. QED BY <3>3, <3>4
  <2>5. CASE MarkReviewed(w)
    BY <2>5 DEF MarkReviewed, End
  <2>6. CASE SendFails(w)
    <3>1. Key(w) \in Keys
      BY <2>6, KeyIsKey DEF SendFails
    <3>2. posts' \in [Keys -> Nat] /\ faults' \in 0..MaxFaults
      BY <2>6, <3>1 DEF SendFails
    <3>3. CASE End(w)
      BY <2>6, <3>2, <3>3, EndTypes DEF SendFails
    <3>4. CASE UNCHANGED worker
      BY <2>6, <3>2, <3>4 DEF SendFails
    <3>5. QED BY <2>6, <3>3, <3>4 DEF SendFails
  <2>7. CASE Abort(w)
    BY <2>7 DEF Abort, End
  <2>8. QED BY <1>1, <2>1, <2>2, <2>3, <2>4, <2>5, <2>6, <2>7 DEF UseCase, Progress
<1>2. CASE Switch
  BY <1>2 DEF Switch
<1>3. ASSUME NEW i \in Incidents, Update(i) PROVE TypeInv'
  BY <1>3 DEF Update
<1>4. ASSUME NEW i \in Incidents, SavePending(i) PROVE TypeInv'
  BY <1>4 DEF SavePending, Write
<1>5. CASE UNCHANGED vars
  BY <1>5 DEF vars
<1>6. QED BY Forms, <1>1, <1>2, <1>3, <1>4, <1>5 DEF Outside

(***************************************************************************)
(* The use case that takes the step, and the others.                       *)
(***************************************************************************)
LEMMA OwnStep ==
  ASSUME Inv, NEW w \in Workers, UseCase(w)
  PROVE  Backed(w)' /\ Sent(w)'
<1> USE DEF Inv, TypeInv, TypeOK, Placed, Offering, Backed, Sent, GoTo, Key
<1>1. CASE \E i \in Incidents : Approve(w, i) \/ Reject(w, i) \/ Collect(w, i)
  BY <1>1, ReviewAssumption DEF Approve, GetPending, Reject, Collect, Take, Versions, table
<1>2. CASE CheckDelivered(w)
  BY <1>2 DEF CheckDelivered, End, table
<1>3. CASE Send(w)
  <2>1. Key(w) \in Keys
    BY <1>3, KeyIsKey DEF Send
  <2>2. QED BY <1>3, <2>1 DEF Send, table
<1>4. CASE MarkDelivered(w)
  BY <1>4 DEF MarkDelivered, End, table
<1>5. CASE MarkReviewed(w) \/ Abort(w)
  BY <1>5 DEF MarkReviewed, Abort, End
<1>6. CASE SendFails(w)
  BY <1>6 DEF SendFails, End, worker, table
<1>7. QED BY <1>1, <1>2, <1>3, <1>4, <1>5, <1>6 DEF UseCase, Progress

LEMMA OthersStep ==
  ASSUME Inv, NEW w \in Workers, UseCase(w), NEW q \in Workers, q # w
  PROVE  Backed(q)' /\ Sent(q)'
<1>1. TypeInv
  BY DEF Inv
<1>2. pc[q] # "idle" => Key(q) \in Keys
  BY <1>1, KeyIsKey
<1>3. Key(q)' = Key(q)
  BY <1>1, OthersWait DEF Key
<1>4. QED BY <1>1, <1>2, <1>3, OthersWait, StoresGrow DEF Inv, Backed, Sent

LEMMA ApprovedStep ==
  ASSUME Inv, NEW w \in Workers, UseCase(w)
  PROVE  ApprovedImpliesRecorded'
<1>1. TypeInv
  BY DEF Inv
<1>2. SUFFICES ASSUME NEW i \in Incidents, status'[i] = "approved"
               PROVE  \E v \in offered[i] : <<i, v>> \in delivered
  BY <1>1, StoresGrow DEF ApprovedImpliesRecorded
<1>3. CASE status[i] = "approved"
  BY <1>3 DEF Inv, ApprovedImpliesRecorded
<1>4. CASE status[i] # "approved"
  <2>1. /\ MarkReviewed(w)
        /\ i = incident[w]
        /\ job[w] = "approve"
    BY <1>1, <1>2, <1>4
    DEF TypeInv, TypeOK, UseCase, Progress, Approve, Reject, Collect, CheckDelivered,
        Send, MarkDelivered, MarkReviewed, SendFails, Abort, table
  <2>2. pc[w] = "review"
    BY <2>1 DEF MarkReviewed
  <2>3. version[w] \in offered[i] /\ <<i, version[w]>> \in delivered
    BY <2>1, <2>2 DEF Inv, Backed, Key
  <2>4. QED BY <2>3
<1>5. QED BY <1>3, <1>4

\* A use case makes no row pending and writes no version.
LEMMA OfferingStep ==
  ASSUME Inv, NEW w \in Workers, UseCase(w)
  PROVE  Offering'
<1>1. TypeInv
  BY DEF Inv
<1>2. \A i \in Incidents : status'[i] = "pending" => status[i] = "pending"
  BY <1>1
  DEF TypeInv, TypeOK, UseCase, Progress, Approve, Reject, Collect, CheckDelivered,
      Send, MarkDelivered, MarkReviewed, SendFails, Abort, table
<1>3. QED BY <1>1, <1>2, StoresGrow DEF Inv, Offering

LEMMA RecordedStep ==
  ASSUME Inv, NEW w \in Workers, UseCase(w)
  PROVE  RecordedOrMuted'
<1>1. TypeInv
  BY DEF Inv
<1>2. delivered \subseteq Keys
  BY <1>1 DEF TypeInv, TypeOK
<1>3. CASE MarkDelivered(w)
  <2>1. pc[w] = "mark" /\ Key(w) \in Keys
    BY <1>1, <1>3, KeyIsKey DEF MarkDelivered
  <2>2. wired[w] => posts[Key(w)] > 0
    BY <2>1 DEF Inv, Sent
  <2>3. /\ delivered' = delivered \cup {Key(w)}
        /\ posts' = posts
        /\ muted \subseteq muted'
        /\ ~wired[w] /\ Key(w) \notin delivered => Key(w) \in muted'
    BY <1>3 DEF MarkDelivered
  <2>4. QED BY <2>2, <2>3 DEF Inv, RecordedOrMuted
<1>4. CASE ~MarkDelivered(w)
  <2>1. delivered' = delivered /\ muted' = muted
    BY <1>4 DEF UseCase, Progress, Approve, Reject, Collect, CheckDelivered, Send,
                MarkReviewed, SendFails, Abort
  <2>2. QED BY <1>1, <1>2, <2>1, StoresGrow DEF Inv, RecordedOrMuted
<1>5. QED BY <1>3, <1>4

\* save_pending may put an older version into the row, but what was offered stays
\* offered.
LEMMA OutsideStep == Inv /\ Outside => Inv'
<1> SUFFICES ASSUME Inv, Outside PROVE Inv'
  OBVIOUS
<1>1. TypeInv /\ TypeInv'
  BY TypeStep, Forms DEF Inv
<1>2. /\ delivered' = delivered /\ muted' = muted /\ posts' = posts
      /\ UNCHANGED worker
  BY DEF Outside, Switch, Update, SavePending, settings
<1>3. /\ \A i \in Incidents : offered[i] \subseteq offered'[i]
      /\ \A i \in Incidents : status'[i] = "approved" => status[i] = "approved"
      /\ Offering'
  BY <1>1, ReviewAssumption
  DEF Inv, TypeInv, TypeOK, Offering, Outside, Switch, Update, SavePending, Write, table
<1>4. \A w \in Workers : Backed(w)' /\ Sent(w)'
  <2> SUFFICES ASSUME NEW w \in Workers PROVE Backed(w)' /\ Sent(w)'
    OBVIOUS
  <2>1. pc[w] # "idle" => incident[w] \in Incidents
    BY <1>1 DEF TypeInv, Placed
  <2>2. QED BY <1>2, <1>3, <2>1 DEF Inv, Backed, Sent, Key, worker
<1>5. ApprovedImpliesRecorded'
  <2> SUFFICES ASSUME NEW i \in Incidents, status'[i] = "approved"
               PROVE  \E v \in offered'[i] : <<i, v>> \in delivered
    BY <1>2 DEF ApprovedImpliesRecorded
  <2>1. PICK v \in offered[i] : <<i, v>> \in delivered
    BY <1>3 DEF Inv, ApprovedImpliesRecorded
  <2>2. QED BY <1>3, <2>1
<1>6. RecordedOrMuted'
  BY <1>2 DEF Inv, RecordedOrMuted
<1>7. QED BY <1>1, <1>3, <1>4, <1>5, <1>6 DEF Inv

LEMMA InvStep == Inv /\ [Next]_vars => Inv'
<1> SUFFICES ASSUME Inv, [Next]_vars PROVE Inv'
  OBVIOUS
<1>1. ASSUME NEW w \in Workers, UseCase(w) PROVE Inv'
  <2>1. TypeInv'
    BY TypeStep DEF Inv
  <2>2. \A q \in Workers : Backed(q)' /\ Sent(q)'
    BY <1>1, OwnStep, OthersStep
  <2>3. QED BY <1>1, <2>1, <2>2, OfferingStep, ApprovedStep, RecordedStep DEF Inv
<1>2. CASE UNCHANGED vars
  BY <1>2
  DEF vars, table, settings, worker, Inv, TypeInv, TypeOK, Placed, Offering, Backed, Sent, Key,
      ApprovedImpliesRecorded, RecordedOrMuted
<1>3. QED BY Forms, <1>1, <1>2, OutsideStep

LEMMA InvAlways == Spec => []Inv
BY InvInit, InvStep, PTL DEF Spec

(***************************************************************************)
(* What the queue promises.                                                *)
(***************************************************************************)
\* ApprovedImpliesRecorded, for every instance: an approved row stands for a
\* version it has offered for review and that was recorded, whatever save_pending
\* has put in its place, newer or older.
THEOREM ApprovalsRecorded == Spec => []ApprovedImpliesRecorded
<1>1. Inv => ApprovedImpliesRecorded
  BY DEF Inv
<1>2. QED BY <1>1, InvAlways, PTL

\* RecordedOrMuted, for every instance: the ledger is ahead of the channel by
\* what a disabled notifier swallowed, and by nothing else.
THEOREM ChannelExplained == Spec => []RecordedOrMuted
<1>1. Inv => RecordedOrMuted
  BY DEF Inv
<1>2. QED BY <1>1, InvAlways, PTL

\* VerdictsStand, for every instance: no use case and no save_pending changes
\* the status of a row that was approved or rejected.
THEOREM VerdictsKept == Spec => VerdictsStand
<1>1. Inv /\ [Next]_vars =>
        [\A i \in Incidents :
           status[i] \in {"approved", "rejected"} => status'[i] = status[i]]_status
  BY Forms
  DEF Inv, TypeInv, TypeOK, UseCase, Outside, Progress, Approve, Reject, Collect,
      CheckDelivered, Send, MarkDelivered, MarkReviewed, SendFails, Abort, Switch, Update,
      SavePending, Write, table, vars
<1>2. QED BY <1>1, InvAlways, PTL DEF Spec, VerdictsStand

=============================================================================

---------------------- MODULE IncidentCollectorProofs -----------------------
(***************************************************************************)
(* Proofs about the incidents collector, for any number of runners,        *)
(* incidents, updates, failures and limits.                                *)
(***************************************************************************)
EXTENDS IncidentCollector, TLAPS

(***************************************************************************)
(* What a run without a filter has collected is how far it is in the list, *)
(* and a run goes on only below its limit: that bounds the incidents it    *)
(* gets to.  A run with a filter only has incidents the filter selects.    *)
(***************************************************************************)
Handling == {"check", "send", "mark"}
Reading == {"fetch", "scan"}

\* What is left of a page is selected, and without a filter there is no gap in it.
PageFits(r) ==
  \A i \in Incidents :
    page[r][i] # Absent =>
      /\ Selects(since[r], <<i, page[r][i]>>)
      /\ since[r] = NoFilter =>
           \A j \in Incidents : pos[r] < j /\ j < i => page[r][j] # Absent

Placed(r) ==
  /\ pos[r] <= listed
  /\ \A i \in Incidents : page[r][i] # Absent => i <= listed
  /\ pc[r] = "idle" => /\ collected[r] = 0 /\ pos[r] = 0
                       /\ notified[r] = 0 /\ duplicates[r] = 0
                       /\ \A i \in Incidents : page[r][i] = Absent
  /\ since[r] = NoFilter => pos[r] = collected[r]
  /\ pc[r] \in Handling => pos[r] \in Incidents /\ page[r][pos[r]] # Absent
  /\ pc[r] \in Reading => collected[r] < limit[r] \/ collected[r] = 0
  /\ pc[r] = "send" => attempts[r] < SendAttempts
  /\ PageFits(r)

\* No incident is counted twice, and the one in hand is not yet counted.
Tallied(r) ==
  /\ pc[r] \in Reading \cup {"finish"} =>
       notified[r] + duplicates[r] <= collected[r]
  /\ pc[r] \in Handling => notified[r] + duplicates[r] + 1 <= collected[r]

TypeInv ==
  /\ TypeOK
  /\ \A r \in Runners : Placed(r) /\ Tallied(r)

LEMMA TypeInvInit == Init => TypeInv
BY IncidentAssumption
DEF Init, Zero, NoPage, EmptyRow, TypeInv, TypeOK, Placed, PageFits, Tallied, Row,
    Places, Reading, Handling, Incidents, Versions, Absent, NoFilter

\* An incident in hand is among the first MaxLimit of the list, or a filter selects
\* it.
LEMMA InHandIsNear ==
  ASSUME TypeInv, NEW r \in Runners, pc[r] \in Handling
  PROVE  /\ InHand(r) \in Incidents \X Versions
         /\ pos[r] <= MaxLimit \/ \E f \in Filters : UpdateTime[InHand(r)] > f
         /\ Key(r) \in Keys
<1>1. /\ pos[r] \in Incidents /\ page[r][pos[r]] \in Versions
      /\ Selects(since[r], InHand(r))
      /\ since[r] = NoFilter => pos[r] = collected[r]
      /\ collected[r] \in 0..MaxLimit
      /\ since[r] \in Filters \cup {NoFilter}
  BY DEF TypeInv, TypeOK, Placed, PageFits, InHand
<1>2. CASE since[r] = NoFilter
  BY <1>1, <1>2, IncidentAssumption DEF Key, InHand
<1>3. CASE since[r] \in Filters
  BY <1>1, <1>3, IncidentAssumption DEF Key, InHand, Selects, NoFilter
<1>4. QED BY <1>1, <1>2, <1>3

\* Where the end of an iteration leads.
LEMMA NextPlace ==
  ASSUME TypeInv, NEW r \in Runners, NextIncident(r)
  PROVE  /\ pc' \in [Runners -> Places]
         /\ \/ pc'[r] = "finish"
            \/ pc'[r] = "scan" /\ ~(collected'[r] >= limit[r])
<1>1. pc \in [Runners -> Places]
  BY DEF TypeInv, TypeOK
<1>2. CASE collected'[r] >= limit[r]
  BY <1>1, <1>2 DEF NextIncident, GoTo, Set, Places
<1>3. CASE ~(collected'[r] >= limit[r])
  BY <1>1, <1>3 DEF NextIncident, GoTo, Set, Places
<1>4. QED BY <1>2, <1>3

\* The next incident of a page: without a filter it is the next of the list.
LEMMA Taken ==
  ASSUME TypeInv, NEW r \in Runners, Take(r)
  PROVE  /\ pos' \in [Runners -> 0..ListSize]
         /\ collected' \in [Runners -> 0..MaxLimit]
         /\ collected'[r] = collected[r] + 1
         /\ pos'[r] \in Incidents /\ page[r][pos'[r]] # Absent
         /\ pos[r] < pos'[r] /\ pos'[r] <= listed
         /\ since[r] = NoFilter => pos'[r] = collected'[r]
<1>1. PICK i \in Incidents : Upcoming(r, i) /\ pos' = Set(pos, r, i)
  BY DEF Take
<1>2. /\ pos[r] \in 0..ListSize /\ pos[r] < i /\ page[r][i] # Absent /\ i <= listed
      /\ collected[r] \in 0..MaxLimit /\ limit[r] \in 0..MaxLimit
      /\ collected[r] < limit[r] \/ collected[r] = 0
      /\ PageFits(r)
      /\ since[r] = NoFilter => pos[r] = collected[r]
  BY <1>1 DEF TypeInv, TypeOK, Placed, Reading, Upcoming, Rest, Take
<1>3. /\ pos'[r] = i /\ pos' \in [Runners -> 0..ListSize]
  BY <1>1, IncidentAssumption DEF TypeInv, TypeOK, Set, Incidents
<1>4. /\ collected' \in [Runners -> 0..MaxLimit] /\ collected'[r] = collected[r] + 1
  BY <1>2, IncidentAssumption DEF TypeInv, TypeOK, Take, Count
<1>5. ASSUME since[r] = NoFilter PROVE i = pos[r] + 1
  <2>1. pos[r] + 1 \in Incidents
    BY <1>2, IncidentAssumption DEF Incidents
  <2>2. CASE pos[r] + 1 < i
    <3>1. page[r][pos[r] + 1] # Absent
      <4>1. \A j \in Incidents : pos[r] < j /\ j < i => page[r][j] # Absent
        BY <1>2, <1>5 DEF PageFits
      <4>2. pos[r] < pos[r] + 1
        BY <1>2
      <4>3. QED BY <2>1, <2>2, <4>1, <4>2
    <3>2. pos[r] + 1 \in Rest(r)
      BY <1>2, <2>1, <3>1 DEF Rest
    <3>3. i <= pos[r] + 1
      BY <1>1, <3>2 DEF Upcoming
    <3>4. QED BY <1>2, <2>2, <3>3 DEF Incidents
  <2>3. QED BY <1>2, <2>2 DEF Incidents
<1>6. QED BY <1>2, <1>3, <1>4, <1>5

LEMMA CheckCounts ==
  ASSUME TypeInv, NEW r \in Runners, CheckDelivered(r)
  PROVE  /\ attempts' \in [Runners -> 0..SendAttempts]
         /\ duplicates' \in [Runners -> Nat]
<1>1. /\ attempts \in [Runners -> 0..SendAttempts]
      /\ duplicates \in [Runners -> Nat]
      /\ 0 \in 0..SendAttempts
  BY IncidentAssumption DEF TypeInv, TypeOK
<1>2. attempts' = attempts \/ attempts' = Set(attempts, r, 0)
  BY DEF CheckDelivered
<1>3. duplicates' = duplicates \/ duplicates' = Count(duplicates, r)
  BY DEF CheckDelivered, counters
<1>4. attempts' \in [Runners -> 0..SendAttempts]
  BY <1>1, <1>2 DEF Set
<1>5. QED BY <1>1, <1>3, <1>4 DEF Count

\* A page is of incidents that are listed and selected, and without a filter it
\* has all of them up to its end.
LEMMA PageFetched ==
  ASSUME TypeInv, NEW r \in Runners, FetchPage(r)
  PROVE  /\ page' \in [Runners -> [Incidents -> Versions \cup {Absent}]]
         /\ more' \in [Runners -> BOOLEAN]
         /\ \A i \in Incidents : page'[r][i] # Absent => i <= listed
         /\ PageFits(r)'
<1>1. PICK end \in pos[r]..listed :
        /\ page' = Set(page, r, [i \in Incidents |->
                     IF i \in Selected(r) /\ i <= end THEN version[i] ELSE Absent])
        /\ more' = Set(more, r, end < listed)
  BY DEF FetchPage
<1>2. /\ version \in [Incidents -> Versions]
      /\ page \in [Runners -> [Incidents -> Versions \cup {Absent}]]
      /\ more \in [Runners -> BOOLEAN]
      /\ pos[r] \in Nat /\ listed \in Nat /\ end \in Nat
  BY <1>1 DEF TypeInv, TypeOK
<1>3. \A i \in Incidents : page'[r][i] =
        IF i \in Selected(r) /\ i <= end THEN version[i] ELSE Absent
  BY <1>1, <1>2 DEF Set
<1>4. UNCHANGED <<since, pos>>
  BY DEF FetchPage
<1>5. \A i \in Incidents : page'[r][i] # Absent =>
        /\ i <= end /\ pos[r] < i
        /\ page'[r][i] = version[i] /\ Selects(since[r], <<i, version[i]>>)
  BY <1>3 DEF Selected
<1>6. \A i \in Incidents : since[r] = NoFilter /\ i <= end /\ pos[r] < i =>
        page'[r][i] # Absent
  BY <1>2, <1>3, IncidentAssumption DEF Selected, Selects, Versions, Absent
<1>7. PageFits(r)'
  <2>1. \A i \in Incidents : page'[r][i] # Absent => Selects(since'[r], <<i, page'[r][i]>>)
    BY <1>4, <1>5
  <2>2. ASSUME NEW i \in Incidents, page'[r][i] # Absent, since'[r] = NoFilter,
               NEW j \in Incidents, pos'[r] < j, j < i
        PROVE  page'[r][j] # Absent
    <3>1. i <= end
      BY <1>5, <2>2
    <3>2. j <= end /\ pos[r] < j
      BY <1>2, <1>4, <2>2, <3>1 DEF Incidents
    <3>3. QED BY <1>4, <1>6, <2>2, <3>2
  <2>3. QED BY <2>1, <2>2 DEF PageFits, Selects
<1>8. QED
  BY <1>1, <1>2, <1>5, <1>7 DEF Set, Incidents

LEMMA OneMorePost ==
  ASSUME posts \in [Keys -> Nat], NEW k \in Keys
  PROVE  [posts EXCEPT ![k] = @ + 1] \in [Keys -> Nat]
OBVIOUS

LEMMA TypeOKStep ==
  ASSUME TypeInv, NEW r \in Runners
  PROVE  Progress(r) \/ Failure(r) => TypeOK'
<1>p. /\ TypeOK
      /\ Placed(r)
  BY DEF TypeInv
<1> USE <1>p, IncidentAssumption
    DEF TypeOK, GoTo, Set, Count, world, stores, place, counters, Places,
        Versions
<1>1. Start(r) => TypeOK'
  BY DEF Start
<1>2. FetchPage(r) => TypeOK'
  <2> SUFFICES ASSUME FetchPage(r) PROVE TypeOK'
    OBVIOUS
  <2>1. /\ page' \in [Runners -> [Incidents -> Versions \cup {Absent}]]
        /\ more' \in [Runners -> BOOLEAN]
    BY PageFetched
  <2>2. QED BY <2>1 DEF FetchPage
<1>3. SkipLow(r) => TypeOK'
  <2> SUFFICES ASSUME SkipLow(r) PROVE TypeOK'
    OBVIOUS
  <2>1. /\ pc' \in [Runners -> Places]
        /\ pos' \in [Runners -> 0..ListSize]
        /\ collected' \in [Runners -> 0..MaxLimit]
    BY Taken, NextPlace DEF SkipLow
  <2>2. UNCHANGED <<world, stores, attempts, place, notified, duplicates>>
    BY DEF SkipLow, Take
  <2>3. QED BY <2>1, <2>2
<1>4. Admit(r) => TypeOK'
  BY Taken DEF Admit, Take
<1>5. CheckDelivered(r) => TypeOK'
  <2> SUFFICES ASSUME CheckDelivered(r) PROVE TypeOK'
    OBVIOUS
  <2>1. UNCHANGED <<world, stores, pos, place, collected, notified>>
    BY DEF CheckDelivered
  <2>2. pc' \in [Runners -> Places]
    <3>1. CASE Key(r) \in delivered
      BY <3>1, NextPlace DEF CheckDelivered
    <3>2. CASE Key(r) \notin delivered
      BY <3>2 DEF CheckDelivered
    <3>3. QED BY <3>1, <3>2
  <2>3. /\ attempts' \in [Runners -> 0..SendAttempts]
        /\ duplicates' \in [Runners -> Nat]
    BY CheckCounts
  <2>4. QED BY <2>1, <2>2, <2>3
<1>6. Send(r) => TypeOK'
  <2> SUFFICES ASSUME Send(r) PROVE TypeOK'
    OBVIOUS
  <2>1. posts' \in [Keys -> Nat]
    <3>1. Key(r) \in Keys
      BY InHandIsNear DEF Send, Handling
    <3>2. [posts EXCEPT ![Key(r)] = @ + 1] \in [Keys -> Nat]
      BY <3>1, OneMorePost
    <3>3. QED BY <3>2 DEF Send, Post
  <2>2. /\ pc' \in [Runners -> Places]
        /\ UNCHANGED <<world, lastRun, delivered, pos, attempts, place, counters>>
    BY DEF Send
  <2>3. QED BY <2>1, <2>2
<1>7. MarkDelivered(r) => TypeOK'
  <2> SUFFICES ASSUME MarkDelivered(r) PROVE TypeOK'
    OBVIOUS
  <2>1. Key(r) \in Keys
    BY InHandIsNear DEF MarkDelivered, Handling
  <2>2. QED BY <2>1, NextPlace DEF MarkDelivered
<1>8. EndPage(r) => TypeOK'
  BY DEF EndPage
<1>9. SaveSuccess(r) => TypeOK'
  BY DEF SaveSuccess, End, Row, Monus, NoPage, NoFilter
<1>10. SaveFailure(r) => TypeOK'
  BY DEF SaveFailure, End, Row, EmptyRow, NoPage, NoFilter
<1>11. SendFails(r) => TypeOK'
  BY DEF SendFails, Post, Fault, Placed
<1>12. Raise(r) => TypeOK'
  BY DEF Raise, Fault
<1>13. Crash(r) => TypeOK'
  BY DEF Crash, End, Fault, NoPage, NoFilter
<1>14. QED
  BY <1>1, <1>2, <1>3, <1>4, <1>5, <1>6, <1>7, <1>8, <1>9, <1>10, <1>11,
     <1>12, <1>13
  DEF Progress, Work, Failure

\* The other runners stay where they are.
LEMMA OthersWait ==
  ASSUME TypeInv, NEW r \in Runners, Progress(r) \/ Failure(r)
  PROVE  /\ listed' = listed
         /\ \A q \in Runners \ {r} :
              /\ pc'[q] = pc[q]         /\ pos'[q] = pos[q]
              /\ page'[q] = page[q]     /\ limit'[q] = limit[q]
              /\ since'[q] = since[q]   /\ attempts'[q] = attempts[q]
              /\ collected'[q] = collected[q]
              /\ notified'[q] = notified[q]
              /\ duplicates'[q] = duplicates[q]
BY DEF TypeInv, TypeOK, Progress, Work, Failure, Start, FetchPage, Take, SkipLow, Admit,
       CheckDelivered, Send, MarkDelivered, EndPage, SaveSuccess, SaveFailure,
       SendFails, Raise, Crash, End, GoTo, Set, Count, NextIncident, world,
       stores, place, counters

\* The incident in hand and the rest of the page stay as they are.
LEMMA PageKept ==
  ASSUME NEW r \in Runners, PageFits(r), page'[r] = page[r], since'[r] = since[r],
         pos[r] \in Nat, pos'[r] \in Nat, pos[r] <= pos'[r]
  PROVE  PageFits(r)'
BY DEF PageFits, Selects, Incidents

LEMMA PlacedStep ==
  ASSUME TypeInv, NEW r \in Runners, Progress(r) \/ Failure(r)
  PROVE  Placed(r)' /\ Tallied(r)'
<1>p. /\ TypeOK
      /\ Placed(r)
      /\ Tallied(r)
  BY DEF TypeInv
<1>k. page'[r] = page[r] /\ since'[r] = since[r] /\ pos'[r] = pos[r] => PageFits(r)'
  BY <1>p, PageKept DEF TypeOK, Placed
<1>n. End(r) => PageFits(r)'
  BY <1>p DEF TypeOK, End, Set, NoPage, PageFits
<1> USE <1>p, IncidentAssumption
    DEF TypeOK, Placed, Tallied, GoTo, Set, Count, NextIncident, world, stores,
        place, counters, Places, Reading, Handling
<1>1. CASE Start(r)
  <2>1. PageFits(r)'
    BY <1>1 DEF Start, PageFits, Selects
  <2>2. QED BY <1>1, <2>1 DEF Start
<1>2. CASE FetchPage(r)
  <2>1. /\ pc[r] = "fetch" /\ pc'[r] = "scan"
        /\ UNCHANGED <<collected, notified, duplicates, limit, since, pos, listed>>
    BY <1>2 DEF FetchPage
  <2>2. /\ \A i \in Incidents : page'[r][i] # Absent => i <= listed
        /\ PageFits(r)'
    BY <1>2, PageFetched
  <2>3. QED BY <2>1, <2>2
<1>3. CASE SkipLow(r) \/ Admit(r)
  <2>1. /\ pc[r] = "scan"
        /\ UNCHANGED <<notified, duplicates, page, since, limit, listed, attempts>>
    BY <1>3 DEF SkipLow, Admit, Take
  <2>2. /\ collected'[r] = collected[r] + 1
        /\ pos'[r] \in Incidents /\ page[r][pos'[r]] # Absent
        /\ pos[r] < pos'[r] /\ pos'[r] <= listed
        /\ since[r] = NoFilter => pos'[r] = collected'[r]
    BY <1>3, Taken DEF SkipLow, Admit
  <2>3. \/ pc'[r] \in {"finish", "check"}
        \/ collected'[r] < limit[r] /\ pc'[r] = "scan"
    BY <1>3, <2>1, <2>2 DEF SkipLow, Admit
  <2>4. PageFits(r)'
    <3>1. pos[r] \in Nat /\ pos'[r] \in Nat /\ pos[r] <= pos'[r]
      BY <2>2 DEF Incidents
    <3>2. page'[r] = page[r] /\ since'[r] = since[r]
      BY <2>1
    <3>3. QED BY <3>1, <3>2, PageKept
  <2>5. QED BY <2>1, <2>2, <2>3, <2>4
<1>4. CASE CheckDelivered(r)
  BY <1>4, <1>k DEF CheckDelivered
<1>5. CASE Send(r)
  BY <1>5, <1>k DEF Send
<1>6. CASE MarkDelivered(r)
  BY <1>6, <1>k DEF MarkDelivered
<1>7. CASE EndPage(r)
  <2>1. /\ pc[r] = "scan" /\ pc'[r] \in {"fetch", "finish"}
    <3>1. CASE more[r]
      BY <1>7, <3>1 DEF EndPage
    <3>2. CASE ~more[r]
      BY <1>7, <3>2 DEF EndPage
    <3>3. QED BY <3>1, <3>2
  <2>2. UNCHANGED <<collected, notified, duplicates, page, since, pos, limit, listed>>
    BY <1>7 DEF EndPage
  <2>3. QED BY <1>k, <2>1, <2>2
<1>8. CASE SaveSuccess(r)
  BY <1>8, <1>n DEF SaveSuccess, End, NoPage
<1>9. CASE SaveFailure(r)
  BY <1>9, <1>n DEF SaveFailure, End, NoPage
<1>10. CASE SendFails(r)
  BY <1>10, <1>k DEF SendFails, Fault
<1>11. CASE Raise(r)
  BY <1>11, <1>k DEF Raise, Fault
<1>12. CASE Crash(r)
  BY <1>12, <1>n DEF Crash, End, NoPage, Fault
<1>13. QED
  BY <1>1, <1>2, <1>3, <1>4, <1>5, <1>6, <1>7, <1>8, <1>9, <1>10, <1>11, <1>12
  DEF Progress, Work, Failure

LEMMA TypeInvStep == TypeInv /\ [Next]_vars => TypeInv'
<1> SUFFICES ASSUME TypeInv, [Next]_vars
             PROVE  TypeInv'
  OBVIOUS
<1>1. ASSUME NEW r \in Runners, Progress(r) \/ Failure(r)
      PROVE  TypeInv'
  <2>1. TypeOK'
    BY <1>1, TypeOKStep
  <2>2. ASSUME NEW q \in Runners PROVE Placed(q)' /\ Tallied(q)'
    <3>1. CASE q = r
      BY <1>1, <3>1, PlacedStep
    <3>2. CASE q # r
      <4>1. Placed(q) /\ Tallied(q)
        BY DEF TypeInv
      <4>2. QED BY <1>1, <3>2, <4>1, OthersWait DEF Placed, PageFits, Selects, Tallied
    <3>3. QED BY <3>1, <3>2
  <2>3. QED BY <2>1, <2>2 DEF TypeInv
<1>2. CASE Publish
  BY <1>2, IncidentAssumption
  DEF Publish, TypeInv, TypeOK, Placed, PageFits, Selects, Incidents, Tallied, stores,
      place, counters
<1>3. ASSUME NEW i \in Updated, Update(i)
      PROVE  TypeInv'
  BY <1>3, IncidentAssumption
  DEF Update, TypeInv, TypeOK, Placed, PageFits, Selects, Tallied, stores, place,
      counters, Versions
<1>4. CASE UNCHANGED vars
  BY <1>4 DEF vars, TypeInv, TypeOK, Placed, PageFits, Selects, Tallied, world, stores,
              place, counters
<1>5. QED BY <1>1, <1>2, <1>3, <1>4 DEF Next

\* TypeOK, for every instance.
THEOREM TypeCorrect == Spec => []TypeOK
<1>1. TypeInv => TypeOK
  BY DEF TypeInv
<1>2. QED BY <1>1, TypeInvInit, TypeInvStep, PTL DEF Spec

(***************************************************************************)
(* Counts and horizon.                                                     *)
(***************************************************************************)
LEMMA CountsStep == TypeInv /\ CountsAddUp /\ [Next]_vars => CountsAddUp'
<1> SUFFICES ASSUME TypeInv, CountsAddUp, [Next]_vars
             PROVE  CountsAddUp'
  OBVIOUS
<1>1. ASSUME NEW r \in Runners, SaveSuccess(r)
      PROVE  CountsAddUp'
  <2>1. /\ collected[r] \in Nat /\ notified[r] \in Nat /\ duplicates[r] \in Nat
        /\ notified[r] + duplicates[r] <= collected[r]
    BY <1>1, IncidentAssumption DEF SaveSuccess, TypeInv, TypeOK, Tallied
  <2>2. Monus(collected[r], notified[r] + duplicates[r])
          = collected[r] - (notified[r] + duplicates[r])
    BY <2>1 DEF Monus
  <2>3. /\ lastRun'.collected = collected[r]
        /\ lastRun'.notified = notified[r]
        /\ lastRun'.duplicates = duplicates[r]
        /\ lastRun'.skipped = collected[r] - (notified[r] + duplicates[r])
    BY <1>1, <2>2 DEF SaveSuccess
  <2>4. QED BY <2>1, <2>3 DEF CountsAddUp
<1>2. ASSUME NEW r \in Runners, SaveFailure(r)
      PROVE  CountsAddUp'
  BY <1>2 DEF SaveFailure, EmptyRow, CountsAddUp
<1>3. CASE \/ \E r \in Runners : Progress(r) /\ ~SaveSuccess(r) /\ ~SaveFailure(r)
           \/ \E r \in Runners : Failure(r)
           \/ Publish \/ (\E i \in Updated : Update(i)) \/ UNCHANGED vars
  <2>1. lastRun' = lastRun
    BY <1>3
    DEF Progress, Work, Failure, Start, FetchPage, Take, SkipLow, Admit, CheckDelivered,
        Send, MarkDelivered, EndPage, SendFails, Raise, Crash, Publish,
        Update, vars, stores
  <2>2. QED BY <2>1 DEF CountsAddUp
<1>4. QED BY <1>1, <1>2, <1>3 DEF Next

\* CountsAddUp, for every instance: max(..., 0) never hides a negative number.
THEOREM CountsRight == Spec => []CountsAddUp
<1>1. Init => CountsAddUp
  BY DEF Init, EmptyRow, CountsAddUp
<1>2. QED BY <1>1, TypeInvInit, TypeInvStep, CountsStep, PTL DEF Spec

LEMMA HorizonStep ==
  TypeInv /\ HorizonIsLimit /\ [Next]_vars => HorizonIsLimit'
<1> SUFFICES ASSUME TypeInv, HorizonIsLimit, [Next]_vars
             PROVE  HorizonIsLimit'
  OBVIOUS
<1>1. ASSUME NEW r \in Runners, MarkDelivered(r)
      PROVE  HorizonIsLimit'
  <2>1. delivered' = delivered \cup {KeyOf[InHand(r)]}
    BY <1>1 DEF MarkDelivered, Key
  <2>2. /\ InHand(r) \in Incidents \X Versions
        /\ InHand(r)[1] <= MaxLimit \/ \E f \in Filters : UpdateTime[InHand(r)] > f
    BY <1>1, InHandIsNear DEF MarkDelivered, Handling, InHand
  <2>3. QED BY <2>1, <2>2 DEF HorizonIsLimit
<1>2. CASE \/ \E r \in Runners : Progress(r) /\ ~MarkDelivered(r)
           \/ \E r \in Runners : Failure(r)
           \/ Publish \/ (\E i \in Updated : Update(i)) \/ UNCHANGED vars
  <2>1. delivered' = delivered
    BY <1>2
    DEF Progress, Work, Failure, Start, FetchPage, Take, SkipLow, Admit, CheckDelivered,
        Send, EndPage, SaveSuccess, SaveFailure, SendFails, Raise, Crash,
        Publish, Update, vars, stores
  <2>2. QED BY <2>1 DEF HorizonIsLimit
<1>3. QED BY <1>1, <1>2 DEF Next

\* HorizonIsLimit, for every instance: whatever ESET lists and updates, what is
\* behind the first MaxLimit incidents is only notified if a request asked for it
\* by the time of its update.
THEOREM HorizonHolds == Spec => []HorizonIsLimit
<1>1. Init => HorizonIsLimit
  BY DEF Init, HorizonIsLimit
<1>2. QED BY <1>1, TypeInvInit, TypeInvStep, HorizonStep, PTL DEF Spec

(***************************************************************************)
(* The collector implements the delivery protocol.                         *)
(***************************************************************************)
LEMMA HeldIsKey ==
  ASSUME TypeInv, NEW there \in {"send", "mark"}, NEW r \in Runners, pc[r] = there
  PROVE  HeldAt(there)[r] = Key(r) /\ Key(r) \in Keys /\ Key(r) # NoKey
<1>1. Key(r) \in Keys
  BY InHandIsNear DEF Handling
<1>2. QED BY <1>1, IncidentAssumption DEF HeldAt

\* A step of r leaves what the others hold alone, and r holds afterwards what
\* its new place says.
LEMMA Holdings ==
  ASSUME TypeInv, NEW r \in Runners, NEW there \in {"send", "mark"},
         Progress(r) \/ Failure(r)
  PROVE  HeldAt(there)' =
           [HeldAt(there) EXCEPT ![r] = IF pc'[r] = there THEN Key(r)' ELSE NoKey]
<1>1. ASSUME NEW q \in Runners
      PROVE  (IF pc'[q] = there THEN KeyOf[<<pos'[q], page'[q][pos'[q]]>>] ELSE NoKey)
              = (IF q = r
                 THEN IF pc'[r] = there THEN KeyOf[<<pos'[r], page'[r][pos'[r]]>>] ELSE NoKey
                 ELSE IF pc[q] = there THEN KeyOf[<<pos[q], page[q][pos[q]]>>] ELSE NoKey)
  <2>1. CASE q = r
    BY <2>1
  <2>2. CASE q # r
    BY <2>2, OthersWait
  <2>3. QED BY <2>1, <2>2
<1>2. QED BY <1>1 DEF HeldAt, Key, InHand

\* Away from the place before and after, or at it with the same incident in
\* hand: nothing changes.
LEMMA HoldingsKept ==
  ASSUME TypeInv, NEW r \in Runners, NEW there \in {"send", "mark"},
         Progress(r) \/ Failure(r),
         \/ pc[r] # there /\ pc'[r] # there
         \/ pc'[r] = pc[r] /\ Key(r)' = Key(r)
  PROVE  HeldAt(there)' = HeldAt(there)
<1>1. HeldAt(there)[r] = IF pc'[r] = there THEN Key(r)' ELSE NoKey
  BY DEF HeldAt
<1>2. HeldAt(there) = [HeldAt(there) EXCEPT ![r] = HeldAt(there)[r]]
  BY DEF HeldAt
<1>3. QED BY <1>1, <1>2, Holdings

LEMMA CheckMaps ==
  ASSUME TypeInv, NEW r \in Runners, CheckDelivered(r)
  PROVE  [Delivery!Next]_(Delivery!vars)
<1>r. Progress(r)
  BY DEF Progress, Work
<1>u. UNCHANGED <<delivered, posts, faults, page>> /\ pc[r] = "check"
  BY DEF CheckDelivered, world, stores, place
<1>1. CASE Key(r) \in delivered
  <2>1. pc'[r] \notin {"send", "mark"}
    BY <1>1, NextPlace DEF CheckDelivered
  <2>2. HeldAt("send")' = HeldAt("send") /\ HeldAt("mark")' = HeldAt("mark")
    BY <1>r, <2>1, <1>u, HoldingsKept
  <2>3. QED BY <1>u, <2>2 DEF Delivery!vars
<1>2. CASE Key(r) \notin delivered
  <2>1. pc'[r] = "send" /\ pos' = pos
    BY <1>2 DEF CheckDelivered, GoTo, Set, TypeInv, TypeOK
  <2>2. Key(r)' = Key(r)
    BY <2>1, <1>u DEF Key, InHand
  <2>3. Key(r) \in Keys \ delivered
    BY <1>2, <1>u, InHandIsNear DEF Handling
  <2>4. HeldAt("send")' = [HeldAt("send") EXCEPT ![r] = Key(r)]
    BY <1>r, <2>1, <2>2, Holdings
  <2>5. HeldAt("mark")' = HeldAt("mark")
    BY <1>r, <1>u, <2>1, HoldingsKept
  <2>6. HeldAt("send")[r] = NoKey /\ HeldAt("mark")[r] = NoKey
    BY <1>u DEF HeldAt
  <2>7. Delivery!Claim(r)
    BY <1>u, <2>3, <2>4, <2>5, <2>6 DEF Delivery!Claim
  <2>8. QED BY <2>7 DEF Delivery!Next
<1>3. QED BY <1>1, <1>2

LEMMA SendMaps ==
  ASSUME TypeInv, NEW r \in Runners, Send(r)
  PROVE  Delivery!Next
<1>r. Progress(r)
  BY DEF Progress, Work
<1>1. /\ pc[r] = "send" /\ pc'[r] = "mark" /\ pos' = pos /\ page' = page
      /\ UNCHANGED <<delivered, faults>>
      /\ IF DiscordEnabled THEN Post(Key(r)) ELSE UNCHANGED posts
  BY DEF Send, GoTo, Set, world, place, TypeInv, TypeOK
<1>2. HeldAt("send")[r] = Key(r) /\ Key(r) # NoKey /\ Key(r)' = Key(r)
  BY <1>1, HeldIsKey DEF Key, InHand
<1>3. HeldAt("send")' = [HeldAt("send") EXCEPT ![r] = NoKey]
  BY <1>r, <1>1, Holdings
<1>4. HeldAt("mark")' = [HeldAt("mark") EXCEPT ![r] = HeldAt("send")[r]]
  BY <1>r, <1>1, <1>2, Holdings
<1>5. Delivery!Announce(r)
  BY <1>1, <1>2, <1>3, <1>4 DEF Delivery!Announce, Delivery!Post, Post
<1>6. QED BY <1>5 DEF Delivery!Next

LEMMA MarkMaps ==
  ASSUME TypeInv, NEW r \in Runners, MarkDelivered(r)
  PROVE  Delivery!Next
<1>r. Progress(r)
  BY DEF Progress, Work
<1>1. /\ pc[r] = "mark"
      /\ UNCHANGED <<posts, faults>>
      /\ delivered' = delivered \cup {Key(r)}
  BY DEF MarkDelivered, world
<1>2. pc'[r] \notin {"send", "mark"}
  BY NextPlace DEF MarkDelivered
<1>3. HeldAt("mark")[r] = Key(r) /\ Key(r) # NoKey
  BY <1>1, HeldIsKey
<1>4. HeldAt("mark")' = [HeldAt("mark") EXCEPT ![r] = NoKey]
  BY <1>r, <1>2, Holdings
<1>5. HeldAt("send")' = HeldAt("send")
  BY <1>r, <1>1, <1>2, HoldingsKept
<1>6. Delivery!Record(r)
  BY <1>1, <1>3, <1>4, <1>5 DEF Delivery!Record
<1>7. QED BY <1>6 DEF Delivery!Next

LEMMA FailureMaps ==
  ASSUME TypeInv, NEW r \in Runners, Failure(r)
  PROVE  Delivery!Next
<1>1. /\ faults < MaxFaults /\ faults' = faults + 1
      /\ delivered' = delivered
      /\ UNCHANGED posts \/ (pc[r] = "send" /\ DiscordEnabled /\ Post(Key(r)))
      /\ \/ pc'[r] = pc[r] /\ pos' = pos /\ page' = page
         \/ pc'[r] \notin {"send", "mark"}
  BY DEF Failure, SendFails, Raise, Crash, Fault, End, GoTo, Set, stores, place,
         TypeInv, TypeOK
<1>2. \/ UNCHANGED posts
      \/ HeldAt("send")[r] # NoKey /\ DiscordEnabled /\ Delivery!Post(HeldAt("send")[r])
  BY <1>1, HeldIsKey DEF Post, Delivery!Post
<1>3. \/ UNCHANGED <<HeldAt("send"), HeldAt("mark")>>
      \/ /\ HeldAt("send")' = [HeldAt("send") EXCEPT ![r] = NoKey]
         /\ HeldAt("mark")' = [HeldAt("mark") EXCEPT ![r] = NoKey]
  <2>1. CASE pc'[r] = pc[r] /\ pos' = pos /\ page' = page
    <3>1. Key(r)' = Key(r)
      BY <2>1 DEF Key, InHand
    <3>2. HeldAt("send")' = HeldAt("send")
      BY <2>1, <3>1, HoldingsKept
    <3>3. HeldAt("mark")' = HeldAt("mark")
      BY <2>1, <3>1, HoldingsKept
    <3>4. QED BY <3>2, <3>3
  <2>2. CASE pc'[r] \notin {"send", "mark"}
    BY <2>2, Holdings
  <2>3. QED BY <1>1, <2>1, <2>2
<1>4. Delivery!Fail(r)
  BY <1>1, <1>2, <1>3 DEF Delivery!Fail
<1>5. QED BY <1>4 DEF Delivery!Next

\* The steps that neither consult the ledger, send nor record.
Elsewhere(r) ==
  \/ Start(r)    \/ FetchPage(r)    \/ SkipLow(r)  \/ Admit(r)
  \/ EndPage(r)  \/ SaveSuccess(r)  \/ SaveFailure(r)

LEMMA ElsewhereMaps ==
  ASSUME TypeInv, NEW r \in Runners, Elsewhere(r)
  PROVE  UNCHANGED Delivery!vars
<1>1. UNCHANGED <<delivered, posts, faults>> /\ pc[r] \notin {"send", "mark"}
  BY DEF Elsewhere, Start, FetchPage, Take, SkipLow, Admit, EndPage, SaveSuccess,
         SaveFailure, world, stores
<1>2. pc'[r] \notin {"send", "mark"}
  <2>1. CASE SkipLow(r)
    BY <2>1, NextPlace DEF SkipLow
  <2>2. CASE ~SkipLow(r)
    BY <2>2 DEF Elsewhere, Start, FetchPage, Take, Admit, EndPage, SaveSuccess,
                SaveFailure, End, GoTo, Set, TypeInv, TypeOK
  <2>3. QED BY <2>1, <2>2
<1>3. HeldAt("send")' = HeldAt("send") /\ HeldAt("mark")' = HeldAt("mark")
  BY <1>1, <1>2, HoldingsKept DEF Elsewhere, Progress, Work
<1>4. QED BY <1>1, <1>3 DEF Delivery!vars

LEMMA StepMaps == TypeInv /\ [Next]_vars => [Delivery!Next]_(Delivery!vars)
<1> SUFFICES ASSUME TypeInv, [Next]_vars
             PROVE  [Delivery!Next]_(Delivery!vars)
  OBVIOUS
<1>1. ASSUME NEW r \in Runners, Progress(r) PROVE [Delivery!Next]_(Delivery!vars)
  <2>1. CASE Elsewhere(r)
    BY <2>1, ElsewhereMaps
  <2>2. CASE CheckDelivered(r)
    BY <2>2, CheckMaps
  <2>3. CASE Send(r)
    BY <2>3, SendMaps
  <2>4. CASE MarkDelivered(r)
    BY <2>4, MarkMaps
  <2>5. QED BY <1>1, <2>1, <2>2, <2>3, <2>4 DEF Progress, Work, Elsewhere
<1>2. ASSUME NEW r \in Runners, Failure(r) PROVE Delivery!Next
  BY <1>2, FailureMaps
<1>3. CASE Publish \/ (\E i \in Updated : Update(i)) \/ UNCHANGED vars
  BY <1>3
  DEF Publish, Update, vars, world, stores, place, Delivery!vars, HeldAt, Key,
      InHand
<1>4. QED BY <1>1, <1>2, <1>3 DEF Next

\* Every behaviour of the incidents collector, with any number of overlapping
\* runs, failures and updates, is a behaviour of the delivery protocol.
THEOREM IncidentsDeliver == Spec => ImplementsDelivery
<1>1. Init => Delivery!Init
  BY DEF Init, Delivery!Init, HeldAt
<1>2. QED
  BY <1>1, TypeInvInit, TypeInvStep, StepMaps, PTL
  DEF Spec, ImplementsDelivery, Delivery!Spec

-----------------------------------------------------------------------------
(* What the protocol promises holds here *)

Protocol == INSTANCE DeliveryProtocolProofs WITH
              Workers <- Runners,
              claimed <- HeldAt("send"),
              announced <- HeldAt("mark")

\* Whatever ESET updates meanwhile, a version of an incident is in the ledger only
\* behind its message, and more messages than one per run need as many failures.
THEOREM IncidentPostsExplained ==
  Spec => [](Delivery!RecordedImpliesPosted /\ Delivery!PostsExplained)
<1>1. Protocol!ProtocolAssumption
  BY IncidentAssumption
  DEF IncidentAssumption, Protocol!ProtocolAssumption, Protocol!IsFiniteSet, IsFiniteSet
<1>2. Protocol!Spec => [](Protocol!RecordedImpliesPosted /\ Protocol!PostsExplained)
  BY <1>1, Protocol!ProtocolHonest, Protocol!ProtocolBounded, PTL
<1>3. Delivery!Init <=> Protocol!Init
  BY DEF Delivery!Init, Protocol!Init
<1>4. [Delivery!Next]_(Delivery!vars) <=> [Protocol!Next]_(Protocol!vars)
  BY DEF Delivery!Next, Delivery!Claim, Delivery!Announce, Delivery!Record,
         Delivery!GiveUp, Delivery!Fail, Delivery!Post, Delivery!vars,
         Protocol!Next, Protocol!Claim, Protocol!Announce, Protocol!Record,
         Protocol!GiveUp, Protocol!Fail, Protocol!Post, Protocol!vars
<1>5. Protocol!RecordedImpliesPosted /\ Protocol!PostsExplained
        => Delivery!RecordedImpliesPosted /\ Delivery!PostsExplained
  BY DEF Protocol!RecordedImpliesPosted, Delivery!RecordedImpliesPosted,
         Protocol!PostsExplained, Delivery!PostsExplained, Protocol!Cardinality,
         Delivery!Cardinality, Protocol!IsFiniteSet, Delivery!IsFiniteSet
<1>6. QED
  BY <1>2, <1>3, <1>4, <1>5, IncidentsDeliver, PTL
  DEF ImplementsDelivery, Delivery!Spec, Protocol!Spec

=============================================================================

------------------------ MODULE ApprovalReviewProofs ------------------------
(***************************************************************************)
(* What ApprovalReview guarantees for any number of workers, rows, keys    *)
(* and failures.                                                           *)
(***************************************************************************)
EXTENDS ApprovalReview, TLAPS

\* A worker in the middle of a row has one in hand.
HoldsRow == \A w \in Workers : pc[w] \in InHand => row[w] \in Approvals

\* A worker about to approve found or put the key in the ledger.
ApprovalCovered ==
  \A w \in Workers : pc[w] = "review" /\ job[w] # "reject" => Key(w) \in delivered

TypeInv == TypeOK /\ HoldsRow
IInv == TypeInv /\ ApprovalCovered /\ ApprovedImpliesRecorded

LEMMA InitTypeInv == Init => TypeInv
BY ApprovalAssumption DEF Init, TypeInv, TypeOK, HoldsRow, InHand

LEMMA TypeInvStep == TypeInv /\ [Next]_vars => TypeInv'
<1> SUFFICES ASSUME TypeInv, [Next]_vars PROVE TypeInv'
  OBVIOUS
<1> USE ApprovalAssumption
        DEF TypeInv, TypeOK, HoldsRow, InHand, GoTo, Set, Key, tables
<1>1. ASSUME NEW w \in Workers, Begin(w) PROVE TypeInv'
  <2>1. CASE Backfill(w)
    BY <2>1 DEF Backfill, Pending
  <2>2. ASSUME NEW a \in Approvals, Open(w, a) PROVE TypeInv'
    BY <2>2 DEF Open
  <2>3. ASSUME NEW a \in Approvals, Collect(w, a) PROVE TypeInv'
    BY <2>3 DEF Collect
  <2>4. QED BY <1>1, <2>1, <2>2, <2>3 DEF Begin
<1>2. ASSUME NEW w \in Workers, Progress(w) PROVE TypeInv'
  <2>1. CASE TakeRow(w)
    BY <2>1 DEF TakeRow
  <2>2. CASE BackfillEnds(w)
    BY <2>2 DEF BackfillEnds, End
  <2>3. CASE CheckDelivered(w)
    BY <2>3 DEF CheckDelivered, End
  <2>4. CASE Send(w)
    BY <2>4 DEF Send, Post
  <2>5. CASE MarkDelivered(w)
    BY <2>5 DEF MarkDelivered, End
  <2>6. CASE Review(w)
    BY <2>6 DEF Review, RowDone, LeaveRow, End, Pending
  <2>7. QED BY <1>2, <2>1, <2>2, <2>3, <2>4, <2>5, <2>6 DEF Progress
<1>3. ASSUME NEW w \in Workers, Failure(w) PROVE TypeInv'
  <2>1. CASE SendFails(w)
    BY <2>1 DEF SendFails, Fault, Post, RowFails, RowDone, LeaveRow, End
  <2>2. CASE MarkFails(w)
    BY <2>2 DEF MarkFails, Fault, RowFails, RowDone, LeaveRow, End
  <2>3. CASE Abort(w)
    BY <2>3 DEF Abort, Fault, End
  <2>4. QED BY <1>3, <2>1, <2>2, <2>3 DEF Failure
<1>4. CASE UNCHANGED vars
  BY <1>4 DEF vars, worker
<1>5. QED BY <1>1, <1>2, <1>3, <1>4 DEF Next

\* Every variable keeps to its type in every behaviour of the queue.
THEOREM TypeCorrect == Spec => []TypeOK
<1>1. Spec => []TypeInv
  BY InitTypeInv, TypeInvStep, PTL DEF Spec
<1>2. TypeInv => TypeOK
  BY DEF TypeInv
<1>3. QED BY <1>1, <1>2, PTL

-----------------------------------------------------------------------------
(* Approved rows are recorded *)

LEMMA IInvStep == IInv /\ [Next]_vars => IInv'
<1> SUFFICES ASSUME IInv, [Next]_vars
             PROVE  ApprovalCovered' /\ ApprovedImpliesRecorded'
  BY TypeInvStep DEF IInv
<1> DEFINE Goal == ApprovalCovered' /\ ApprovedImpliesRecorded'
<1> USE ApprovalAssumption
        DEF IInv, TypeInv, TypeOK, HoldsRow, ApprovalCovered,
            ApprovedImpliesRecorded, InHand, GoTo, Set, Key, tables
<1>1. ASSUME NEW w \in Workers, Begin(w) PROVE Goal
  <2>1. CASE Backfill(w)
    BY <2>1 DEF Backfill
  <2>2. ASSUME NEW a \in Approvals, Open(w, a) PROVE Goal
    BY <2>2 DEF Open
  <2>3. ASSUME NEW a \in Approvals, Collect(w, a) PROVE Goal
    BY <2>3 DEF Collect
  <2>4. QED BY <1>1, <2>1, <2>2, <2>3 DEF Begin
<1>2. ASSUME NEW w \in Workers, Progress(w) PROVE Goal
  <2>1. CASE TakeRow(w)
    BY <2>1 DEF TakeRow
  <2>2. CASE BackfillEnds(w)
    BY <2>2 DEF BackfillEnds, End
  <2>3. CASE CheckDelivered(w)
    BY <2>3 DEF CheckDelivered, End
  <2>4. CASE Send(w)
    BY <2>4 DEF Send, Post
  <2>5. CASE MarkDelivered(w)
    BY <2>5 DEF MarkDelivered, End
  <2>6. CASE Review(w)
    BY <2>6 DEF Review, RowDone, LeaveRow, End, Pending
  <2>7. QED BY <1>2, <2>1, <2>2, <2>3, <2>4, <2>5, <2>6 DEF Progress
<1>3. ASSUME NEW w \in Workers, Failure(w) PROVE Goal
  <2>1. CASE SendFails(w)
    BY <2>1 DEF SendFails, RowFails, RowDone, LeaveRow, End
  <2>2. CASE MarkFails(w)
    BY <2>2 DEF MarkFails, RowFails, RowDone, LeaveRow, End
  <2>3. CASE Abort(w)
    BY <2>3 DEF Abort, End
  <2>4. QED BY <1>3, <2>1, <2>2, <2>3 DEF Failure
<1>4. CASE UNCHANGED vars
  BY <1>4 DEF vars, worker
<1>5. QED BY <1>1, <1>2, <1>3, <1>4 DEF Next

LEMMA IInvAlways == Spec => []IInv
<1>1. Init => IInv
  BY InitTypeInv DEF Init, IInv, ApprovalCovered, ApprovedImpliesRecorded
<1>2. QED BY <1>1, IInvStep, PTL DEF Spec

\* A row is marked approved only when the ledger holds its key: mark_reviewed
\* comes after mark_delivered or after a look at the ledger.
THEOREM ApprovedAreRecorded == Spec => []ApprovedImpliesRecorded
<1>1. IInv => ApprovedImpliesRecorded
  BY DEF IInv
<1>2. QED BY <1>1, IInvAlways, PTL

-----------------------------------------------------------------------------
(* Verdicts are final *)

LEMMA VerdictStep ==
  TypeInv /\ [Next]_vars =>
    [\A a \in Approvals : status[a] # "pending" => status'[a] = status[a]]_status
<1> SUFFICES ASSUME TypeInv, [Next]_vars, status' # status
             PROVE  \A a \in Approvals : status[a] # "pending" => status'[a] = status[a]
  OBVIOUS
<1>1. PICK w \in Workers : Begin(w) \/ Progress(w) \/ Failure(w)
  BY DEF Next, vars, tables
<1>2. Review(w)
  BY <1>1 DEF Begin, Progress, Failure, Backfill, Open, Collect, TakeRow,
              BackfillEnds, CheckDelivered, Send, MarkDelivered, SendFails,
              MarkFails, Abort, tables
<1>3. QED BY <1>2 DEF Review, Pending, TypeInv, TypeOK

\* The first verdict on a row stands, whoever comes later.
THEOREM VerdictsAreFinal == Spec => ReviewIsFinal
<1>1. Spec => []TypeInv
  BY InitTypeInv, TypeInvStep, PTL DEF Spec
<1>2. QED BY <1>1, VerdictStep, PTL DEF Spec, ReviewIsFinal

-----------------------------------------------------------------------------
(* The workers keep to the delivery protocol *)

\* What a worker holds is a key; a step of a worker changes its own holdings only.
LEMMA HeldIsKey ==
  ASSUME TypeInv, NEW place \in {"send", "mark"}, NEW w \in Workers, pc[w] = place
  PROVE  HeldAt(place)[w] = Key(w) /\ Key(w) \in Keys /\ Key(w) # NoKey
BY ApprovalAssumption DEF TypeInv, TypeOK, HoldsRow, InHand, HeldAt, Key

\* A worker goes from one place to another, neither of which is a holding, or
\* waits where it was: nobody's holdings change.
LEMMA HoldingsKept ==
  ASSUME TypeInv, NEW w \in Workers, NEW place \in {"send", "mark"},
         \A v \in Workers \ {w} : pc'[v] = pc[v] /\ row'[v] = row[v],
         \/ pc[w] # place /\ pc'[w] # place
         \/ pc'[w] = pc[w] /\ row'[w] = row[w]
  PROVE  HeldAt(place)' = HeldAt(place)
<1>1. ASSUME NEW v \in Workers
      PROVE  (IF pc'[v] = place THEN KeyOf[row'[v]] ELSE NoKey)
              = (IF pc[v] = place THEN KeyOf[row[v]] ELSE NoKey)
  OBVIOUS
<1>2. QED BY <1>1 DEF HeldAt, Key

\* It comes to the place with a row in hand, or it leaves the place.
LEMMA HoldingTaken ==
  ASSUME TypeInv, NEW w \in Workers, NEW place \in {"send", "mark"},
         \A v \in Workers \ {w} : pc'[v] = pc[v] /\ row'[v] = row[v],
         pc'[w] = place, row'[w] = row[w]
  PROVE  HeldAt(place)' = [HeldAt(place) EXCEPT ![w] = Key(w)]
<1>1. ASSUME NEW v \in Workers
      PROVE  (IF pc'[v] = place THEN KeyOf[row'[v]] ELSE NoKey)
              = (IF v = w THEN KeyOf[row[w]]
                 ELSE IF pc[v] = place THEN KeyOf[row[v]] ELSE NoKey)
  OBVIOUS
<1>2. QED BY <1>1 DEF HeldAt, Key

LEMMA HoldingLeft ==
  ASSUME TypeInv, NEW w \in Workers, NEW place \in {"send", "mark"},
         \A v \in Workers \ {w} : pc'[v] = pc[v] /\ row'[v] = row[v],
         pc'[w] # place
  PROVE  HeldAt(place)' = [HeldAt(place) EXCEPT ![w] = NoKey]
<1>1. ASSUME NEW v \in Workers
      PROVE  (IF pc'[v] = place THEN KeyOf[row'[v]] ELSE NoKey)
              = (IF v = w THEN NoKey
                 ELSE IF pc[v] = place THEN KeyOf[row[v]] ELSE NoKey)
  OBVIOUS
<1>2. QED BY <1>1 DEF HeldAt, Key

LEMMA OthersWait ==
  ASSUME TypeInv, NEW w \in Workers, Begin(w) \/ Progress(w) \/ Failure(w)
  PROVE  \A v \in Workers \ {w} : pc'[v] = pc[v] /\ row'[v] = row[v]
BY DEF TypeInv, TypeOK, Begin, Progress, Failure, Backfill, Open, Collect,
       TakeRow, BackfillEnds, CheckDelivered, Send, MarkDelivered, Review,
       SendFails, MarkFails, RowFails, Abort, RowDone, LeaveRow, End, GoTo, Set

\* Jobs begin without a holding.
LEMMA BeginMaps ==
  ASSUME TypeInv, NEW w \in Workers, Begin(w)
  PROVE  UNCHANGED Delivery!vars
<1>1. UNCHANGED <<delivered, posts, faults>> /\ pc[w] = "idle"
      /\ pc'[w] \notin {"send", "mark"}
  BY DEF Begin, Backfill, Open, Collect, GoTo, Set, tables, TypeInv, TypeOK
<1>2. HeldAt("send")' = HeldAt("send") /\ HeldAt("mark")' = HeldAt("mark")
  BY <1>1, OthersWait, HoldingsKept
<1>3. QED BY <1>1, <1>2 DEF Delivery!vars

LEMMA ProgressMaps ==
  ASSUME TypeInv, NEW w \in Workers, Progress(w)
  PROVE  [Delivery!Next]_(Delivery!vars)
<1> USE DEF GoTo, Set, tables
<1>o. \A v \in Workers \ {w} : pc'[v] = pc[v] /\ row'[v] = row[v]
  BY OthersWait
<1>1. CASE TakeRow(w) \/ BackfillEnds(w) \/ Review(w)
  <2>1. /\ UNCHANGED <<delivered, posts, faults>>
        /\ pc[w] \notin {"send", "mark"} /\ pc'[w] \notin {"send", "mark"}
    BY <1>1 DEF TakeRow, BackfillEnds, Review, RowDone, LeaveRow, End, TypeInv, TypeOK
  <2>2. HeldAt("send")' = HeldAt("send") /\ HeldAt("mark")' = HeldAt("mark")
    BY <2>1, <1>o, HoldingsKept
  <2>3. QED BY <2>1, <2>2 DEF Delivery!vars
<1>2. CASE CheckDelivered(w) /\ Key(w) \in delivered
  <2>1. /\ UNCHANGED <<delivered, posts, faults>>
        /\ pc[w] = "check" /\ pc'[w] \notin {"send", "mark"}
    BY <1>2 DEF CheckDelivered, End, TypeInv, TypeOK
  <2>2. HeldAt("send")' = HeldAt("send") /\ HeldAt("mark")' = HeldAt("mark")
    BY <2>1, <1>o, HoldingsKept
  <2>3. QED BY <2>1, <2>2 DEF Delivery!vars
<1>3. CASE CheckDelivered(w) /\ Key(w) \notin delivered
  <2>1. /\ UNCHANGED <<delivered, posts, faults>>
        /\ pc[w] = "check" /\ pc'[w] = "send" /\ row'[w] = row[w]
        /\ Key(w) \in Keys \ delivered
    BY <1>3, ApprovalAssumption
    DEF CheckDelivered, TypeInv, TypeOK, HoldsRow, InHand, Key
  <2>2. HeldAt("send")' = [HeldAt("send") EXCEPT ![w] = Key(w)]
    BY <2>1, <1>o, HoldingTaken
  <2>3. HeldAt("mark")' = HeldAt("mark")
    BY <2>1, <1>o, HoldingsKept
  <2>4. HeldAt("send")[w] = NoKey /\ HeldAt("mark")[w] = NoKey
    BY <2>1 DEF HeldAt
  <2>5. Delivery!Claim(w)
    BY <2>1, <2>2, <2>3, <2>4 DEF Delivery!Claim
  <2>6. QED BY <2>5 DEF Delivery!Next
<1>4. CASE Send(w)
  <2>1. /\ pc[w] = "send" /\ pc'[w] = "mark" /\ row'[w] = row[w]
        /\ UNCHANGED <<delivered, faults>>
        /\ IF DiscordEnabled THEN Post(Key(w)) ELSE UNCHANGED posts
    BY <1>4 DEF Send, TypeInv, TypeOK
  <2>2. HeldAt("send")[w] = Key(w) /\ Key(w) # NoKey
    BY <2>1, HeldIsKey
  <2>3. HeldAt("send")' = [HeldAt("send") EXCEPT ![w] = NoKey]
    BY <2>1, <1>o, HoldingLeft
  <2>4. HeldAt("mark")' = [HeldAt("mark") EXCEPT ![w] = HeldAt("send")[w]]
    BY <2>1, <2>2, <1>o, HoldingTaken
  <2>5. Delivery!Announce(w)
    BY <2>1, <2>2, <2>3, <2>4 DEF Delivery!Announce, Delivery!Post, Post
  <2>6. QED BY <2>5 DEF Delivery!Next
<1>5. CASE MarkDelivered(w)
  <2>1. /\ pc[w] = "mark" /\ pc'[w] \notin {"send", "mark"}
        /\ UNCHANGED <<posts, faults>>
        /\ delivered' = delivered \cup {Key(w)}
    BY <1>5 DEF MarkDelivered, End, TypeInv, TypeOK
  <2>2. HeldAt("mark")[w] = Key(w) /\ Key(w) # NoKey
    BY <2>1, HeldIsKey
  <2>3. HeldAt("mark")' = [HeldAt("mark") EXCEPT ![w] = NoKey]
    BY <2>1, <1>o, HoldingLeft
  <2>4. HeldAt("send")' = HeldAt("send")
    BY <2>1, <1>o, HoldingsKept
  <2>5. Delivery!Record(w)
    BY <2>1, <2>2, <2>3, <2>4 DEF Delivery!Record
  <2>6. QED BY <2>5 DEF Delivery!Next
<1>6. QED BY <1>1, <1>2, <1>3, <1>4, <1>5 DEF Progress

\* A failure posts at most what the worker was sending, and leaves it where it
\* was or without a holding.
LEMMA FailureMaps ==
  ASSUME TypeInv, NEW w \in Workers, Failure(w)
  PROVE  Delivery!Next
<1> USE DEF GoTo, Set, tables
<1>o. \A v \in Workers \ {w} : pc'[v] = pc[v] /\ row'[v] = row[v]
  BY OthersWait
<1>1. /\ faults < MaxFaults /\ faults' = faults + 1
      /\ delivered' = delivered
      /\ UNCHANGED posts \/ (pc[w] = "send" /\ DiscordEnabled /\ Post(Key(w)))
      /\ \/ pc'[w] = pc[w] /\ row'[w] = row[w]
         \/ pc'[w] \notin {"send", "mark"}
  BY DEF Failure, SendFails, MarkFails, RowFails, Abort, Fault, RowDone, LeaveRow,
         End, TypeInv, TypeOK
<1>2. \/ UNCHANGED posts
      \/ HeldAt("send")[w] # NoKey /\ DiscordEnabled /\ Delivery!Post(HeldAt("send")[w])
  BY <1>1, HeldIsKey DEF Post, Delivery!Post
<1>3. \/ UNCHANGED <<HeldAt("send"), HeldAt("mark")>>
      \/ /\ HeldAt("send")' = [HeldAt("send") EXCEPT ![w] = NoKey]
         /\ HeldAt("mark")' = [HeldAt("mark") EXCEPT ![w] = NoKey]
  <2>1. CASE pc'[w] = pc[w] /\ row'[w] = row[w]
    <3>1. HeldAt("send")' = HeldAt("send")
      BY <2>1, <1>o, HoldingsKept
    <3>2. HeldAt("mark")' = HeldAt("mark")
      BY <2>1, <1>o, HoldingsKept
    <3>3. QED BY <3>1, <3>2
  <2>2. CASE pc'[w] \notin {"send", "mark"}
    BY <2>2, <1>o, HoldingLeft
  <2>3. QED BY <1>1, <2>1, <2>2
<1>4. Delivery!Fail(w)
  BY <1>1, <1>2, <1>3 DEF Delivery!Fail
<1>5. QED BY <1>4 DEF Delivery!Next

LEMMA StepMaps == TypeInv /\ [Next]_vars => [Delivery!Next]_(Delivery!vars)
<1> SUFFICES ASSUME TypeInv, [Next]_vars
             PROVE  [Delivery!Next]_(Delivery!vars)
  OBVIOUS
<1>1. ASSUME NEW w \in Workers, Begin(w) PROVE UNCHANGED Delivery!vars
  BY <1>1, BeginMaps
<1>2. ASSUME NEW w \in Workers, Progress(w) PROVE [Delivery!Next]_(Delivery!vars)
  BY <1>2, ProgressMaps
<1>3. ASSUME NEW w \in Workers, Failure(w) PROVE Delivery!Next
  BY <1>3, FailureMaps
<1>4. CASE UNCHANGED vars
  BY <1>4 DEF vars, tables, worker, Delivery!vars, HeldAt, Key
<1>5. QED BY <1>1, <1>2, <1>3, <1>4 DEF Next

\* Every behaviour of requests, scripts and collectors together is a behaviour
\* of the delivery protocol.
THEOREM ReviewDelivers == Spec => ImplementsDelivery
<1>1. Init => Delivery!Init
  BY DEF Init, Delivery!Init, HeldAt
<1>2. Spec => []TypeInv
  BY InitTypeInv, TypeInvStep, PTL DEF Spec
<1>3. QED BY <1>1, <1>2, StepMaps, PTL DEF Spec, ImplementsDelivery, Delivery!Spec

-----------------------------------------------------------------------------
(* What the protocol promises holds here *)

Protocol == INSTANCE DeliveryProtocolProofs WITH
              claimed <- HeldAt("send"),
              announced <- HeldAt("mark")

\* Whoever collects, reviews or empties the queue of detections, a key is in the
\* ledger only behind its message, and more messages than one per worker need as
\* many failures.
THEOREM ReviewPostsExplained ==
  Spec => [](Delivery!RecordedImpliesPosted /\ Delivery!PostsExplained)
<1>1. Protocol!ProtocolAssumption
  BY ApprovalAssumption
  DEF ApprovalAssumption, Protocol!ProtocolAssumption, Protocol!IsFiniteSet, IsFiniteSet
<1>2. Protocol!Spec => [](Protocol!RecordedImpliesPosted /\ Protocol!PostsExplained)
  BY <1>1, Protocol!ProtocolHonest, Protocol!ProtocolBounded, PTL
<1>3. Delivery!Init <=> Protocol!Init
  BY DEF Delivery!Init, Protocol!Init
<1>4. [Delivery!Next]_(Delivery!vars) <=> [Protocol!Next]_(Protocol!vars)
  BY DEF Delivery!Next, Delivery!Claim, Delivery!Announce, Delivery!Record,
         Delivery!GiveUp, Delivery!Fail, Delivery!Post, Delivery!vars,
         Protocol!Next, Protocol!Claim, Protocol!Announce, Protocol!Record,
         Protocol!GiveUp, Protocol!Fail, Protocol!Post, Protocol!vars
<1>5. Protocol!RecordedImpliesPosted /\ Protocol!PostsExplained
        => Delivery!RecordedImpliesPosted /\ Delivery!PostsExplained
  BY DEF Protocol!RecordedImpliesPosted, Delivery!RecordedImpliesPosted,
         Protocol!PostsExplained, Delivery!PostsExplained, Protocol!Cardinality,
         Delivery!Cardinality, Protocol!IsFiniteSet, Delivery!IsFiniteSet
<1>6. QED
  BY <1>2, <1>3, <1>4, <1>5, ReviewDelivers, PTL
  DEF ImplementsDelivery, Delivery!Spec, Protocol!Spec

=============================================================================

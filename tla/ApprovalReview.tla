--------------------------- MODULE ApprovalReview ---------------------------
(***************************************************************************)
(* The queue pending_detection_approvals and those who work on it: people  *)
(* who approve and reject rows through the API                             *)
(* (ReviewPendingDetectionApproval) and the backfill script, which lists   *)
(* the pending rows once and then sends them one by one.  The detections   *)
(* collector, which no longer asks for approval, meets the same detections *)
(* in the feed: its part is reduced to the delivery of one of them (module *)
(* DetectionDelivery shows that this is what it does).  Nothing locks a    *)
(* row between the calls of a worker.  ReviewPendingApproval, for          *)
(* incidents, has the same steps.                                          *)
(***************************************************************************)
EXTENDS Naturals, FiniteSets

CONSTANTS
  Workers,         \* requests, script runs and collectors under way at a time
  Approvals,       \* the rows of the table
  NoRow,
  Keys,            \* idempotency keys
  NoKey,
  KeyOf,           \* the key built from a row's payload
  Jobs,            \* what workers do, a subset of the four jobs
  ListLimit,       \* --limit of the script
  SendAttempts,    \* attempts of the Discord client before it gives up
  DiscordEnabled,  \* FALSE: DisabledNotifier is wired; the script refuses to run
  MaxFaults        \* bound of the number of failures

ASSUME ApprovalAssumption ==
  /\ IsFiniteSet(Workers)
  /\ NoRow \notin Approvals
  /\ NoKey \notin Keys
  /\ KeyOf \in [Approvals -> Keys]
  /\ Jobs \subseteq {"approve", "reject", "backfill", "collect"}
  /\ ListLimit \in Nat
  /\ SendAttempts \in Nat \ {0}
  /\ DiscordEnabled \in BOOLEAN
  /\ MaxFaults \in Nat

VARIABLES
  status,     \* the status column
  delivered,  \* notification_deliveries
  posts,      \* messages in the channel, per key
  faults,     \* failures so far
  pc,         \* the call a worker waits for
  job,        \* what it is doing
  row,        \* the row in hand
  todo,       \* the rows the script listed and has not taken yet
  attempts,   \* failed attempts to send the message in hand
  left        \* history: the rows the worker's last job failed on

tables == <<status, delivered>>
worker == <<pc, job, row, todo, attempts>>
vars == <<tables, posts, faults, worker, left>>

\* "check" waits for was_delivered, "send" for Discord, "mark" for
\* mark_delivered, "review" for mark_reviewed; "next" is between two rows.
InHand == {"check", "send", "mark", "review"}

TypeOK ==
  /\ status \in [Approvals -> {"pending", "approved", "rejected"}]
  /\ delivered \subseteq Keys
  /\ posts \in [Keys -> Nat]
  /\ faults \in 0..MaxFaults
  /\ pc \in [Workers -> InHand \cup {"idle", "next"}]
  /\ job \in [Workers -> Jobs \cup {"none"}]
  /\ row \in [Workers -> Approvals \cup {NoRow}]
  /\ todo \in [Workers -> SUBSET Approvals]
  /\ attempts \in [Workers -> 0..SendAttempts - 1]
  /\ left \in [Workers -> SUBSET Approvals]

Init ==
  /\ status = [a \in Approvals |-> "pending"]
  /\ delivered = {}
  /\ posts = [k \in Keys |-> 0]
  /\ faults = 0
  /\ pc = [w \in Workers |-> "idle"]
  /\ job = [w \in Workers |-> "none"]
  /\ row = [w \in Workers |-> NoRow]
  /\ todo = [w \in Workers |-> {}]
  /\ attempts = [w \in Workers |-> 0]
  /\ left = [w \in Workers |-> {}]

-----------------------------------------------------------------------------
Pending == {a \in Approvals : status[a] = "pending"}
Key(w) == KeyOf[row[w]]
Set(local, w, value) == [local EXCEPT ![w] = value]
GoTo(w, place) == pc' = Set(pc, w, place)
Fault == faults < MaxFaults /\ faults' = faults + 1
Post(k) == posts' = [posts EXCEPT ![k] = @ + 1]

End(w) ==
  /\ GoTo(w, "idle")
  /\ job' = Set(job, w, "none")
  /\ row' = Set(row, w, NoRow)
  /\ todo' = Set(todo, w, {})
  /\ attempts' = Set(attempts, w, 0)

\* The script goes on to its next row.
LeaveRow(w) ==
  /\ GoTo(w, "next")
  /\ row' = Set(row, w, NoRow)
  /\ attempts' = Set(attempts, w, 0)
  /\ UNCHANGED <<job, todo>>

RowDone(w) == IF job[w] = "backfill" THEN LeaveRow(w) ELSE End(w)

\* Bug: the script stops at the first row that fails.
BugRowFails(w) ==
  /\ End(w)
  /\ left' = Set(left, w, left[w] \cup {row[w]})

\* The script's handler leaves the row as it is; a request or a collection ends.
RowFails(w) ==
  /\ RowDone(w)
  /\ left' = Set(left, w, left[w] \cup {row[w]})

-----------------------------------------------------------------------------
\* get_pending of approve and of reject: a row that is not pending is a
\* DomainError and nothing else.
Open(w, a) ==
  /\ pc[w] = "idle"
  /\ status[a] = "pending"
  /\ \/ /\ "approve" \in Jobs
        /\ job' = Set(job, w, "approve")
        /\ GoTo(w, "check")
     \/ /\ "reject" \in Jobs
        /\ job' = Set(job, w, "reject")
        /\ GoTo(w, "review")
  /\ row' = Set(row, w, a)
  /\ left' = Set(left, w, {})
  /\ UNCHANGED <<tables, posts, faults, todo, attempts>>

\* The collector comes to the detection of a row, whatever the row's status.
Collect(w, a) ==
  /\ pc[w] = "idle"
  /\ "collect" \in Jobs
  /\ job' = Set(job, w, "collect")
  /\ row' = Set(row, w, a)
  /\ GoTo(w, "check")
  /\ left' = Set(left, w, {})
  /\ UNCHANGED <<tables, posts, faults, todo, attempts>>

\* list_pending: up to ListLimit rows, the latest updated first.
Backfill(w) ==
  /\ pc[w] = "idle"
  /\ "backfill" \in Jobs
  /\ DiscordEnabled
  /\ \E rows \in SUBSET Pending :
       /\ Cardinality(rows) = ListLimit \/ rows = Pending
       /\ Cardinality(rows) <= ListLimit
       /\ todo' = Set(todo, w, rows)
  /\ job' = Set(job, w, "backfill")
  /\ GoTo(w, "next")
  /\ left' = Set(left, w, {})
  /\ UNCHANGED <<tables, posts, faults, row, attempts>>

TakeRow(w) ==
  /\ pc[w] = "next"
  /\ \E a \in todo[w] :
       /\ row' = Set(row, w, a)
       /\ todo' = Set(todo, w, todo[w] \ {a})
  /\ GoTo(w, "check")
  /\ UNCHANGED <<tables, posts, faults, job, attempts, left>>

BackfillEnds(w) ==
  /\ pc[w] = "next"
  /\ todo[w] = {}
  /\ End(w)
  /\ UNCHANGED <<tables, posts, faults, left>>

\* Bug: the ledger is not consulted.
BugCheckDelivered(w) ==
  /\ pc[w] = "check"
  /\ GoTo(w, "send")
  /\ UNCHANGED <<tables, posts, faults, job, row, todo, attempts, left>>

\* was_delivered: a key in the ledger needs no message.
CheckDelivered(w) ==
  /\ pc[w] = "check"
  /\ \/ /\ Key(w) \in delivered
        /\ job[w] # "collect"
        /\ GoTo(w, "review")
        /\ UNCHANGED <<job, row, todo, attempts>>
     \/ /\ Key(w) \in delivered
        /\ job[w] = "collect"
        /\ End(w)
     \/ /\ Key(w) \notin delivered
        /\ GoTo(w, "send")
        /\ UNCHANGED <<job, row, todo, attempts>>
  /\ UNCHANGED <<tables, posts, faults, left>>

Send(w) ==
  /\ pc[w] = "send"
  /\ IF DiscordEnabled THEN Post(Key(w)) ELSE UNCHANGED posts
  /\ GoTo(w, "mark")
  /\ UNCHANGED <<tables, faults, job, row, todo, attempts, left>>

\* Bug: the insertion is not committed.
BugMarkDelivered(w) ==
  /\ pc[w] = "mark"
  /\ IF job[w] = "collect"
       THEN End(w)
       ELSE GoTo(w, "review") /\ UNCHANGED <<job, row, todo, attempts>>
  /\ UNCHANGED <<tables, posts, faults, left>>

MarkDelivered(w) ==
  /\ pc[w] = "mark"
  /\ delivered' = delivered \cup {Key(w)}
  /\ \/ /\ job[w] # "collect"
        /\ GoTo(w, "review")
        /\ UNCHANGED <<job, row, todo, attempts>>
     \/ /\ job[w] = "collect"
        /\ End(w)
  /\ UNCHANGED <<status, posts, faults, left>>

\* mark_reviewed: UPDATE ... WHERE id = ... AND status = 'pending'.
Review(w) ==
  /\ pc[w] = "review"
  /\ status' = IF row[w] \in Pending
                 THEN [status EXCEPT ![row[w]] =
                         IF job[w] = "reject" THEN "rejected" ELSE "approved"]
                 ELSE status
  /\ RowDone(w)
  /\ UNCHANGED <<delivered, posts, faults, left>>

-----------------------------------------------------------------------------
\* An attempt to send fails, before or after Discord took the message.  When
\* no attempt is left the row has failed.
SendFails(w) ==
  /\ pc[w] = "send"
  /\ DiscordEnabled
  /\ Fault
  /\ Post(Key(w)) \/ UNCHANGED posts
  /\ IF attempts[w] + 1 < SendAttempts
       THEN attempts' = Set(attempts, w, attempts[w] + 1) /\ UNCHANGED <<pc, job, row, todo, left>>
       ELSE RowFails(w)
  /\ UNCHANGED tables

\* mark_delivered raises: the script's handler covers it as well.
MarkFails(w) ==
  /\ pc[w] = "mark"
  /\ Fault
  /\ RowFails(w)
  /\ UNCHANGED <<tables, posts>>

\* Another call raises, the request is cancelled or the process dies; all that
\* the script had still to do stays undone.
Abort(w) ==
  /\ pc[w] # "idle"
  /\ Fault
  /\ left' = Set(left, w, left[w] \cup todo[w] \cup ({row[w]} \ {NoRow}))
  /\ End(w)
  /\ UNCHANGED <<tables, posts>>

-----------------------------------------------------------------------------
Begin(w) == Backfill(w) \/ \E a \in Approvals : Open(w, a) \/ Collect(w, a)

Progress(w) ==
  \/ TakeRow(w) \/ BackfillEnds(w) \/ CheckDelivered(w) \/ Send(w)
  \/ MarkDelivered(w) \/ Review(w)

Failure(w) == SendFails(w) \/ MarkFails(w) \/ Abort(w)

Next == \E w \in Workers : Begin(w) \/ Progress(w) \/ Failure(w)

Spec == Init /\ [][Next]_vars

\* An await returns or raises; nothing makes anybody start a job.
FairSpec == Spec /\ \A w \in Workers : WF_vars(Progress(w))

-----------------------------------------------------------------------------
HeldAt(place) == [w \in Workers |-> IF pc[w] = place THEN Key(w) ELSE NoKey]

Delivery == INSTANCE DeliveryProtocol WITH
              claimed <- HeldAt("send"),
              announced <- HeldAt("mark")

\* Requests, the script and the collector together keep to the delivery
\* protocol, so a detection both collected and reviewed is posted twice only
\* where a failure or an overlap explains it.
ImplementsDelivery == Delivery!Spec

\* An approved row is a notified detection: whatever fails or overlaps, the
\* ledger holds the key of every row that was marked approved.
ApprovedImpliesRecorded ==
  \A a \in Approvals : status[a] = "approved" => KeyOf[a] \in delivered

\* A review is final: the first verdict stands, later ones change nothing.
ReviewIsFinal ==
  [][\A a \in Approvals : status[a] # "pending" => status'[a] = status[a]]_status

\* A full backfill run leaves only rows that failed in the queue
\* (eset-remove-approval-gate/task-spec.md:111-114): every row it has listed is
\* reviewed in the end, by the script or by somebody else, unless the delivery of
\* this very row failed or the script was aborted before it was done with it.
BackfillDrains ==
  \A w \in Workers, a \in Approvals :
    (a \in todo[w]) ~> (status[a] # "pending" \/ a \in left[w])

=============================================================================

--------------------------- MODULE IncidentReview ---------------------------
(***************************************************************************)
(* The queue pending_approvals of incidents, the people who approve and    *)
(* reject its rows (ReviewPendingApproval) and the incidents collector,    *)
(* reduced to the delivery of one incident.  It differs from the queue of  *)
(* detections in what it keeps: a row has the incident as whoever saved it *)
(* had read it, and ESET goes on updating incidents, so that row and       *)
(* collector may mean different versions, each with a key of its own, and  *)
(* a row may go back to an older one.  The operator may also switch        *)
(* Discord on and off by restarting with other settings; a use case keeps  *)
(* the notifier it was built with.                                         *)
(*                                                                         *)
(* save_pending has no caller since the collectors ask for no approval;    *)
(* the rows there are come from it, and it is still part of the port.      *)
(***************************************************************************)
EXTENDS Naturals, FiniteSets

CONSTANTS
  Workers,      \* use cases under way at a time
  Incidents,
  NoIncident,
  MaxVersion,   \* bound of the updates of an incident
  MaxSwitches,  \* bound of the restarts with other settings
  MaxFaults     \* bound of the number of failures

Versions == 0..MaxVersion
Keys == Incidents \X Versions

ASSUME ReviewAssumption ==
  /\ IsFiniteSet(Workers)
  /\ NoIncident \notin Incidents
  /\ MaxVersion \in Nat /\ MaxSwitches \in Nat /\ MaxFaults \in Nat

VARIABLES
  current,    \* ESET's version of an incident
  status,     \* of its row; "none" when it has no row
  saved,      \* the version in the row
  offered,    \* history: the versions it has had while it was pending
  delivered,  \* notification_deliveries
  posts,      \* messages in the channel, per key
  muted,      \* history: keys recorded although nothing was sent
  enabled,    \* DISCORD_ENABLED
  switches,   \* restarts so far
  faults,     \* failures so far
  pc,         \* the call a worker waits for
  job,        \* what it is doing
  incident,   \* the incident in hand
  version,    \* the version in hand
  wired       \* whether its notifier is the webhook

table == <<status, saved, offered>>
settings == <<enabled, switches>>
worker == <<pc, job, incident, version, wired>>
vars == <<current, table, delivered, posts, muted, settings, faults, worker>>

TypeOK ==
  /\ current \in [Incidents -> Versions]
  /\ status \in [Incidents -> {"none", "pending", "approved", "rejected"}]
  /\ saved \in [Incidents -> Versions]
  /\ offered \in [Incidents -> SUBSET Versions]
  /\ delivered \subseteq Keys
  /\ muted \subseteq delivered
  /\ posts \in [Keys -> Nat]
  /\ enabled \in BOOLEAN
  /\ switches \in 0..MaxSwitches
  /\ faults \in 0..MaxFaults
  /\ pc \in [Workers -> {"idle", "check", "send", "mark", "review"}]
  /\ job \in [Workers -> {"none", "approve", "reject", "collect"}]
  /\ incident \in [Workers -> Incidents \cup {NoIncident}]
  /\ version \in [Workers -> Versions]
  /\ wired \in [Workers -> BOOLEAN]

Init ==
  /\ current = [i \in Incidents |-> 0]
  /\ status = [i \in Incidents |-> "none"]
  /\ saved = [i \in Incidents |-> 0]
  /\ offered = [i \in Incidents |-> {}]
  /\ delivered = {} /\ muted = {}
  /\ posts = [k \in Keys |-> 0]
  /\ enabled \in BOOLEAN
  /\ switches = 0 /\ faults = 0
  /\ pc = [w \in Workers |-> "idle"]
  /\ job = [w \in Workers |-> "none"]
  /\ incident = [w \in Workers |-> NoIncident]
  /\ version = [w \in Workers |-> 0]
  /\ wired = [w \in Workers |-> FALSE]

-----------------------------------------------------------------------------
Key(w) == <<incident[w], version[w]>>
GoTo(w, place) == pc' = [pc EXCEPT ![w] = place]
Fault == faults < MaxFaults /\ faults' = faults + 1

End(w) ==
  /\ GoTo(w, "idle")
  /\ job' = [job EXCEPT ![w] = "none"]
  /\ incident' = [incident EXCEPT ![w] = NoIncident]
  /\ version' = [version EXCEPT ![w] = 0]
  /\ wired' = [wired EXCEPT ![w] = FALSE]

\* A use case is built, with the notifier the settings ask for.
Take(w, what, i, v) ==
  /\ job' = [job EXCEPT ![w] = what]
  /\ incident' = [incident EXCEPT ![w] = i]
  /\ version' = [version EXCEPT ![w] = v]
  /\ wired' = [wired EXCEPT ![w] = enabled]

-----------------------------------------------------------------------------
(* ESET, the operator, the queue *)

Update(i) ==
  /\ current[i] < MaxVersion
  /\ current' = [current EXCEPT ![i] = @ + 1]
  /\ UNCHANGED <<table, delivered, posts, muted, settings, faults, worker>>

Switch ==
  /\ switches < MaxSwitches
  /\ switches' = switches + 1
  /\ enabled' = ~enabled
  /\ UNCHANGED <<current, table, delivered, posts, muted, faults, worker>>

\* The payload is the snapshot its caller read from ESET, now or some time ago.
Write(i) ==
  \E v \in 0..current[i] :
    /\ saved' = [saved EXCEPT ![i] = v]
    /\ offered' = IF status'[i] = "pending" THEN [offered EXCEPT ![i] = @ \cup {v}]
                  ELSE offered

\* Bug: a row that is saved again is pending again.
BugSavePending(i) ==
  /\ status' = [status EXCEPT ![i] = "pending"]
  /\ Write(i)
  /\ UNCHANGED <<current, delivered, posts, muted, settings, faults, worker>>

\* save_pending: ON CONFLICT keeps the status and replaces the payload, without a
\* look at which of the two is newer.
SavePending(i) ==
  /\ status' = [status EXCEPT ![i] = IF @ = "none" THEN "pending" ELSE @]
  /\ Write(i)
  /\ UNCHANGED <<current, delivered, posts, muted, settings, faults, worker>>

-----------------------------------------------------------------------------
(* Requests and the collector *)

\* Bug: any row will do.
BugGetPending(i) == status[i] # "none"
GetPending(i) == status[i] = "pending"

Approve(w, i) ==
  /\ pc[w] = "idle"
  /\ GetPending(i)
  /\ Take(w, "approve", i, saved[i])
  /\ GoTo(w, "check")
  /\ UNCHANGED <<current, table, delivered, posts, muted, settings, faults>>

Reject(w, i) ==
  /\ pc[w] = "idle"
  /\ GetPending(i)
  /\ Take(w, "reject", i, saved[i])
  /\ GoTo(w, "review")
  /\ UNCHANGED <<current, table, delivered, posts, muted, settings, faults>>

\* The collector comes to the incident, in the version ESET lists.
Collect(w, i) ==
  /\ pc[w] = "idle"
  /\ Take(w, "collect", i, current[i])
  /\ GoTo(w, "check")
  /\ UNCHANGED <<current, table, delivered, posts, muted, settings, faults>>

\* was_delivered: what is recorded needs no message; the row is approved.
CheckDelivered(w) ==
  /\ pc[w] = "check"
  /\ \/ /\ Key(w) \notin delivered
        /\ GoTo(w, "send")
        /\ UNCHANGED <<job, incident, version, wired>>
     \/ /\ Key(w) \in delivered
        /\ job[w] = "approve"
        /\ GoTo(w, "review")
        /\ UNCHANGED <<job, incident, version, wired>>
     \/ /\ Key(w) \in delivered
        /\ job[w] = "collect"
        /\ End(w)
  /\ UNCHANGED <<current, table, delivered, posts, muted, settings, faults>>

\* Bug: mark_reviewed before mark_delivered.
BugSend(w) ==
  /\ pc[w] = "send"
  /\ posts' = IF wired[w] THEN [posts EXCEPT ![Key(w)] = @ + 1] ELSE posts
  /\ GoTo(w, IF job[w] = "approve" THEN "review" ELSE "mark")
  /\ UNCHANGED <<current, table, delivered, muted, settings, faults,
                 job, incident, version, wired>>

\* The disabled notifier takes the message and does nothing.
Send(w) ==
  /\ pc[w] = "send"
  /\ posts' = IF wired[w] THEN [posts EXCEPT ![Key(w)] = @ + 1] ELSE posts
  /\ GoTo(w, "mark")
  /\ UNCHANGED <<current, table, delivered, muted, settings, faults,
                 job, incident, version, wired>>

MarkDelivered(w) ==
  /\ pc[w] = "mark"
  /\ delivered' = delivered \cup {Key(w)}
  /\ muted' = IF wired[w] \/ Key(w) \in delivered THEN muted ELSE muted \cup {Key(w)}
  /\ IF job[w] = "approve"
       THEN GoTo(w, "review") /\ UNCHANGED <<job, incident, version, wired>>
       ELSE End(w)
  /\ UNCHANGED <<current, table, posts, settings, faults>>

\* mark_reviewed: UPDATE ... WHERE id = ... AND status = 'pending'.
MarkReviewed(w) ==
  /\ pc[w] = "review"
  /\ status' = IF status[incident[w]] # "pending" THEN status
               ELSE [status EXCEPT ![incident[w]] =
                       IF job[w] = "approve" THEN "approved" ELSE "rejected"]
  /\ End(w)
  /\ UNCHANGED <<current, saved, offered, delivered, posts, muted, settings, faults>>

-----------------------------------------------------------------------------
\* Bug: a message that was refused is taken for sent.
BugSendFails(w) ==
  /\ pc[w] = "send"
  /\ wired[w]
  /\ Fault
  /\ GoTo(w, "mark")
  /\ UNCHANGED <<current, table, delivered, posts, muted, settings,
                 job, incident, version, wired>>

\* An attempt fails, before or after Discord took the message; the client tries
\* again or gives up.
SendFails(w) ==
  /\ pc[w] = "send"
  /\ wired[w]
  /\ Fault
  /\ posts' \in {posts, [posts EXCEPT ![Key(w)] = @ + 1]}
  /\ UNCHANGED worker \/ End(w)
  /\ UNCHANGED <<current, table, delivered, muted, settings>>

\* Another call raises, the request is cancelled or the process dies.
Abort(w) ==
  /\ pc[w] # "idle"
  /\ Fault
  /\ End(w)
  /\ UNCHANGED <<current, table, delivered, posts, muted, settings>>

-----------------------------------------------------------------------------
Progress(w) == CheckDelivered(w) \/ Send(w) \/ MarkDelivered(w) \/ MarkReviewed(w)

Next ==
  \/ Switch
  \/ \E i \in Incidents : Update(i) \/ SavePending(i)
  \/ \E w \in Workers :
       \/ \E i \in Incidents : Approve(w, i) \/ Reject(w, i) \/ Collect(w, i)
       \/ Progress(w) \/ SendFails(w) \/ Abort(w)

Spec == Init /\ [][Next]_vars

\* Awaits return or raise; nothing makes anybody ask, update or restart.
FairSpec == Spec /\ \A w \in Workers : WF_vars(Progress(w))

-----------------------------------------------------------------------------
\* An approved row stands for a message: a version the row had while it was
\* pending is in the ledger.  It need not be the one in the row: save_pending may
\* have replaced that while the approval was under way, by a newer or an older one.
ApprovedImpliesRecorded ==
  \A i \in Incidents :
    status[i] = "approved" => \E v \in offered[i] : <<i, v>> \in delivered

\* A verdict outlives what comes after it, a new save_pending included.
VerdictsStand ==
  [][\A i \in Incidents :
       status[i] \in {"approved", "rejected"} => status'[i] = status[i]]_status

\* The ledger and the channel differ by what was recorded while Discord was
\* off, and by nothing else, however often it is switched.
RecordedOrMuted == \A k \in delivered \ muted : posts[k] > 0

\* A rejected row comes to rest: approvals under way when it was rejected end,
\* and no new one begins.
RejectionSettles ==
  \A i \in Incidents :
    (status[i] = "rejected") ~>
      [](\A w \in Workers : ~(job[w] = "approve" /\ incident[w] = i))

=============================================================================

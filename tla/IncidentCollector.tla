------------------------- MODULE IncidentCollector --------------------------
(***************************************************************************)
(* CollectAndNotifyIncidents: the incidents collector, started daily by    *)
(* Celery, by POST /incidents/collect-and-notify and by a script.  It      *)
(* keeps no cursor: every run lists the incidents from the first one and   *)
(* leaves it to the ledger to recognise those it has notified.  A request  *)
(* may ask for those updated after a time of its choice; ESET then leaves  *)
(* the others out of the list.  ESET updates incidents; the key of an      *)
(* incident contains its updateTime, so an update makes it a new thing to  *)
(* notify.  A page is a snapshot: page holds the versions the runner was   *)
(* given.                                                                  *)
(***************************************************************************)
EXTENDS Naturals, FiniteSets, FiniteSetsExt

CONSTANTS
  Runners,         \* concurrent executions of the use case
  Scheduled,       \* those the schedule or the script starts; requests start the rest
  ListSize,        \* the incidents ESET will ever list
  MaxVersion,      \* bound of the updates of an incident
  Updated,         \* bound of the incidents that are updated
  Keys,            \* idempotency keys
  NoKey,
  KeyOf,           \* the key of a version of an incident
  UpdateTime,      \* the updateTime of a version, 0 when it has none
  Filters,         \* the times requests give as updated_after
  Rank,            \* rank of its parsed severity
  MinRank,         \* rank of the notification threshold
  Limits,          \* the limits runs are given
  MaxLimit,        \* the largest a limit may be
  PageCap,         \* the most incidents ESET puts in a page
  SendAttempts,    \* attempts of the Discord client before it gives up
  DiscordEnabled,  \* FALSE: DisabledNotifier is wired instead of the webhook
  MaxFaults        \* bound of the number of failures

Incidents == 1..ListSize
Versions == 0..MaxVersion
Absent == MaxVersion + 1

ASSUME IncidentAssumption ==
  /\ IsFiniteSet(Runners)
  /\ Scheduled \subseteq Runners
  /\ ListSize \in Nat
  /\ MaxVersion \in Nat
  /\ Updated \subseteq Incidents
  /\ NoKey \notin Keys
  /\ KeyOf \in [Incidents \X Versions -> Keys]
  /\ UpdateTime \in [Incidents \X Versions -> Nat]
  /\ Filters \subseteq Nat \ {0}
  /\ Rank \in [Incidents \X Versions -> Nat]
  /\ MinRank \in Nat
  /\ MaxLimit \in Nat \ {0}
  /\ Limits \subseteq 0..MaxLimit
  /\ PageCap \in Nat \ {0}
  /\ SendAttempts \in Nat \ {0}
  /\ DiscordEnabled \in BOOLEAN
  /\ MaxFaults \in Nat

VARIABLES
  listed,     \* incidents ESET lists now
  version,    \* the version of each
  lastRun,    \* the newest row of collection_runs
  delivered,  \* notification_deliveries
  posts,      \* messages in the channel, per key
  faults,     \* failures so far
  pc,         \* the call a runner waits for; "scan" is between two incidents
  limit,      \* the limit it was given
  since,      \* the updated_after it was given, NoFilter without one
  pos,        \* the incident in hand, or the last that was
  page,       \* the version of each incident in the page in hand
  more,       \* whether that page came with a token for the next one
  attempts,   \* failed attempts to send the message in hand
  collected, notified, duplicates

world == <<listed, version, faults>>
stores == <<lastRun, delivered, posts>>
place == <<limit, since, page, more>>
counters == <<collected, notified, duplicates>>
vars == <<world, stores, pc, pos, attempts, place, counters>>

Places == {"idle", "fetch", "scan", "check", "send", "mark", "finish", "failed"}

\* None and "" alike.
NoFilter == 0

Row == [status : {"none", "succeeded", "failed"}, collected : Nat,
        notified : Nat, duplicates : Nat, skipped : Nat]

EmptyRow(status) ==
  [status |-> status, collected |-> 0, notified |-> 0, duplicates |-> 0,
   skipped |-> 0]

TypeOK ==
  /\ listed \in 0..ListSize
  /\ version \in [Incidents -> Versions]
  /\ lastRun \in Row
  /\ delivered \subseteq Keys
  /\ posts \in [Keys -> Nat]
  /\ faults \in 0..MaxFaults
  /\ pc \in [Runners -> Places]
  /\ limit \in [Runners -> 0..MaxLimit]
  /\ since \in [Runners -> Filters \cup {NoFilter}]
  /\ pos \in [Runners -> 0..ListSize]
  /\ page \in [Runners -> [Incidents -> Versions \cup {Absent}]]
  /\ more \in [Runners -> BOOLEAN]
  /\ attempts \in [Runners -> 0..SendAttempts]
  /\ collected \in [Runners -> 0..MaxLimit]
  /\ notified \in [Runners -> Nat]
  /\ duplicates \in [Runners -> Nat]

NoPage == [i \in Incidents |-> Absent]
Zero == [r \in Runners |-> 0]

Init ==
  /\ listed = 0
  /\ version = [i \in Incidents |-> 0]
  /\ lastRun = EmptyRow("none")
  /\ delivered = {}
  /\ posts = [k \in Keys |-> 0]
  /\ faults = 0
  /\ pc = [r \in Runners |-> "idle"]
  /\ page = [r \in Runners |-> NoPage]
  /\ more = [r \in Runners |-> FALSE]
  /\ since = [r \in Runners |-> NoFilter]
  /\ limit = Zero     /\ pos = Zero       /\ attempts = Zero
  /\ collected = Zero /\ notified = Zero  /\ duplicates = Zero

-----------------------------------------------------------------------------
InHand(r) == <<pos[r], page[r][pos[r]]>>
Key(r) == KeyOf[InHand(r)]
MeetsThreshold(v) == Rank[v] >= MinRank
PageSize(r) == Min({Max({limit[r], 1}), PageCap})

Set(local, r, value) == [local EXCEPT ![r] = value]
Count(counter, r) == [counter EXCEPT ![r] = @ + 1]
GoTo(r, there) == pc' = Set(pc, r, there)
Fault == faults < MaxFaults /\ faults' = faults + 1
Post(k) == posts' = [posts EXCEPT ![k] = @ + 1]

\* The locals of a run that ended are gone.
End(r) ==
  /\ GoTo(r, "idle")
  /\ page' = Set(page, r, NoPage)      /\ more' = Set(more, r, FALSE)
  /\ limit' = Set(limit, r, 0)         /\ since' = Set(since, r, NoFilter)
  /\ pos' = Set(pos, r, 0)             /\ attempts' = Set(attempts, r, 0)
  /\ collected' = Set(collected, r, 0) /\ notified' = Set(notified, r, 0)
  /\ duplicates' = Set(duplicates, r, 0)

\* Bug: duplicates do not count against the limit.
BugNextIncident(r) ==
  GoTo(r, IF collected'[r] - duplicates'[r] >= limit[r] THEN "finish" ELSE "scan")

\* Done with the incident in hand: every path of the loop ends with the same
\* look at the limit.
NextIncident(r) == GoTo(r, IF collected'[r] >= limit[r] THEN "finish" ELSE "scan")

-----------------------------------------------------------------------------
(* What ESET lists *)

\* Bug: what was updated at that very time is listed as well.
BugSelects(filter, v) == filter = NoFilter \/ UpdateTime[v] >= filter

Selects(filter, v) == filter = NoFilter \/ UpdateTime[v] > filter

\* The incidents after the one a run was at: those ESET has for it now, and those
\* left of the page in hand.
Selected(r) == {i \in Incidents : pos[r] < i /\ Selects(since[r], <<i, version[i]>>)}
Rest(r) == {i \in Incidents : pos[r] < i /\ page[r][i] # Absent}
Upcoming(r, i) == i \in Rest(r) /\ \A j \in Rest(r) : i <= j

\* Up to end there is no more than a page, and there is nothing more or a page
\* is full.
FillsPage(r, end) ==
  /\ Cardinality(Selected(r) \cap 1..end) <= PageSize(r)
  /\ end = listed \/ Cardinality(Selected(r) \cap 1..end + 1) > PageSize(r)

-----------------------------------------------------------------------------
\* The schedule and the script give no time.
Start(r) ==
  /\ pc[r] = "idle"
  /\ GoTo(r, "fetch")
  /\ \E n \in Limits : limit' = Set(limit, r, n)
  /\ \E f \in (IF r \in Scheduled THEN {} ELSE Filters) \cup {NoFilter} :
       since' = Set(since, r, f)
  /\ UNCHANGED <<world, stores, pos, attempts, page, more, counters>>

\* iter_incidents asks for the page after the last incident it yielded.
FetchPage(r) ==
  /\ pc[r] = "fetch"
  /\ GoTo(r, "scan")
  /\ \E end \in pos[r]..listed :
       /\ FillsPage(r, end)
       /\ page' = Set(page, r, [i \in Incidents |->
                    IF i \in Selected(r) /\ i <= end THEN version[i] ELSE Absent])
       /\ more' = Set(more, r, end < listed)
  /\ UNCHANGED <<world, stores, pos, attempts, limit, since, counters>>

\* The loop comes to the next incident of the page.
Take(r) ==
  /\ pc[r] = "scan"
  /\ \E i \in Incidents : Upcoming(r, i) /\ pos' = Set(pos, r, i)
  /\ collected' = Count(collected, r)
  /\ UNCHANGED <<world, stores, attempts, place, notified, duplicates>>

\* An incident below the threshold.
SkipLow(r) ==
  /\ Take(r)
  /\ ~MeetsThreshold(InHand(r)')
  /\ NextIncident(r)

Admit(r) ==
  /\ Take(r)
  /\ MeetsThreshold(InHand(r)')
  /\ GoTo(r, "check")

\* Bug: the ledger is not consulted.
BugCheckDelivered(r) ==
  /\ pc[r] = "check"
  /\ GoTo(r, "send")
  /\ attempts' = Set(attempts, r, 0)
  /\ UNCHANGED <<world, stores, pos, place, counters>>

\* was_delivered.  The analysis that follows cannot fail the run.
CheckDelivered(r) ==
  /\ pc[r] = "check"
  /\ \/ /\ Key(r) \in delivered
        /\ duplicates' = Count(duplicates, r)
        /\ UNCHANGED <<attempts, collected, notified>>
        /\ NextIncident(r)
     \/ /\ Key(r) \notin delivered
        /\ attempts' = Set(attempts, r, 0)
        /\ GoTo(r, "send")
        /\ UNCHANGED counters
  /\ UNCHANGED <<world, stores, pos, place>>

Send(r) ==
  /\ pc[r] = "send"
  /\ IF DiscordEnabled THEN Post(Key(r)) ELSE UNCHANGED posts
  /\ GoTo(r, "mark")
  /\ UNCHANGED <<world, lastRun, delivered, pos, attempts, place, counters>>

\* One attempt of the webhook client fails, before or after Discord took the
\* message; the client retries any exception until its attempts are used up.
SendFails(r) ==
  /\ pc[r] = "send"
  /\ DiscordEnabled
  /\ Fault
  /\ Post(Key(r)) \/ UNCHANGED posts
  /\ attempts' = Count(attempts, r)
  /\ GoTo(r, IF attempts[r] + 1 < SendAttempts THEN "send" ELSE "failed")
  /\ UNCHANGED <<listed, version, lastRun, delivered, pos, place, counters>>

\* Bug: the same incident is counted as notified and as a duplicate.
BugMarkDelivered(r) ==
  /\ pc[r] = "mark"
  /\ delivered' = delivered \cup {Key(r)}
  /\ notified' = Count(notified, r)
  /\ duplicates' = IF Key(r) \in delivered THEN Count(duplicates, r) ELSE duplicates
  /\ UNCHANGED collected
  /\ NextIncident(r)
  /\ UNCHANGED <<world, lastRun, posts, pos, attempts, place>>

\* mark_delivered: ON CONFLICT DO NOTHING makes it a set insertion.
MarkDelivered(r) ==
  /\ pc[r] = "mark"
  /\ delivered' = delivered \cup {Key(r)}
  /\ notified' = Count(notified, r)
  /\ UNCHANGED <<collected, duplicates>>
  /\ NextIncident(r)
  /\ UNCHANGED <<world, lastRun, posts, pos, attempts, place>>

\* Bug: the token for the next page is dropped.
BugEndPage(r) ==
  /\ pc[r] = "scan"
  /\ Rest(r) = {}
  /\ GoTo(r, "finish")
  /\ UNCHANGED <<world, stores, pos, attempts, place, counters>>

\* The page is used up.
EndPage(r) ==
  /\ pc[r] = "scan"
  /\ Rest(r) = {}
  /\ GoTo(r, IF more[r] THEN "fetch" ELSE "finish")
  /\ UNCHANGED <<world, stores, pos, attempts, place, counters>>

Monus(a, b) == IF a > b THEN a - b ELSE 0

SaveSuccess(r) ==
  /\ pc[r] = "finish"
  /\ lastRun' = [status |-> "succeeded", collected |-> collected[r],
                 notified |-> notified[r], duplicates |-> duplicates[r],
                 skipped |-> Monus(collected[r], notified[r] + duplicates[r])]
  /\ End(r)
  /\ UNCHANGED <<world, delivered, posts>>

-----------------------------------------------------------------------------
\* An awaited call other than send raises.
Raise(r) ==
  /\ pc[r] \in {"fetch", "check", "mark", "finish"}
  /\ Fault
  /\ GoTo(r, "failed")
  /\ UNCHANGED <<listed, version, stores, pos, attempts, place, counters>>

SaveFailure(r) ==
  /\ pc[r] = "failed"
  /\ lastRun' = EmptyRow("failed")
  /\ End(r)
  /\ UNCHANGED <<world, delivered, posts>>

\* save_failure raises as well, the run is cancelled or the process dies.
Crash(r) ==
  /\ pc[r] # "idle"
  /\ Fault
  /\ End(r)
  /\ UNCHANGED <<listed, version, stores>>

\* ESET lists a new incident, or updates one.
Publish ==
  /\ listed < ListSize
  /\ listed' = listed + 1
  /\ UNCHANGED <<version, faults, stores, pc, pos, attempts, place, counters>>

Update(i) ==
  /\ i <= listed
  /\ version[i] < MaxVersion
  /\ version' = [version EXCEPT ![i] = @ + 1]
  /\ UNCHANGED <<listed, faults, stores, pc, pos, attempts, place, counters>>

-----------------------------------------------------------------------------
Work(r) ==
  \/ FetchPage(r)     \/ SkipLow(r)       \/ Admit(r)
  \/ CheckDelivered(r) \/ Send(r)         \/ MarkDelivered(r)
  \/ EndPage(r)       \/ SaveSuccess(r)   \/ SaveFailure(r)

Progress(r) == Start(r) \/ Work(r)

Failure(r) == SendFails(r) \/ Raise(r) \/ Crash(r)

Next ==
  \/ \E r \in Runners : Progress(r) \/ Failure(r)
  \/ Publish
  \/ \E i \in Updated : Update(i)

Spec == Init /\ [][Next]_vars

\* Celery beat starts a run every day, and an await returns or raises; nothing
\* makes anybody send a request.
FairSpec ==
  /\ Spec
  /\ \A r \in Scheduled : WF_vars(Progress(r))
  /\ \A r \in Runners \ Scheduled : WF_vars(Work(r))

-----------------------------------------------------------------------------
HeldAt(there) == [r \in Runners |-> IF pc[r] = there THEN Key(r) ELSE NoKey]

Delivery == INSTANCE DeliveryProtocol WITH
              Workers <- Runners,
              claimed <- HeldAt("send"),
              announced <- HeldAt("mark")

\* Without a cursor too, whatever runs overlap or fail and whatever ESET
\* updates meanwhile, a key is only sent after a look at the ledger and only
\* recorded after it was sent.
ImplementsDelivery == Delivery!Spec

\* The counts of a succeeded run add up: max(..., 0), which computes the
\* skipped ones, never hides a negative number.
CountsAddUp ==
  lastRun.collected = lastRun.notified + lastRun.duplicates + lastRun.skipped

\* The horizon of the collector: the limit counts what is listed, not what is
\* new, so that of the incidents behind the first MaxLimit of the list only those
\* are ever notified that a request has asked for by the time of their update (the
\* gap task-spec.md:63-70 leaves open).
HorizonIsLimit ==
  delivered \subseteq
    {KeyOf[v] : v \in {v \in Incidents \X Versions :
       v[1] <= MaxLimit \/ \E f \in Filters : UpdateTime[v] > f}}

\* What every scheduled run gets to is notified in the version it settles in, or is
\* below the threshold.
EventuallyNotified ==
  \A i \in 1..Min(Limits) :
    (i <= listed) ~> \/ KeyOf[<<i, version[i]>>] \in delivered
                     \/ ~MeetsThreshold(<<i, version[i]>>)

=============================================================================

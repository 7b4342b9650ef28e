------------------------- MODULE DetectionCollector -------------------------
(***************************************************************************)
(* CollectAndNotifyDetections: the detections collector.  A run is started *)
(* by the hourly Celery task or by POST /detections/collect-and-notify;    *)
(* nothing excludes a second run while one is in progress, so several      *)
(* Runners share the three stores the use case works on:                   *)
(*                                                                         *)
(*   feed, clock     the ESET API, an append-only log read oldest first,   *)
(*                   page by page, and the wall clock;                     *)
(*   lastRow         the newest row of detection_collection_runs, the only *)
(*                   row latest() reads: it carries the page cursor;       *)
(*   delivered       the idempotency keys in notification_deliveries.      *)
(*                                                                         *)
(* posts counts the messages that really reached the Discord channel; no   *)
(* code reads it.  Every await of the code is a step of its own.  A page   *)
(* token is the number of records before the page it names, 0 the absent   *)
(* token.                                                                  *)
(***************************************************************************)
EXTENDS Integers

CONSTANTS
  Runners,         \* concurrent executions of the use case
  FeedSize,        \* the records ESET will ever hold, oldest first
  Keys,            \* idempotency keys
  KeyOf,           \* the key of a record, built from uuid and occurTime
  Rank,            \* rank of a record's parsed severity
  MinRank,         \* rank of the notification threshold
  OccurTime,       \* the parsed occurTime, NoTime if absent or malformed
  NoTime,
  Window,          \* backfill window
  PageSize,        \* records per page
  Limits,          \* notification limits a run may be given
  MaxPages,        \* max_pages_per_run
  Refused,         \* records whose message Discord never accepts
  SendAttempts,    \* attempts of the Discord client before it gives up
  DiscordEnabled,  \* FALSE: DisabledNotifier is wired instead of the webhook
  MaxTime,         \* bound of the clock
  MaxFaults        \* bound of the number of failures

Detections == 1..FeedSize

ASSUME FeedAssumption ==
  /\ FeedSize \in Nat
  /\ KeyOf \in [Detections -> Keys]
  /\ Rank \in [Detections -> Nat]
  /\ MinRank \in Nat
  /\ NoTime \notin Int
  /\ OccurTime \in [Detections -> Nat \cup {NoTime}]

ASSUME SettingsAssumption ==
  /\ Window \in Nat
  /\ PageSize \in Nat \ {0}
  /\ Limits \subseteq Nat
  /\ MaxPages \in Nat
  /\ Refused \subseteq Detections
  /\ SendAttempts \in Nat \ {0}
  /\ DiscordEnabled \in BOOLEAN
  /\ MaxTime \in Nat
  /\ MaxFaults \in Nat

VARIABLES
  \* the stores
  feed, clock, lastRow, delivered, posts,
  \* the failures so far
  faults,
  \* the locals of _execute, for each runner
  pc,          \* where the run is
  limit,       \* the limit it was given
  cutoff,      \* the start of its backfill window
  token,       \* current_page_token, always also last_persistable_page_token
  pages,       \* pages_fetched
  pos,         \* the record in hand
  last,        \* the last record of the page in hand
  next,        \* next_page_token of that page
  attempts,    \* failed attempts to send the message in hand
  left,        \* 1 when page_completed is False: a record was left behind
  collected, processed, notified, duplicates, skipped

stores == <<lastRow, delivered, posts>>
world == <<feed, clock, faults>>
page == <<pages, last, next>>
given == <<limit, cutoff>>
counters == <<left, collected, processed, notified, duplicates, skipped>>
locals == <<pc, token, pos, attempts, page, given, counters>>
vars == <<world, stores, locals>>

-----------------------------------------------------------------------------
(* State *)

\* Where a run is waiting: "fetch" for a page, "check" for was_delivered,
\* "send" for Discord, "mark" for mark_delivered, "cursor" for save_cursor,
\* "finish" for save_success, "failed" for save_failure; "scan" is between
\* two records of a page.
Waiting == {"fetch", "check", "send", "mark", "cursor", "finish"}
Places == Waiting \cup {"idle", "scan", "failed"}

Row == [status : {"none", "running", "succeeded", "failed"}, token : Nat]

TypeOK ==
  /\ feed \in 0..FeedSize
  /\ clock \in 0..MaxTime
  /\ lastRow \in Row
  /\ delivered \subseteq Keys
  /\ posts \in [Keys -> Nat]
  /\ faults \in 0..MaxFaults
  /\ pc \in [Runners -> Places]
  /\ limit \in [Runners -> Nat]
  /\ cutoff \in [Runners -> Int]
  /\ token \in [Runners -> Nat]
  /\ pages \in [Runners -> 0..MaxPages]
  /\ pos \in [Runners -> Nat]
  /\ last \in [Runners -> Nat]
  /\ next \in [Runners -> Nat]
  /\ attempts \in [Runners -> 0..SendAttempts]
  /\ left \in [Runners -> 0..1]
  /\ collected \in [Runners -> Nat]
  /\ processed \in [Runners -> Nat]
  /\ notified \in [Runners -> Nat]
  /\ duplicates \in [Runners -> Nat]
  /\ skipped \in [Runners -> Nat]

Zero == [r \in Runners |-> 0]

Init ==
  /\ feed = 0
  /\ clock = 0
  /\ lastRow = [status |-> "none", token |-> 0]
  /\ delivered = {}
  /\ posts = [k \in Keys |-> 0]
  /\ faults = 0
  /\ pc = [r \in Runners |-> "idle"]
  /\ limit = Zero      /\ cutoff = Zero     /\ token = Zero
  /\ pages = Zero      /\ pos = Zero        /\ last = Zero     /\ next = Zero
  /\ attempts = Zero   /\ left = Zero       /\ collected = Zero
  /\ processed = Zero  /\ notified = Zero   /\ duplicates = Zero
  /\ skipped = Zero

-----------------------------------------------------------------------------
(* What the code asks of a record *)

Old(d, time) == OccurTime[d] # NoTime /\ OccurTime[d] < time
MeetsThreshold(d) == Rank[d] >= MinRank

\* The last record of the page that starts after t, and the token of the next.
PageEnd(t) == IF t + PageSize < feed THEN t + PageSize ELSE feed
NextToken(t) == IF t + PageSize < feed THEN t + PageSize ELSE 0

Key(r) == KeyOf[pos[r]]
InPage(r) == pc[r] = "scan" /\ pos[r] <= last[r]
PageDone(r) == pc[r] = "scan" /\ pos[r] > last[r]

GoTo(r, place) == pc' = [pc EXCEPT ![r] = place]
Clear(local, r) == [local EXCEPT ![r] = 0]
Count(counter, r) == [counter EXCEPT ![r] = @ + 1]
NextRecord(r) == pos' = Count(pos, r)

\* The locals of a run that ended are gone.
End(r) ==
  /\ GoTo(r, "idle")
  /\ limit' = Clear(limit, r)           /\ cutoff' = Clear(cutoff, r)
  /\ token' = Clear(token, r)           /\ pages' = Clear(pages, r)
  /\ pos' = Clear(pos, r)               /\ last' = Clear(last, r)
  /\ next' = Clear(next, r)             /\ attempts' = Clear(attempts, r)
  /\ left' = Clear(left, r)             /\ collected' = Clear(collected, r)
  /\ processed' = Clear(processed, r)   /\ notified' = Clear(notified, r)
  /\ duplicates' = Clear(duplicates, r) /\ skipped' = Clear(skipped, r)

Fault == faults < MaxFaults /\ faults' = faults + 1

-----------------------------------------------------------------------------
(* The run *)

\* latest(), then the cutoff from the clock.
Start(r) ==
  /\ pc[r] = "idle"
  /\ GoTo(r, IF MaxPages > 0 THEN "fetch" ELSE "finish")
  /\ \E n \in Limits : limit' = [limit EXCEPT ![r] = n]
  /\ cutoff' = [cutoff EXCEPT ![r] = clock - Window]
  /\ token' = [token EXCEPT ![r] = lastRow.token]
  /\ UNCHANGED <<world, stores, pos, attempts, page, counters>>

\* get_detection_page: what the feed holds now.
FetchPage(r) ==
  /\ pc[r] = "fetch"
  /\ GoTo(r, "scan")
  /\ pages' = Count(pages, r)
  /\ pos' = [pos EXCEPT ![r] = token[r] + 1]
  /\ last' = [last EXCEPT ![r] = PageEnd(token[r])]
  /\ next' = [next EXCEPT ![r] = NextToken(token[r])]
  /\ UNCHANGED <<world, stores, token, attempts, given, counters>>

\* A record before the cutoff is skipped and does not count against the limit.
SkipOld(r) ==
  /\ InPage(r)
  /\ Old(pos[r], cutoff[r])
  /\ collected' = Count(collected, r)
  /\ skipped' = Count(skipped, r)
  /\ NextRecord(r)
  /\ UNCHANGED <<world, stores, pc, token, attempts, page, given, left,
                 processed, notified, duplicates>>

\* Bug: a limit reached inside the page passes for a page completed.
BugStopAtLimit(r) ==
  /\ InPage(r)
  /\ ~Old(pos[r], cutoff[r])
  /\ processed[r] >= limit[r]
  /\ collected' = Count(collected, r)
  /\ left' = [left EXCEPT ![r] = 1]
  /\ token' = [token EXCEPT ![r] = IF next[r] # 0 THEN next[r] ELSE @]
  /\ GoTo(r, "finish")
  /\ UNCHANGED <<world, stores, pos, attempts, page, given, processed, notified,
                 duplicates, skipped>>

\* The limit is reached inside a page: the run ends, the cursor stays.
StopAtLimit(r) ==
  /\ InPage(r)
  /\ ~Old(pos[r], cutoff[r])
  /\ processed[r] >= limit[r]
  /\ collected' = Count(collected, r)
  /\ left' = [left EXCEPT ![r] = 1]
  /\ GoTo(r, "finish")
  /\ UNCHANGED <<world, stores, token, pos, attempts, page, given, processed,
                 notified, duplicates, skipped>>

\* Bug: a record below the threshold is not counted.
BugAdmit(r) ==
  /\ InPage(r)
  /\ ~Old(pos[r], cutoff[r])
  /\ processed[r] < limit[r]
  /\ collected' = Count(collected, r)
  /\ processed' = Count(processed, r)
  /\ IF MeetsThreshold(pos[r])
       THEN GoTo(r, "check") /\ UNCHANGED pos
       ELSE NextRecord(r) /\ UNCHANGED pc
  /\ UNCHANGED <<world, stores, token, attempts, page, given, left, notified,
                 duplicates, skipped>>

\* A record within the window and the limit counts as processed, whatever
\* becomes of it; below the threshold it is skipped.
Admit(r) ==
  /\ InPage(r)
  /\ ~Old(pos[r], cutoff[r])
  /\ processed[r] < limit[r]
  /\ collected' = Count(collected, r)
  /\ processed' = Count(processed, r)
  /\ \/ /\ MeetsThreshold(pos[r])
        /\ GoTo(r, "check")
        /\ UNCHANGED <<pos, skipped>>
     \/ /\ ~MeetsThreshold(pos[r])
        /\ skipped' = Count(skipped, r)
        /\ NextRecord(r)
        /\ UNCHANGED pc
  /\ UNCHANGED <<world, stores, token, attempts, page, given, left, notified,
                 duplicates>>

\* Bug: the ledger is not consulted.
BugCheckDelivered(r) ==
  /\ pc[r] = "check"
  /\ attempts' = [attempts EXCEPT ![r] = 0]
  /\ GoTo(r, "send")
  /\ UNCHANGED <<world, stores, token, pos, page, given, counters>>

\* was_delivered.  The analysis that follows cannot fail the run.
CheckDelivered(r) ==
  /\ pc[r] = "check"
  /\ \/ /\ Key(r) \in delivered
        /\ duplicates' = Count(duplicates, r)
        /\ NextRecord(r)
        /\ GoTo(r, "scan")
        /\ UNCHANGED attempts
     \/ /\ Key(r) \notin delivered
        /\ attempts' = [attempts EXCEPT ![r] = 0]
        /\ GoTo(r, "send")
        /\ UNCHANGED <<duplicates, pos>>
  /\ UNCHANGED <<world, stores, token, page, given, left, collected, processed,
                 notified, skipped>>

Post(k) == posts' = [posts EXCEPT ![k] = @ + 1]

\* A status other than 200 and 204, whenever this message is sent.
Refusing(r) == DiscordEnabled /\ pos[r] \in Refused

\* notifier.send returns; DisabledNotifier returns without posting.
Send(r) ==
  /\ pc[r] = "send"
  /\ ~Refusing(r)
  /\ IF DiscordEnabled THEN Post(Key(r)) ELSE UNCHANGED posts
  /\ GoTo(r, "mark")
  /\ UNCHANGED <<world, lastRow, delivered, token, pos, attempts, page, given,
                 counters>>

\* Bug: one attempt too many.
BugSendFails(r) ==
  /\ pc[r] = "send"
  /\ DiscordEnabled
  /\ ~Refusing(r)
  /\ Fault
  /\ Post(Key(r)) \/ UNCHANGED posts
  /\ attempts' = Count(attempts, r)
  /\ GoTo(r, IF attempts[r] < SendAttempts THEN "send" ELSE "failed")
  /\ UNCHANGED <<feed, clock, lastRow, delivered, token, pos, page, given,
                 counters>>

\* The client raises, and retries as it does after any exception.
Refuse(r) ==
  /\ pc[r] = "send"
  /\ Refusing(r)
  /\ attempts' = Count(attempts, r)
  /\ GoTo(r, IF attempts[r] + 1 < SendAttempts THEN "send" ELSE "failed")
  /\ UNCHANGED <<world, stores, token, pos, page, given, counters>>

\* One attempt of the webhook client fails, before or after Discord took the
\* message; the client retries any exception until its attempts are used up.
SendFails(r) ==
  /\ pc[r] = "send"
  /\ DiscordEnabled
  /\ ~Refusing(r)
  /\ Fault
  /\ Post(Key(r)) \/ UNCHANGED posts
  /\ attempts' = Count(attempts, r)
  /\ GoTo(r, IF attempts[r] + 1 < SendAttempts THEN "send" ELSE "failed")
  /\ UNCHANGED <<feed, clock, lastRow, delivered, token, pos, page, given,
                 counters>>

\* Bug: the insertion is not committed.
BugMarkDelivered(r) ==
  /\ pc[r] = "mark"
  /\ notified' = Count(notified, r)
  /\ NextRecord(r)
  /\ GoTo(r, "scan")
  /\ UNCHANGED <<world, stores, token, attempts, page, given, left, collected,
                 processed, duplicates, skipped>>

\* mark_delivered: ON CONFLICT DO NOTHING makes it a set insertion.
MarkDelivered(r) ==
  /\ pc[r] = "mark"
  /\ delivered' = delivered \cup {Key(r)}
  /\ notified' = Count(notified, r)
  /\ NextRecord(r)
  /\ GoTo(r, "scan")
  /\ UNCHANGED <<world, lastRow, posts, token, attempts, page, given, left,
                 collected, processed, duplicates, skipped>>

\* All records of the page are done: advance if there is a next page.
EndPage(r) ==
  /\ PageDone(r)
  /\ \/ /\ next[r] # 0
        /\ token' = [token EXCEPT ![r] = next[r]]
        /\ GoTo(r, "cursor")
     \/ /\ next[r] = 0
        /\ GoTo(r, "finish")
        /\ UNCHANGED token
  /\ UNCHANGED <<world, stores, pos, attempts, page, given, counters>>

\* save_cursor, then the loop condition.
SaveCursor(r) ==
  /\ pc[r] = "cursor"
  /\ lastRow' = [status |-> "running", token |-> token[r]]
  /\ GoTo(r, IF processed[r] >= limit[r] \/ pages[r] >= MaxPages
               THEN "finish" ELSE "fetch")
  /\ UNCHANGED <<world, delivered, posts, token, pos, attempts, page, given,
                 counters>>

\* Bug: the succeeded row is written without the page token.
BugSaveSuccess(r) ==
  /\ pc[r] = "finish"
  /\ lastRow' = [status |-> "succeeded", token |-> 0]
  /\ End(r)
  /\ UNCHANGED <<world, delivered, posts>>


SaveSuccess(r) ==
  /\ pc[r] = "finish"
  /\ lastRow' = [status |-> "succeeded", token |-> token[r]]
  /\ End(r)
  /\ UNCHANGED <<world, delivered, posts>>

-----------------------------------------------------------------------------
(* Failures *)

\* An awaited call other than send raises (latest() too, while starting);
\* the clients' own retries are used up by then.
Raise(r) ==
  /\ pc[r] \in {"idle", "fetch", "check", "mark", "cursor", "finish"}
  /\ Fault
  /\ GoTo(r, "failed")
  /\ UNCHANGED <<feed, clock, stores, token, pos, attempts, page, given,
                 counters>>

\* The handler of execute: the failed row has no last_page_token.
SaveFailure(r) ==
  /\ pc[r] = "failed"
  /\ lastRow' = [status |-> "failed", token |-> 0]
  /\ End(r)
  /\ UNCHANGED <<world, delivered, posts>>

\* save_failure raises as well and is suppressed: no row.
SuppressFailure(r) ==
  /\ pc[r] = "failed"
  /\ Fault
  /\ End(r)
  /\ UNCHANGED <<feed, clock, stores>>

\* The process dies, or the run is cancelled (CancelledError is no Exception):
\* no handler runs.
Crash(r) ==
  /\ pc[r] # "idle"
  /\ Fault
  /\ End(r)
  /\ UNCHANGED <<feed, clock, stores>>

-----------------------------------------------------------------------------
(* Environment *)

\* A detection becomes visible in the API, at or after it occurred.
Publish ==
  /\ feed < FeedSize
  /\ OccurTime[feed + 1] # NoTime => OccurTime[feed + 1] <= clock
  /\ feed' = feed + 1
  /\ UNCHANGED <<clock, faults, stores, locals>>

Tick ==
  /\ clock < MaxTime
  /\ clock' = clock + 1
  /\ UNCHANGED <<feed, faults, stores, locals>>

-----------------------------------------------------------------------------
Progress(r) ==
  \/ Start(r)   \/ FetchPage(r)      \/ SkipOld(r)     \/ StopAtLimit(r)
  \/ Admit(r)   \/ CheckDelivered(r) \/ Send(r)        \/ MarkDelivered(r)
  \/ EndPage(r) \/ SaveCursor(r)     \/ SaveSuccess(r) \/ SaveFailure(r)
  \/ Refuse(r)

Failure(r) == SendFails(r) \/ Raise(r) \/ SuppressFailure(r) \/ Crash(r)

Next ==
  \/ \E r \in Runners : Progress(r) \/ Failure(r)
  \/ Publish
  \/ Tick

Spec == Init /\ [][Next]_vars

\* Celery beat starts a run every interval and an await returns or raises;
\* nothing makes a failure, a new detection or a tick happen.
FairSpec == Spec /\ \A r \in Runners : WF_vars(Progress(r))

-----------------------------------------------------------------------------
(* Safety *)

\* A record the system owes nothing to: in the ledger, below the threshold,
\* or older than the backfill window.
Settled(d) ==
  \/ KeyOf[d] \in delivered
  \/ ~MeetsThreshold(d)
  \/ Old(d, clock - Window)

\* The page cursor never passes a detection that still has to be notified,
\* whatever runs overlap, fail or die: the next run that trusts the cursor
\* (latest(), collect_and_notify_detections.py:86) misses nothing.
CursorPassesOnlySettled == \A d \in 1..lastRow.token : Settled(d)

\* An entry of notification_deliveries means the channel got the message: the
\* ledger is written after send returned, never before.
LedgerImpliesPosted ==
  DiscordEnabled => \A k \in delivered : posts[k] > 0

\* A run's counters account for every record it looked at: those it dealt
\* with, the one in hand, and the one it left behind at the limit.
InHand(r) == IF pc[r] \in {"check", "send", "mark"} THEN 1 ELSE 0

CountersAddUp ==
  \A r \in Runners : pc[r] # "failed" =>
    /\ collected[r] = notified[r] + duplicates[r] + skipped[r] + InHand(r) + left[r]
    /\ notified[r] + duplicates[r] <= processed[r]
    /\ processed[r] <= limit[r]

\* Under one runner the stored cursor moves back only when a failed run is
\* recorded.  (True of one runner only: a run that read the cursor before
\* another one advanced it writes the older token at its end.)
OnlyFailureRewinds ==
  [][lastRow'.token < lastRow.token => lastRow'.status = "failed"]_lastRow

(* Liveness *)

\* Every published detection is notified, unless it is below the threshold or
\* leaves the backfill window first: the collector works its way through the
\* backlog and then keeps up with new records (task-spec.md:197-200).  A record
\* that Discord refuses holds up all that follow it, for every run fails there
\* and the next one starts over, but no longer than it is in the window.
EventuallySettled ==
  \A d \in Detections \ Refused :
    (d <= feed /\ \A e \in Refused : e < d => Settled(e)) ~> Settled(d)

=============================================================================

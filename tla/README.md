# Verification of eset-incident-ai

TLA+ models of the parts of `eset-incident-ai` where order, overlap and failure
matter, TLC configurations that check them on small instances, and TLAPS proofs
of what matters most. Paths below are relative to the repository; `app/` stands
for `src/eset_incident_ai/`.

The system polls two ESET APIs (detections and incidents), decides which records
are worth a notification, posts them to a Discord channel, and keeps in
PostgreSQL what it has posted and how far it has got. Everything it does is a
sequence of awaited calls to stores and services it does not control; nothing it
does is a transaction across two of them, and nothing excludes two executions
of the same use case at a time. What can go wrong lies between those calls, and
the models give every one of them a step of its own.

## Inventory

| component | state | operations | module |
|---|---|---|---|
| detections collector (`app/application/use_cases/collect_and_notify_detections.py`) | `detection_collection_runs`: one row per run and per page, with a page token; the locals of a run | hourly Celery task, `POST /detections/collect-and-notify` | `DetectionCollector` |
| incidents collector (`collect_and_notify_incidents.py`) | `collection_runs`: counts only, no cursor | daily Celery task, `POST /incidents/collect-and-notify`, `scripts/notify_latest_eset_incidents.py` | `IncidentCollector` |
| notification ledger and Discord client (`notification_repository.py`, `webhook_client.py`) | `notification_deliveries`: a set of keys; the channel | `was_delivered`, `send`, `mark_delivered` | `DeliveryProtocol` (abstract) |
| detection approvals (`review_pending_detection_approval.py`, `scripts/backfill_pending_detection_approvals.py`) | `pending_detection_approvals`: a status per row | approve, reject, backfill | `ApprovalReview` |
| incident approvals (`review_pending_approval.py`, `approval_repository.py`) | `pending_approvals`: a status and a payload per incident | save, approve, reject | `IncidentReview` |
| ESET client (`app/infrastructure/eset/`) | cached token, asyncio lock | token, login, request with retries | `EsetClient` |
| knowledge index (`vector_repository.py`, `app/rag/`, `scripts/ingest_knowledge.py`) | `knowledge_documents`, `knowledge_chunks` | ingest, search | `KnowledgeIndex`, search in `Analysis` |
| analysis gateway, output policy, severity (`app/infrastructure/llm/`, `app/security/output_policy.py`, `app/domain/enums/severity.py`) | none | pure functions | `Analysis` |
| sanitizer, message builders, queue payloads (`app/security/sanitizer.py`, `app/infrastructure/discord/`) | none | pure functions | `Messages` |
| agent graph (`app/agents/`) | a state dictionary, kept by whoever invokes it | eleven nodes, three routers | `AgentGraph`, driven by `IncidentWorkflow` |
| schema (`migrations/`, `scripts/bootstrap_db.sh`, every `_ensure_table`) | the tables, `alembic_version` | upgrade, downgrade, ensure | `SchemaMigration`, `Migrations` |
| settings and wiring (`app/api/dependencies.py`, `app/settings/config.py`) | environment | which notifier a use case gets; limits | constants; `Switch` and `Take` in `IncidentReview` |
| readiness, run history | none of their own | reads | not modelled |

How they interact. Both collectors, the reviewers and the script share one
table, `notification_deliveries`, and one channel, and follow the same three
steps: look the key up, send, record. That is the abstract specification
`DeliveryProtocol`; the collector and the review models are shown to implement
it. The detections collector and the reviewers meet on the same detections:
`ApprovalReview` contains the collector as a job of its own, `IncidentReview` does
the same for incidents. A collector that is given an analyzer, the script and
`POST /analyses/run` ask the knowledge index and the gateway for an analysis and build
a message with it or, if that raises, without. Today `app/api/dependencies.py:106-120`
and `141-155` build both collectors without an analyzer; `GoWithout` is their path and
`Analyse` the other. `IncidentWorkflow` composes `Messages`, `Analysis` and
`AgentGraph` into the life of one record. All repositories create their tables
themselves before each query, and an operator may run the migrations beside them:
`SchemaMigration`. The ESET client is
below both collectors; to them it is a call that returns a page or raises. The
knowledge index is filled by a script and read by searches.

What is hard here:

- overlap: schedule and API start runs independently, and the script works for
  hours beside people who review the same rows;
- partial failure: between any two calls the process may die, the run may be
  cancelled (`CancelledError` passes `except Exception`), a call may raise, and
  a post may reach the channel although the client saw an error;
- the cursor: a page token is stored after each page, by whoever comes last;
- liveness: a run must leave the stores so that the next one gets further;
- time: the backfill window moves, tokens expire while they are in use;
- versions: ESET updates incidents, so queue, collector and ledger may speak of
  different ones;
- distance: thresholds that must fit together stand in three files, and a field is
  looked up in one shape by the queue and in another by the builder;
- replacement: the rows of a document are deleted and inserted one by one while
  another run may do the same with other chunk sizes.

`PROJECT.json` lists each of these hazards at its line with the properties that
cover it, and the five no property covers with the reason.

## Modules

| module | models | notes |
|---|---|---|
| `DeliveryProtocol` | what every sender promises | workers claim a key missing from the ledger, announce it, record it or give up; `Fail` may post and may drop what is held |
| `DetectionCollector` | one use case, any number of `Runners` | one action per await |
| `DetectionDelivery` | the refinement of the collector to the protocol | a runner at `send` holds a claim, one at `mark` has announced |
| `ApprovalReview` | the queue with four jobs: approve, reject, backfill, collect | refinement inside |
| `IncidentCollector` | one use case, any number of `Runners`, with and without `updated_after` | pages are snapshots of versions |
| `EsetClient` | callers, cache, lock, clocks of client and server | |
| `IncidentReview` | approvals of incidents in several versions, the collector beside them, Discord switched on and off | |
| `SchemaMigration` | the script's one transaction and the repositories' `_ensure_table`, with PostgreSQL's locks | the chain of revisions is a parameter |
| `Migrations` | the seven revisions and what each repository ensures | the values of that parameter |
| `Messages` | what a message or payload shows of a record and what is left in it | operators |
| `Analysis` | severity, search, confidence, policy | operators |
| `AgentGraph` | nodes, routers, invocations | one action per node and edge |
| `IncidentWorkflow` | one record from the feed or a queue through the three modules above | composes them |
| `KnowledgeIndex` | runs of the ingest script, the chunker's loop, one transaction per document | one action per statement |
| `MC*` | instances for TLC | |
| `*Proofs` | theorems | |

How state corresponds to code, in `DetectionCollector`:

- `lastRow` is the newest row of `detection_collection_runs`; older rows are
  never read (`latest()` orders by `created_at DESC`, limit 1). A page token is
  the number of records before the page it names, and the absent token is 0: the
  feed is append-only and read oldest first, as the task specification of the
  ingestion establishes. A full page cannot be distinguished from a moved one in
  this abstraction; ESET's page tokens are opaque and assumed stable.
- `delivered` is `notification_deliveries`. `ON CONFLICT DO NOTHING` makes
  `mark_delivered` a set insertion.
- `posts` is the channel; no code reads it, only properties do.
- `pc[r]` names the awaited call a run is suspended in. `SkipOld`,
  `StopAtLimit`, `Admit` and `EndPage` are the code between awaits; `Start`
  contains `latest()` and the clock.
- `Raise`, `SaveFailure`, `SuppressFailure` and `Crash` are the handler of
  `execute`: an exception leads to a failed row without a token, unless
  `save_failure` raises too; a cancelled run or a dead process leaves nothing.
- `SendFails` is one attempt of the webhook client, which retries any exception;
  the message may have been posted all the same. `Refuse` is a send of a message
  Discord never takes, whatever the client tries; which records these are is the
  constant `Refused`. It needs no fault budget, so every run fails there.

`IncidentCollector` has the same skeleton without a cursor. ESET updates
incidents; the key contains `updateTime`, so `KeyOf` is a function of incident
and version, and `page` holds the versions a run was given with the page in hand. A
request may give an `updated_after`, kept in `since`: ESET then lists only incidents
whose `updateTime` is later (`Selects`), so a page is any stretch of the list that has
no more selected incidents than fit and is full or the last (`FillsPage`). The runners
in `Scheduled` are those of the schedule and the script, which give no time; the others
are requests. The token of the next page is the position in the list after the last
incident of this one, with and without a filter. `MaxLimit` names the largest limit a
run may be given.

`ApprovalReview` reads a row's status once (`Open`, `Backfill`) and writes it
with `WHERE status = 'pending'` (`Review`). The script continues with its next
row after a delivery failure; a request ends. `left` is a history variable: the rows
whose own delivery failed in the worker's last job, or that were still to do when it was
aborted. `BackfillDrains` excuses these and no other.

`IncidentReview` keeps per incident the status and the version in the row: `SavePending`
is the `ON CONFLICT` that replaces the payload and leaves the status alone. The payload is
what its caller read from ESET at some time, so `Write` takes any version there has been,
an older one than the row's too; `offered` remembers the versions the row has had while
it was pending. A use case
carries the notifier it was built with in `wired`, so that a restart with other
settings finds use cases of both kinds; `muted` remembers what was recorded by a
disabled notifier.

`SchemaMigration` has one action per DDL statement. `made` and `gone` are what a
session has created or dropped and not committed; `Locked` and `InTheMaking` are the
two ways PostgreSQL lets another session wait. A repository call is `_ensure_table`
with its own connection and commit, and then the query (`Use`) on another one. The
width of `alembic_version.version_num` is 32 as Alembic makes it, or 64 where an
operator has widened it; no `alembic.ini` is in the repository, the operator
supplies that too.

`Messages` reduces a value to where it comes from, the personal data in it, whether it
is JSON text, and its entries if it is a dict. That is enough to tell a sanitized
field from a raw one, a context from its text, and a field that was found from one
that was not. Personal data is classed by what the patterns of `sanitizer.py` make of it:

- `email`: what is masked wherever it stands, such as an address between blanks or
  `/home/name/`;
- `home`: `C:\Users\name\`, masked in plain text and not in JSON, where every
  backslash is two;
- `odd`: what no pattern matches, such as an address followed by a Korean particle,
  `C:\Users\name` without another backslash, or a name of two words;
- `accounts`: how many `DOMAIN\account` follow each other in a line with nothing but
  words between. The pattern for accounts refuses one before another backslash, so a
  pass masks the last of them only, and none in JSON.

So `Sanitize` is not idempotent, and a text that has been through it is not clean:
`TextsAreSanitized` says that every text of a message but the names (`AsIs`) has lost
what one pass takes out, and `QueueKeepsMessage` that a message from the queue is the
direct one with its texts sanitized once more. The notice the builder puts into every
message of a detection claims more ("email addresses and local user paths are
pseudonymized in free-text fields", `detection_notification_builder.py:72-76`), and that
is not so: the description of the message is the context, a dict is shown as JSON,
and `C:\Users\name\` in its `process.path` stays there while the field Object of the same
message masks it. No property states the notice, as none could hold.

`Analysis` counts in hundredths. `AgentGraph` keeps the state as a function on the
keys it has, since `total=False` makes absence matter to the routers; `Step` is a node
and its edge. `security_review_node` writes the key `passed` while the router reads
`pass`, as the model does: that branch to `reject` is dead. `Drive` and `Resume`
stand for a caller the repository does not have yet, for the graph as for
`OutputPolicy`. What is checked and proved of them (`NothingUngroundedPasses`,
`GatesAgree`, `GraveNeedsApproval`, `InvocationsEnd`) therefore holds of the graph alone.
The collectors ask nobody: they notify high and critical records without an approval,
although `src/README.md:5` and `SECURITY.md:15` still promise one.

`EsetClient` gives a token two clocks: `expires`, which the client computes when
the answer is in hand, and `dies`, which the server fixed when it issued it. Several
callers of one client are what its lock is for; in the application as it is wired
(`app/api/dependencies.py:91,126`) every use case has a client of its own, whose requests
come one after the other, so that the contention is hypothetical and one caller is what
occurs.

`KnowledgeIndex` identifies a document by path and content, since its id is made
of both; a content is an opaque value with a length, and a chunk a range of
positions in it. `stored` is what is committed, `by` (a history variable) the chunk size
and overlap of the run that stored it, and `gone` and `added` what an
open transaction has deleted and inserted so far. `Upsert` waits for any other
transaction with the same document, because `ON CONFLICT DO UPDATE` locks the
row even if it is not committed yet. `Chunk` is one round of the loop of
`TextChunker.chunk`; rows are numbered from 1 where `chunk_index` starts at 0.
Rows of a content that the file no longer has are never deleted, by the code and
by the model. `PassagesWhole` is about what is stored. A search returns excerpts of
1000 characters (`vector_repository.py:124`) where chunks have 1200 and overlap by 150
by default, so characters 1000 to 1049 of a chunk that is followed by another are in
no excerpt.

## Runs

| run | instance | question |
|---|---|---|
| `MCDetections_all` | 1 runner, 5 records, the first one refused by Discord until it leaves the window, 3 failures, limits 2 and 3, pages of 2, a page per run, window 1, clock to 2 | does one runner keep cursor, ledger and counters right, and does it get everywhere? |
| `MCDetections_overlap` | 2 runners, 3 records, 1 failure, limits 1 and 2 | is the cursor safe, and are extra messages explained, when runs overlap? |
| `MCDelivery_all` | 2 workers, 2 keys, 2 failures | does the protocol keep its promises? |
| `MCApprovals_all` | 2 workers with any of the four jobs, 2 rows, 2 failures | are approved rows in the ledger; does the script get through its list, but for the rows that fail? |
| `MCIncidents_all` | the scheduled run and a request with or without a filter, 3 incidents, limit 2, pages of 1, two incidents updated, one of them behind the limit, 1 failure | do the counts add up; what is the reach of a collector without cursor, and is all within it notified in its last version? |
| `MCEset_all` | 2 callers, tokens of 5 ticks, skew 2, hops of 1, clock to 8, 2 failures | does a request ever arrive with a dead token; does every call return? |
| `MCSchema_all` | the 7 revisions, an API process (collection runs, knowledge index) and a worker (collection runs), both widths, any number of upgrades and downgrades, kills at any time | is the recorded revision honest, does data of the application survive, is there a lock cycle? |
| `MCWorkflow_all` | detections and incidents with each field present, empty, absent or nested, five severity labels, indexes of 0 to 11 chunks, 3 invocations of the graph | has every text been sanitized; do queue and collector agree; do the thresholds fit? |
| `MCReview_all` | 2 workers, 1 incident in 2 versions, either of which `save_pending` may write, 1 switch of Discord, 1 failure | what does a verdict stand for; what can be missing from the channel? |
| `MCKnowledge_all` | 2 runs of the script, 2 files, an empty text and one of 7 characters, chunks of 3 with overlap 1 and of 5 with overlap 2, 1 change, 1 failure | is a committed document always the whole result of one run; does a run get through its list? |

The bounds. Two workers are the smallest number that interleaves, and every
property speaks of one key, one row or one record at a time, so a third only
repeats what two show; the theorems below hold for any number. Records: one that
falls out of the window while runs are under way, one without a usable
`occurTime`, one below the threshold, two that share a key: each branch of the
loop is taken by some record. Two pages are enough for a cursor to move, to be
reset and to be overtaken. Two failures are enough to use up the attempts of the
webhook client (2 in the instances, 4 in the code) or to fail twice in a row.
The 7 characters give three chunks of one size and two of the other, so that a
replacement has rows to leave behind.
The labels cover low, medium, grave and unknown severities with and without prefix, and
the indexes both sides of every threshold: no chunk, too few for the policy, enough,
more than are cited (5) and more than are searched (10), two equally similar. Three
invocations allow one that waits for an approval, one that is repeated
undecided, and one after the decision.
`MCDelivery_all` stops when every key is recorded, which is why deadlock is not
checked there. Every other run starts new work forever.

### Runs that TLC refutes

| run | property | what the code does |
|---|---|---|
| `MCDetections_livelock` | `EventuallySettled` | with a limit below the page size (the defaults are 500 and 1000) every run ends in the same page: duplicates count against the limit, the page is never completed, and the cursor stays |
| `MCSchema_bootstrap` | `BootstrapReachesHead` | the identifier of revision 006 has 36 characters and `version_num` holds 32: the one transaction of the upgrade is rolled back on every attempt |

Both properties are sentences of the repository's specifications, quoted in
`PROJECT.json`. The limit must be at least the page size for
`EventuallySettled`, and that is what `MCDetections_all` assumes; `MCSchema_all` has
both widths, so the rest of the schema's life is checked as well.

Other behaviours of the code that surprise at first are part of what the passing
properties say:

- a failed run's row has no token, so the next run starts at the first detection
  ever recorded (`OnlyFailureRewinds` allows that and nothing else, for one runner; of
  two overlapping runs the slower stores the older cursor last). Neither
  loses a notification: `CursorPassesOnlySettled` holds throughout.
- A crash between `send` and `mark_delivered`, or an ambiguous timeout, posts
  twice; `PostsExplained` bounds the copies by failures and workers.
- A row rejected while it is being approved is posted all the same. `RejectionSettles`
  says this is over once the approvals under way have ended.
- An approval may stand for another version than the one in the row, older or newer,
  since `save_pending` replaces the payload meanwhile by whatever its caller holds:
  `ApprovedImpliesRecorded` of `IncidentReview` promises a version the row had while it
  was pending, not that one.
- Of the incidents behind the limit the scheduled run notifies none, ever; a request can
  reach one that was updated after the time it gives (`HorizonIsLimit`).
- What is collected while Discord is off is recorded and never posted afterwards
  (`RecordedOrMuted`).
- An application that has created a table of a pending revision shuts the script out
  at that revision for good (theorem `OvertakenStays`).

## Fairness

Weak fairness of one worker's own steps is assumed everywhere: an await returns or
raises (all clients have timeouts), and the Celery schedule starts runs again
and again (`Start` belongs to what is fair for the runners of the detections collector and for
`Scheduled` of the incidents collector; a request, a script or an invocation of the graph
is never forced to begin). A refusal by
Discord is such a return, so `Refuse` is in `Progress` as well. No fairness is
assumed of failures, new records, ticks, updates, restarts or people. Strong
fairness is assumed where a queue of waiters is served in turn: `TakeLock` in
`EsetClient` (`asyncio.Lock` wakes in order), `Upsert` in `KnowledgeIndex` and the
statements of scripts and calls in `SchemaMigration` (PostgreSQL queues those who
wait for a row or table). `BootstrapSpec` has the script alone and weak fairness
of its steps. Failures are bounded by `MaxFaults`; liveness is a statement about what
happens once they cease.

## Proofs

All theorems hold for every value of the constants that satisfies the named
assumptions (`FeedAssumption`, `SettingsAssumption`, `RefinementAssumption`,
`ProtocolAssumption`, `ApprovalAssumption`, `IncidentAssumption`, `ClientAssumption`,
`LagAssumption`, `IndexAssumption`, `ReviewAssumption`, `SchemaAssumption`, `ChainAssumption`,
`WorkflowAssumption`), with any number of workers.

- `DetectionCollectorProofs!CursorIsSafe`. `CursorPassesOnlySettled` speaks of the
  stored cursor only and is not inductive: a runner may hold a token it has yet
  to store. The invariant adds, for each runner, that every record before its
  own token is settled, that every record before the one in hand is settled or
  before its token, that the page in hand starts at the token, and that the
  token of the next page is the end of this one. Settled records stay settled,
  because the ledger only grows and the window only moves forward: a lemma cited
  in every case.
- `DetectionCollectorProofs!LedgerIsHonest`: whoever is at `mark` has posted its key.
- `DetectionCollectorProofs!CountersRight`: `CountersAddUp` becomes inductive with the
  places where a runner has a record in hand or left one behind: `left` is 1
  only after `StopAtLimit`, and a record in hand has been counted but not settled.
- `DetectionCollectorProofs!RewindsExplained` assumes that all runners are one. The
  invariant says that a run's token is at or beyond the stored one, and the end of
  the page it works on at or beyond that. With two runners it is false, which is
  why the assumption is in the theorem and not in the module.
- `DetectionCollectorProofs!RunsGetOn` is the step from one run to the next of
  `EventuallySettled`: a run that ends without a failure has moved the stored cursor a
  page beyond the one it began with, or all there was when it began is settled. Where
  a run began is in two history variables (`began`, `held`), which only this module has
  and which no step reads. The hypothesis is a limit of at least a page: then a
  run cannot reach the limit in its first page, because it has processed no more
  records than it has passed there (`FirstPage`). Below a page the conclusion is
  false, as `MCDetections_livelock` shows. TLC has checked the invariant, `HistoryInv`, on
  the instance of `MCDetections_all` with limits of 1 to 3, two pages a run and one
  failure, and refutes it without the hypothesis.
- `DeliveryProtocolProofs!ProtocolBounded`: a key is posted at most once per
  worker and once per failure. The invariant counts: the posts of a key are at
  most the failures plus the workers that cannot claim it any more; claiming a key
  needs it absent from the ledger, and recording it closes it.
- `DetectionCollectorProofs!CollectorDelivers` and `ApprovalReviewProofs!ReviewDelivers`:
  initial states map to initial states and every step to a step of the protocol or
  to a stutter. `DuplicatesExplained`, `ReviewPostsExplained` and
  `IncidentPostsExplained` (of the incidents collector) then carry the promises of the
  protocol over to its three implementations without a new induction.
- `ApprovalReviewProofs!ApprovedAreRecorded`: whoever waits for the review of an
  approval has the key in the ledger. `VerdictsAreFinal` follows from the guard of the
  `UPDATE`.
- `IncidentCollectorProofs`: a run has no cursor, and the invariant ties its counts to
  its place instead: without a filter what is collected is the position in the list, and notified and duplicates together never exceed it, less the one in hand. `CountsRight`
  (the clamp `max(..., 0)` never acts), `HorizonHolds` and the types follow. For
  `HorizonHolds`: a run without a filter has counted every incident up to its position,
  which thus never exceeds the limit; what a run with a filter has in hand was updated
  after that filter, in the version of its page. `IncidentsDeliver` is the refinement of the protocol.
- `IncidentProofs`, its last part, about `IncidentReview`: the version an approval has in hand is one the row had
  while it was pending, because it was read from a pending row and `offered` only grows. The
  invariant keeps that for every approval under way, and the key in the ledger
  for those about to be reviewed (`ApprovalsRecorded`); whoever is at `mark` with the
  webhook has posted (`ChannelExplained`). `VerdictsKept` follows from the types and
  the guard of the `UPDATE`.
- `SchemaMigrationProofs` holds for every chain of revisions that satisfies
  `ChainAssumption`. The invariant follows the script's transaction: on the
  way up it has made what the revisions between `version` and `at` create plus the first
  `step` objects of the next (`Climbing`); on the way down it has dropped
  theirs and nothing else (`Descending`, `OwnDropped`); no two sessions have made
  the same object (`MadeOnce`); and a call's ensured objects are committed or in its own
  transaction (`Calling`, `Idling`). `VersionHonest`, `EnsuredFound` and
  `AppTablesStay` are parts or consequences of it. `OvertakenStays` needs a case
  for each way a table changes its owner.
- Its last part is about who waits for whom, the safety half of `EveryoneEnds`.
  `LocksHaveNoCycle` assumes `Ordered`: the revisions and the repositories create what they
  share in the same order, and a repository that adds a column ensures nothing else
  but its table. Then whoever waits while holding something wants an object
  that comes after all it holds (`Held`, with the invariant above), so that along the
  waits the wanted object gets later and later (`Depth`), and a group in which everybody
  waits for one of the group would have no latest. `LocksLetSomebodyGo` says it of
  the guards: while anybody is busy, the next statement of somebody is not held up
  by a lock. `Ready` lists the guards, ENABLED being out of reach.
  `RepositoryOrdered` finds the order in the seven revisions and the six
  repositories of `Migrations`, and `RepositoryGoesOn` draws the conclusion for this
  code. `Ordered` is a hypothesis of the theorems and not of the module:
  nothing in the code keeps a new repository from ensuring its tables the other way round.

- `IncidentProofs`, its first parts, about `IncidentWorkflow` and the modules it composes,
  for all records, indexes and any number of invocations:
  - `MessagesAreSanitized`, `QueueShowsTheSame` and `QueueHasTheSameKey` need little of the
    behaviour (`WorkflowInv`: a message is always the one built of what is in hand, with an
    analysis whose summary quotes the title) and much of the functions: what
    `SafeText` makes of any value has lost what a pass of the sanitizer takes out; of a
    text it has made it makes what `Sanitize` does, which need not be the same text; and
    a payload has every field the builder looks up.
    `WorkflowAssumption` says what ESET may list: values and entries of values with
    any personal data in them, but no personal data in identifiers and times. The latter
    is what the key needs: an address in a `uuid` would be pseudonymized in the queue
    and not in the feed.
  - `SearchRanks`: the search returns as many chunks as there are up to the limit, in
    descending order, ties as they were read, and leaves out none that is ahead of
    one returned. Each chunk has a rank, the number of chunks that are better; the
    ranks of n chunks are all of 0 to n-1 (`EveryRank`, by counting: an injection
    of n chunks into n ranks leaves none out).
  - `EvidenceComesFirst`, `GraphAgreesWithPolicy`, `GraveWaits` and `WorkflowTypes` rest on
    `WorkflowIInv`. Its part `GraphInv` says which nodes an invocation can have
    reached, given the confidence and the policy's decision: none behind the critique
    below 65, the approval only where the policy asks for one, and none behind the
    approval but with the verdict that lets it pass. The analyses that occur
    satisfy `Grounded`: without evidence the confidence is at most 60. A state may
    have been through earlier invocations, so `GoodState` says which of its keys are
    never touched and that a verdict is one of the four there are.
  - `NoNodeTwice`: what an invocation may have behind it at each node (`Behind`). The
    retry of the critique is never taken, so no edge leads back, and an invocation has
    ended after ten nodes: with fairness of `Step` that is `InvocationsEnd`.
- `EsetClientProofs!LockFollowsLogin`: the lock is held by whoever is logging in and by
  nobody else, after answers, failures and cancellations alike, so that nobody waits
  for a lock that is lost; it is inductive with the types. `CacheGetsFresher`: the
  token in the cache is never replaced by an older one. A login sends its request under
  the lock, so the cached token was issued before (`CacheOlder`).
- `EsetClientProofs!TokensOutliveRequests`: no request arrives with a dead token if
  `LagAssumption` holds, that is if the skew of 60 seconds covers the longest login
  and the longest request together. The invariant keeps the account: the client
  overestimates the life of the cached token by at most the time of its login; a
  login under way is in time, and what it was issued is fresh; a request under
  way carries a token that outlives the longest request. `LoginsAreNeeded` is
  inductive with the types: whoever logs in holds the lock, so nobody else fills
  the cache meanwhile.
- `KnowledgeIndexProofs!PassagesAreFound`, `NoChunkIsLeftOver` and `InsertionsAreFree`
  rest on one invariant, `IndexInv`. `PassagesWhole` says nothing of rows that are not
  committed yet, so the invariant follows a document from the file to the commit:
  in the chunker's loop every passage before the next chunk is found, and the
  next chunk reaches further than all before it (lemmas `AnotherRound` and
  `LastRound`, about sequences alone); after the loop the chunks are whole; an
  open transaction has deleted exactly the committed rows and inserted a prefix
  of its chunks; and no two transactions have the same document, which is what
  keeps the committed rows where they are between `Delete` and `Commit`.

Only model-checked: liveness (`EventuallySettled`, `BackfillDrains`, `EventuallyNotified`,
`CallsReturn`, `ListIsIndexed`, `EveryoneEnds`, `InvocationsEnd`, `RejectionSettles`), since the
provers handle neither fairness under quantifiers nor ENABLED. Every safety
invariant and every action property that a run checks has its theorem. No module that is
proved about has a recursive operator: the chunker is a loop of steps, and the search
names the chunk of each rank where the code sorts.

## Not modelled

- Wording, layout and the cut to a length of messages; the regular expressions of the
  sanitizer beyond the classes of text they match; the prose of an analysis, except
  for what it quotes. They carry no state, and their properties are about single
  strings.
- Embeddings and cosine similarity are floating point: `Search` is given the
  similarities. A search reads committed rows, so the properties of `stored` are what
  it can see. Titles and metadata of documents follow from path and content.
- The static `ESET_ACCESS_TOKEN`, which the client trusts for an hour whatever its age,
  and `get_incident`, which has no caller.
- `save_pending` of detections has no caller. What it writes is modelled
  (`DetectionPayload`), and so is that of incidents; when it runs beside a review is
  modelled for incidents only.
- `RiskScoringService` is called by nothing.
- Readiness, the run history and the listings of queues read and change nothing. The
  other routes and the Celery tasks call one use case each. Wiring constructs objects;
  of the settings the models have those that change behaviour, as constants.
- Container files install and start.
- A detection without a context gets `None`, as text, for a summary, and that raises the
  confidence as any summary does. `FromDetection` reproduces this, and no property
  speaks of it.
- Removed and changed files leave their old rows in the index; no document promises
  otherwise, so no property does. The same holds for the limit of 0, which the script
  takes for 1.

What the plan has left: for the other liveness properties (`BackfillDrains`, `CallsReturn`,
`ListIsIndexed`, `RejectionSettles`) a theorem about the step below, as `RunsGetOn`,
`NoNodeTwice` and `LocksLetSomebodyGo` are for theirs. A caller of the agent graph can be
modelled as soon as the application has one.

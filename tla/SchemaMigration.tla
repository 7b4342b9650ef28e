--------------------------- MODULE SchemaMigration ---------------------------
(***************************************************************************)
(* Two ways the tables of the database come to be.  scripts/bootstrap_db.sh *)
(* runs "alembic upgrade head": all pending revisions in one transaction   *)
(* (migrations/env.py), with CREATE TABLE that insists on a new table.      *)
(* And every method of a PostgreSQL repository first runs CREATE TABLE IF  *)
(* NOT EXISTS, in a transaction of its own, before it opens the one with   *)
(* its query.  Nothing orders the two: an operator runs the script by hand *)
(* beside an API and a worker that may be up.                              *)
(*                                                                         *)
(* A table or column is an object.  The chain of revisions is a parameter  *)
(* (module Migrations has the one of the repository).  Locks are those of  *)
(* PostgreSQL: who creates a table somebody else has created but not yet   *)
(* committed waits, and fails if that commits, IF NOT EXISTS or not; who   *)
(* changes or reads a table waits for those who are changing it.           *)
(***************************************************************************)
EXTENDS Naturals, Sequences

CONSTANTS
  Sessions,  \* repository calls under way at a time
  Alembic,   \* the session of the script
  Objects,   \* tables and columns
  TableOf,   \* the table of a column; a table itself
  LastRevision,      \* number of revisions
  Makes,     \* what upgrade() of a revision creates, in order
  Drops,     \* what downgrade() drops, in order
  IdLength,  \* length of the revision identifiers
  Widths,    \* widths alembic_version.version_num may have
  Needs,     \* what a repository ensures, in order
  Calls,     \* the repositories a session may call
  NoCall

Revisions == 1..LastRevision
Elements(seq) == {seq[i] : i \in DOMAIN seq}
Content(n) == Elements(Makes[n])
IsTable(o) == TableOf[o] = o

ASSUME SchemaAssumption ==
  /\ Alembic \notin Sessions
  /\ LastRevision \in Nat \ {0}
  /\ TableOf \in [Objects -> Objects]
  /\ Makes \in [Revisions -> Seq(Objects)]
  /\ Drops \in [Revisions -> Seq(Objects)]
  /\ IdLength \in [Revisions -> Nat]
  /\ Widths \subseteq Nat
  /\ Needs \in [DOMAIN Needs -> Seq(Objects)]
  /\ Calls \in [Sessions -> SUBSET DOMAIN Needs]
  /\ NoCall \notin DOMAIN Needs

\* Every object has one revision, that creates it once and drops it; a column
\* comes in a later revision than its table.
ASSUME ChainAssumption ==
  /\ \A n \in Revisions : Elements(Drops[n]) = Content(n)
  /\ \A n \in Revisions : \A i, j \in DOMAIN Makes[n] :
       Makes[n][i] = Makes[n][j] => i = j
  /\ \A m, n \in Revisions : m # n => Content(m) \cap Content(n) = {}
  /\ \A n \in Revisions : \A o \in Content(n) :
       ~IsTable(o) => \E m \in 1..n - 1 : TableOf[o] \in Content(m)

\* Revisions and repositories create what they have in common in the same order,
\* and a repository that adds a column has nothing but its table beside it.
Ordered(rank, top) ==
  /\ top \in Nat
  /\ rank \in [Objects -> 0..top]
  /\ \A n \in Revisions : \A i, j \in DOMAIN Makes[n] :
       i < j => rank[Makes[n][i]] < rank[Makes[n][j]]
  /\ \A m, n \in Revisions : m < n =>
       \A o \in Content(m), p \in Content(n) : rank[o] < rank[p]
  /\ \A c \in DOMAIN Needs : \A i, j \in DOMAIN Needs[c] :
       i < j => rank[Needs[c][i]] < rank[Needs[c][j]]
  /\ \A c \in DOMAIN Needs : \A i \in DOMAIN Needs[c] :
       ~IsTable(Needs[c][i]) =>
         i = Len(Needs[c]) /\ Elements(Needs[c]) \subseteq {Needs[c][i], TableOf[Needs[c][i]]}

VARIABLES
  owner,    \* who created an object that is committed: "app", "alembic" or "none"
  version,  \* the revision in alembic_version, 0 for none
  width,    \* the width of its column
  made,     \* what a session has created and not committed
  gone,     \* what the script has dropped and not committed
  mode,     \* what the script is doing: "idle", "up" or "down"
  at,       \* the revision its transaction has reached
  step,     \* statements of the next revision it has run
  pc,       \* where a repository call is
  call,     \* the repository
  done,     \* objects it has ensured
  swept     \* history: a downgrade was committed during the call

script == <<mode, at, step>>
calls == <<pc, call, done, swept>>
vars == <<owner, version, width, made, gone, script, calls>>

Tables == {o \in Objects : owner[o] # "none"}

TypeOK ==
  /\ owner \in [Objects -> {"none", "app", "alembic"}]
  /\ version \in 0..LastRevision
  /\ width \in Widths
  /\ made \in [Sessions \cup {Alembic} -> SUBSET Objects]
  /\ gone \in SUBSET Objects
  /\ mode \in {"idle", "up", "down"}
  /\ at \in 0..LastRevision
  /\ step \in Nat
  /\ mode = "idle" => at = 0 /\ step = 0 /\ gone = {} /\ made[Alembic] = {}
  /\ pc \in [Sessions -> {"idle", "ensure", "blocked", "use"}]
  /\ call \in [Sessions -> DOMAIN Needs \cup {NoCall}]
  /\ done \in [Sessions -> Nat]
  /\ swept \in [Sessions -> BOOLEAN]

Init ==
  /\ owner = [o \in Objects |-> "none"]
  /\ version = 0
  /\ width \in Widths
  /\ made = [s \in Sessions \cup {Alembic} |-> {}]
  /\ gone = {}
  /\ mode = "idle"
  /\ at = 0 /\ step = 0
  /\ pc = [s \in Sessions |-> "idle"]
  /\ call = [s \in Sessions |-> NoCall]
  /\ done = [s \in Sessions |-> 0]
  /\ swept = [s \in Sessions |-> FALSE]

-----------------------------------------------------------------------------
(* Locks *)

\* Somebody else has created the object and not committed it.
InTheMaking(o, s) == \E t \in (Sessions \cup {Alembic}) \ {s} : o \in made[t]

\* Somebody else holds the object's table, because of an uncommitted change.
Locked(o, s) ==
  \E p \in Objects :
    /\ TableOf[p] = TableOf[o]
    /\ InTheMaking(p, s) \/ (p \in gone /\ s # Alembic)

-----------------------------------------------------------------------------
(* The script *)

\* "alembic upgrade head" with revisions pending.
BeginUpgrade ==
  /\ mode = "idle"
  /\ version < LastRevision
  /\ mode' = "up"
  /\ at' = version
  /\ step' = 0
  /\ UNCHANGED <<owner, version, width, made, gone, calls>>

\* "alembic downgrade" to an older revision: which one shows when it commits.
BeginDowngrade ==
  /\ mode = "idle"
  /\ version > 0
  /\ mode' = "down"
  /\ at' = version
  /\ step' = 0
  /\ UNCHANGED <<owner, version, width, made, gone, calls>>

\* The transaction ends without effect.
Rollback ==
  /\ made' = [made EXCEPT ![Alembic] = {}]
  /\ gone' = {}
  /\ mode' = "idle"
  /\ at' = 0 /\ step' = 0
  /\ UNCHANGED <<owner, version, width, calls>>

Upgrading == mode = "up" /\ at < LastRevision
NextMade == Makes[at + 1][step + 1]

\* op.create_table, op.add_column: the object must be new.
Make ==
  /\ Upgrading
  /\ step < Len(Makes[at + 1])
  /\ ~InTheMaking(NextMade, Alembic)
  /\ IsTable(NextMade) \/ ~Locked(NextMade, Alembic)
  /\ NextMade \notin Tables
  /\ made' = [made EXCEPT ![Alembic] = @ \cup {NextMade}]
  /\ step' = step + 1
  /\ UNCHANGED <<owner, version, width, gone, mode, at, calls>>

\* Bug: the object is taken as it is, as CREATE TABLE IF NOT EXISTS would do.
BugMakeFails ==
  /\ Upgrading
  /\ step < Len(Makes[at + 1])
  /\ NextMade \in Tables
  /\ step' = step + 1
  /\ UNCHANGED <<owner, version, width, made, gone, mode, at, calls>>

MakeFails ==
  /\ Upgrading
  /\ step < Len(Makes[at + 1])
  /\ NextMade \in Tables
  /\ Rollback

\* op.drop_table, op.drop_column; a table takes its columns with it.
Drop ==
  /\ mode = "down"
  /\ at > 0
  /\ step < Len(Drops[at])
  /\ LET o == Drops[at][step + 1] IN
       /\ ~Locked(o, Alembic)
       /\ gone' = gone \cup {p \in Tables : p = o \/ TableOf[p] = o}
  /\ step' = step + 1
  /\ UNCHANGED <<owner, version, width, made, mode, at, calls>>

\* The revision is done: version_num is set in the same transaction.  The
\* first revision's downgrade leaves none to set.
Stamp ==
  /\ mode # "idle"
  /\ at # (IF mode = "up" THEN LastRevision ELSE 0)
  /\ LET n == IF mode = "up" THEN at + 1 ELSE at
         statements == IF mode = "up" THEN Makes[n] ELSE Drops[n]
         stamped == IF mode = "up" THEN n ELSE n - 1
     IN /\ step = Len(statements)
        /\ stamped > 0 => IdLength[stamped] <= width
        /\ at' = stamped
  /\ step' = 0
  /\ UNCHANGED <<owner, version, width, made, gone, mode, calls>>

\* "value too long for type character varying": only on the way up, since a
\* revision that was reached has an identifier that fits.
StampFails ==
  /\ Upgrading
  /\ step = Len(Makes[at + 1])
  /\ IdLength[at + 1] > width
  /\ Rollback

\* What the transaction has made and dropped becomes the schema.
Land ==
  /\ owner' = [o \in Objects |->
                 IF o \in made[Alembic] THEN "alembic"
                 ELSE IF o \in gone THEN "none" ELSE owner[o]]
  /\ made' = [made EXCEPT ![Alembic] = {}]
  /\ gone' = {}
  /\ swept' = [s \in Sessions |-> swept[s] \/ (mode = "down" /\ pc[s] # "idle")]
  /\ UNCHANGED <<width, pc, call, done>>

Arrived == step = 0 /\ IF mode = "up" THEN at = LastRevision ELSE at < version

\* Bug: every revision is committed on its own, but the version at the end.
BugCommit ==
  /\ mode # "idle"
  /\ at # version
  /\ step = 0
  /\ Land
  /\ version' = IF Arrived THEN at ELSE version
  /\ mode' = IF Arrived THEN "idle" ELSE mode
  /\ at' = IF Arrived THEN 0 ELSE at
  /\ step' = 0

Commit ==
  /\ mode # "idle"
  /\ Arrived
  /\ Land
  /\ version' = at
  /\ mode' = "idle"
  /\ at' = 0 /\ step' = 0

\* The connection is lost or the script is killed.
Abort == mode # "idle" /\ Rollback

-----------------------------------------------------------------------------
(* A repository call: ensure, commit, query *)

Object(s) == Needs[call[s]][done[s] + 1]
Ensuring(s) == pc[s] = "ensure" /\ done[s] < Len(Needs[call[s]])
Holds(s) == Tables \cup made[s]
GoTo(s, place) == pc' = [pc EXCEPT ![s] = place]

End(s) ==
  /\ GoTo(s, "idle")
  /\ made' = [made EXCEPT ![s] = {}]
  /\ done' = [done EXCEPT ![s] = 0]
  /\ swept' = [swept EXCEPT ![s] = FALSE]
  /\ call' = [call EXCEPT ![s] = NoCall]
  /\ UNCHANGED <<owner, version, width, gone, script>>

Begin(s) ==
  /\ pc[s] = "idle"
  /\ GoTo(s, "ensure")
  /\ \E c \in Calls[s] : call' = [call EXCEPT ![s] = c]
  /\ UNCHANGED <<owner, version, width, made, gone, script, done, swept>>

\* The object is there, or is created.
Ensured(s) ==
  /\ made' = IF Object(s) \in Tables THEN made
             ELSE [made EXCEPT ![s] = @ \cup {Object(s)}]
  /\ done' = [done EXCEPT ![s] = @ + 1]
  /\ GoTo(s, "ensure")
  /\ UNCHANGED <<owner, version, width, gone, script, call, swept>>

\* CREATE TABLE IF NOT EXISTS looks for the table first, without a lock.
EnsureTable(s) ==
  /\ Ensuring(s)
  /\ IsTable(Object(s))
  /\ Object(s) \in Tables \/ ~InTheMaking(Object(s), s)
  /\ Ensured(s)

\* It is not there, but somebody else is creating it.
Block(s) ==
  /\ Ensuring(s)
  /\ IsTable(Object(s))
  /\ Object(s) \notin Tables
  /\ InTheMaking(Object(s), s)
  /\ GoTo(s, "blocked")
  /\ UNCHANGED <<owner, version, width, made, gone, script, call, done, swept>>

\* Bug: who has waited takes the table for granted.
BugUnblock(s) ==
  /\ pc[s] = "blocked"
  /\ ~InTheMaking(Object(s), s)
  /\ done' = [done EXCEPT ![s] = @ + 1]
  /\ GoTo(s, "ensure")
  /\ UNCHANGED <<owner, version, width, made, gone, script, call, swept>>

\* The other transaction is over: if it was rolled back the table is created
\* now, else it exists after all and that is an error.
Unblock(s) ==
  /\ pc[s] = "blocked"
  /\ ~InTheMaking(Object(s), s)
  /\ \/ Object(s) \notin Tables /\ Ensured(s)
     \/ Object(s) \in Tables /\ End(s)

\* ALTER TABLE ADD COLUMN IF NOT EXISTS looks once it has the table's lock.
EnsureColumn(s) ==
  /\ Ensuring(s)
  /\ ~IsTable(Object(s))
  /\ ~Locked(Object(s), s)
  /\ \/ TableOf[Object(s)] \in Holds(s) /\ Ensured(s)
     \/ TableOf[Object(s)] \notin Holds(s) /\ End(s)

\* The end of _ensure_table: its connection commits.
CommitEnsure(s) ==
  /\ pc[s] = "ensure"
  /\ done[s] = Len(Needs[call[s]])
  /\ owner' = [o \in Objects |-> IF o \in made[s] THEN "app" ELSE owner[o]]
  /\ made' = [made EXCEPT ![s] = {}]
  /\ GoTo(s, "use")
  /\ UNCHANGED <<version, width, gone, script, call, done, swept>>

\* The query of the method, on another connection.
Use(s) ==
  /\ pc[s] = "use"
  /\ \A o \in Elements(Needs[call[s]]) : ~Locked(o, s)
  /\ End(s)

\* The process dies or the call is cancelled.
Die(s) == pc[s] # "idle" /\ End(s)

-----------------------------------------------------------------------------
Script == Make \/ MakeFails \/ Drop \/ Stamp \/ StampFails \/ Commit

Progress(s) ==
  \/ EnsureTable(s) \/ Block(s) \/ Unblock(s) \/ EnsureColumn(s)
  \/ CommitEnsure(s) \/ Use(s)

Next ==
  \/ BeginUpgrade \/ BeginDowngrade \/ Script \/ Abort
  \/ \E s \in Sessions : Begin(s) \/ Progress(s) \/ Die(s)

Spec == Init /\ [][Next]_vars

\* Statements end; PostgreSQL serves those who wait for a lock in their order.
\* Nothing makes anybody begin, fail or die.
FairSpec ==
  /\ Spec
  /\ SF_vars(Script)
  /\ \A s \in Sessions : SF_vars(Progress(s))

\* The script on a database of its own, and nobody interrupts it.
BootstrapSpec == Init /\ [][BeginUpgrade \/ Script]_vars /\ WF_vars(Script)

-----------------------------------------------------------------------------
Through(n) == UNION {Content(m) : m \in 1..n}

\* alembic_version is honest: what the script has created is exactly what the
\* revisions up to the recorded one create, no table of theirs is one that the
\* application made, and no revision is there by half.
VersionIsHonest == {o \in Objects : owner[o] = "alembic"} = Through(version)

\* A pending revision creates a table that the application has created first.
Overtaken(n) == n > version /\ \E o \in Content(n) : IsTable(o) /\ owner[o] = "app"

\* The application runs first and the script never gets past the revision that
\* creates the same table, whatever is upgraded or downgraded afterwards.
OvertakenForGood == [][\A n \in Revisions : Overtaken(n) => Overtaken(n)']_vars

\* What the application created, with the rows in it, no downgrade drops: the
\* only tables a downgrade finds are those an upgrade has created.
AppTablesKept ==
  [][\A o \in Objects : IsTable(o) /\ owner[o] = "app" => owner'[o] = "app"]_owner

\* What a call has ensured is there when it alters or queries it, columns
\* included, unless a downgrade comes between its two transactions.
EnsuredIsFound ==
  \A s \in Sessions : pc[s] # "idle" /\ ~swept[s] =>
    \A i \in 1..done[s] : Needs[call[s]][i] \in Holds(s)

\* Nobody waits for ever: the lock order of scripts and calls has no cycle.
EveryoneEnds ==
  /\ mode # "idle" ~> mode = "idle"
  /\ \A s \in Sessions : pc[s] # "idle" ~> pc[s] = "idle"

\* bootstrap_db.sh brings an empty database to the head of the chain: revision
\* 007 "creates pending_detection_approvals ... and detection_collection_runs"
\* (docs/specs/eset-detections-ingestion/architecture-review.md:62-64).
BootstrapReachesHead == mode = "up" ~> version = LastRevision

=============================================================================

----------------------- MODULE SchemaMigrationProofs ------------------------
(***************************************************************************)
(* Proofs about the schema, for any chain of revisions, any repositories   *)
(* and any number of calls beside the script.                              *)
(***************************************************************************)
EXTENDS SchemaMigration, Migrations, WellFoundedInduction, TLAPS

Everyone == Sessions \cup {Alembic}
FirstOf(seq, n) == {seq[i] : i \in 1..n}

(***************************************************************************)
(* The chain.                                                              *)
(***************************************************************************)
LEMMA SeqFacts ==
  ASSUME NEW S, NEW seq \in Seq(S)
  PROVE  /\ Len(seq) \in Nat
         /\ Elements(seq) = FirstOf(seq, Len(seq))
         /\ Elements(seq) \subseteq S
         /\ FirstOf(seq, 0) = {}
         /\ \A n \in Nat : n < Len(seq) =>
              /\ seq[n + 1] \in Elements(seq)
              /\ FirstOf(seq, n + 1) = FirstOf(seq, n) \cup {seq[n + 1]}
<1>1. /\ Len(seq) \in Nat /\ DOMAIN seq = 1..Len(seq)
      /\ \A i \in 1..Len(seq) : seq[i] \in S
  OBVIOUS
<1>2. ASSUME NEW n \in Nat, n < Len(seq)
      PROVE  /\ n + 1 \in 1..Len(seq)
             /\ 1..n + 1 = 1..n \cup {n + 1}
  BY <1>1, <1>2
<1>3. ASSUME NEW n \in Nat, n < Len(seq)
      PROVE  FirstOf(seq, n + 1) = FirstOf(seq, n) \cup {seq[n + 1]}
  BY <1>2, <1>3, Zenon DEF FirstOf
<1>4. FirstOf(seq, 0) = {}
  BY DEF FirstOf
<1>5. QED BY <1>1, <1>2, <1>3, <1>4 DEF Elements, FirstOf

LEMMA OneMore ==
  ASSUME NEW S, NEW seq \in Seq(S), NEW n \in Nat, n < Len(seq)
  PROVE  /\ seq[n + 1] \in Elements(seq)
         /\ FirstOf(seq, n + 1) = FirstOf(seq, n) \cup {seq[n + 1]}
         /\ n + 1 <= Len(seq)
<1>1. Len(seq) \in Nat
  OBVIOUS
<1>2. n + 1 <= Len(seq)
  BY <1>1
<1>3. QED BY <1>2, SeqFacts

LEMMA ContentIsObjects ==
  ASSUME NEW n \in Revisions
  PROVE  /\ Content(n) \subseteq Objects
         /\ Content(n) = Elements(Drops[n])
         /\ Makes[n] \in Seq(Objects) /\ Drops[n] \in Seq(Objects)
BY SchemaAssumption, ChainAssumption, SeqFacts DEF Content

LEMMA ThroughNext ==
  ASSUME NEW n \in Nat, n < LastRevision
  PROVE  Through(n + 1) = Through(n) \cup Content(n + 1)
<1>1. 1..n + 1 = 1..n \cup {n + 1}
  OBVIOUS
<1>2. QED BY <1>1, Zenon DEF Through

LEMMA ThroughNone == Through(0) = {}
<1>1. 1..0 = {}
  OBVIOUS
<1>2. QED BY <1>1 DEF Through

LEMMA NotYet ==
  ASSUME NEW n \in Revisions
  PROVE  Through(n - 1) \cap Content(n) = {}
<1>1. \A m \in 1..n - 1 : m \in Revisions /\ m # n
  BY SchemaAssumption DEF Revisions
<1>2. \A m \in 1..n - 1 : Content(m) \cap Content(n) = {}
  BY <1>1, ChainAssumption
<1>3. QED BY <1>2, Zenon DEF Through

\* A column that is there at a revision is not one of a table this revision
\* makes.
LEMMA ColumnsFollow ==
  ASSUME NEW n \in Revisions, NEW o \in Content(n), NEW p \in Through(n),
         TableOf[p] = o
  PROVE  p = o
<1>1. PICK k \in 1..n : p \in Content(k)
  BY DEF Through
<1>2. k \in Revisions
  BY <1>1, SchemaAssumption DEF Revisions
<1>3. SUFFICES ASSUME p # o PROVE FALSE
  OBVIOUS
<1>4. PICK m \in 1..k - 1 : o \in Content(m)
  BY <1>1, <1>2, <1>3, ChainAssumption DEF IsTable
<1>5. m \in Revisions /\ m # n
  BY <1>1, <1>2, <1>4, SchemaAssumption DEF Revisions
<1>6. QED BY <1>4, <1>5, ChainAssumption

(***************************************************************************)
(* The invariant.                                                          *)
(***************************************************************************)
\* No object is created by two sessions, and none that is there is created.
MadeOnce ==
  /\ \A s, t \in Everyone : s # t => made[s] \cap made[t] = {}
  /\ \A s \in Everyone : made[s] \cap Tables = {}

\* What the script's transaction has done so far.
Climbing ==
  mode = "up" =>
    /\ gone = {}
    /\ at = LastRevision => step = 0
    /\ at < LastRevision => step <= Len(Makes[at + 1])
    /\ Through(version) \cup made[Alembic]
         = Through(at) \cup FirstOf(Makes[at + 1], step)

Descending ==
  mode = "down" =>
    /\ made[Alembic] = {}
    /\ at <= version
    /\ at = 0 => step = 0
    /\ at > 0 => step <= Len(Drops[at])
    /\ Through(version) \ gone = Through(at) \ FirstOf(Drops[at], step)

\* It drops no table but its own.
OwnDropped == \A p \in gone : IsTable(p) => owner[p] = "alembic"

Calling ==
  \A s \in Sessions : pc[s] # "idle" =>
    /\ call[s] \in DOMAIN Needs
    /\ done[s] <= Len(Needs[call[s]])
    /\ pc[s] = "blocked" => done[s] < Len(Needs[call[s]])

Idling == \A s \in Sessions : pc[s] = "idle" => done[s] = 0

Inv ==
  /\ TypeOK
  /\ MadeOnce
  /\ Climbing
  /\ Descending
  /\ OwnDropped
  /\ Calling
  /\ Idling
  /\ VersionIsHonest
  /\ EnsuredIsFound

LEMMA InvInit == Init => Inv
<1> SUFFICES ASSUME Init PROVE Inv
  OBVIOUS
<1>1. TypeOK
  BY SchemaAssumption DEF Init, TypeOK
<1>2. MadeOnce /\ OwnDropped /\ Calling /\ Idling /\ EnsuredIsFound
  BY DEF Init, MadeOnce, OwnDropped, Calling, Idling, EnsuredIsFound, Everyone
<1>3. Climbing /\ Descending
  BY DEF Init, Climbing, Descending
<1>4. VersionIsHonest
  BY ThroughNone DEF Init, VersionIsHonest
<1>5. QED BY <1>1, <1>2, <1>3, <1>4 DEF Inv

(***************************************************************************)
(* The forms a step can have.                                              *)
(***************************************************************************)
\* An object is ensured that is there or that nobody else is creating.
Takes(s) ==
  /\ pc[s] # "idle"
  /\ done[s] < Len(Needs[call[s]])
  /\ Object(s) \in Tables \/ ~InTheMaking(Object(s), s)
  /\ Ensured(s)

LEMMA ObjectIsObject ==
  ASSUME Inv, NEW s \in Sessions, pc[s] # "idle", done[s] < Len(Needs[call[s]])
  PROVE  Object(s) \in Objects /\ done[s] + 1 <= Len(Needs[call[s]])
<1>1. call[s] \in DOMAIN Needs /\ done[s] \in Nat
  BY DEF Inv, Calling, TypeOK
<1>2. Needs[call[s]] \in Seq(Objects)
  BY <1>1, SchemaAssumption
<1>3. Needs[call[s]][done[s] + 1] \in Objects
  BY <1>1, <1>2, SeqFacts
<1>4. QED BY <1>1, <1>2, <1>3, SeqFacts DEF Object

LEMMA Forms ==
  ASSUME Inv, Next
  PROVE  \/ BeginUpgrade \/ BeginDowngrade \/ Make \/ Drop \/ Stamp \/ Commit
         \/ Rollback
         \/ \E s \in Sessions :
              Begin(s) \/ Block(s) \/ End(s) \/ Takes(s) \/ CommitEnsure(s)
<1>1. CASE \/ BeginUpgrade \/ BeginDowngrade \/ Script \/ Abort
  BY <1>1 DEF Script, MakeFails, StampFails, Abort
<1>2. ASSUME NEW s \in Sessions, EnsureTable(s)
      PROVE  Takes(s)
  BY <1>2 DEF EnsureTable, Ensuring, Takes
<1>3. ASSUME NEW s \in Sessions, Unblock(s)
      PROVE  Takes(s) \/ End(s)
  BY <1>3 DEF Unblock, Takes, Inv, Calling
<1>4. ASSUME NEW s \in Sessions, EnsureColumn(s)
      PROVE  Takes(s) \/ End(s)
  <2>1. Object(s) \in Objects
    BY <1>4, ObjectIsObject DEF EnsureColumn, Ensuring
  <2>2. ~InTheMaking(Object(s), s)
    BY <1>4, <2>1 DEF EnsureColumn, Locked
  <2>3. QED BY <1>4, <2>2 DEF EnsureColumn, Ensuring, Takes
<1>5. ASSUME NEW s \in Sessions, Begin(s) \/ Progress(s) \/ Die(s)
      PROVE  Begin(s) \/ Block(s) \/ End(s) \/ Takes(s) \/ CommitEnsure(s)
  BY <1>2, <1>3, <1>4, <1>5 DEF Progress, Use, Die
<1>6. QED BY <1>1, <1>5 DEF Next

LEMMA TypeOKStep ==
  ASSUME Inv, Next
  PROVE  TypeOK'
<1> USE SchemaAssumption DEF TypeOK, script, calls
<1>t. TypeOK
  BY DEF Inv
<1>1. CASE BeginUpgrade \/ BeginDowngrade
  BY <1>t, <1>1 DEF BeginUpgrade, BeginDowngrade
<1>2. CASE Make
  <2>1. NextMade \in Objects /\ Alembic \in Sessions \cup {Alembic}
    BY <1>t, <1>2, ContentIsObjects, SeqFacts DEF Make, Upgrading, NextMade, Revisions
  <2>2. QED BY <1>t, <1>2, <2>1 DEF Make, Upgrading
<1>3. CASE Drop
  BY <1>t, <1>3 DEF Drop, Tables
<1>4. CASE Stamp
  <2>1. at' \in 0..LastRevision
    BY <1>t, <1>4 DEF Stamp
  <2>2. QED BY <1>t, <1>4, <2>1 DEF Stamp
<1>5. CASE Commit
  <2>1. owner' \in [Objects -> {"none", "app", "alembic"}]
    BY <1>t, <1>5 DEF Commit, Land
  <2>2. swept' \in [Sessions -> BOOLEAN]
    BY <1>t, <1>5, Zenon DEF Commit, Land
  <2>3. QED BY <1>t, <1>5, <2>1, <2>2 DEF Commit, Land
<1>6. CASE Rollback
  BY <1>t, <1>6 DEF Rollback
<1>7. ASSUME NEW s \in Sessions, Begin(s)
      PROVE  TypeOK'
  BY <1>t, <1>7 DEF Begin, GoTo
<1>8. ASSUME NEW s \in Sessions, Block(s)
      PROVE  TypeOK'
  BY <1>t, <1>8 DEF Block, GoTo
<1>9. ASSUME NEW s \in Sessions, End(s)
      PROVE  TypeOK'
  BY <1>t, <1>9 DEF End, GoTo
<1>10. ASSUME NEW s \in Sessions, Takes(s)
       PROVE  TypeOK'
  <2>1. Object(s) \in Objects
    BY <1>10, ObjectIsObject DEF Takes
  <2>2. made' \in [Sessions \cup {Alembic} -> SUBSET Objects] /\ made'[Alembic] = made[Alembic]
    BY <1>t, <1>10, <2>1 DEF Takes, Ensured
  <2>3. QED BY <1>t, <1>10, <2>2 DEF Takes, Ensured, GoTo
<1>11. ASSUME NEW s \in Sessions, CommitEnsure(s)
       PROVE  TypeOK'
  BY <1>t, <1>11 DEF CommitEnsure, GoTo
<1>12. QED
  BY Forms, <1>1, <1>2, <1>3, <1>4, <1>5, <1>6, <1>7, <1>8, <1>9, <1>10, <1>11

LEMMA MadeOnceStep ==
  ASSUME Inv, Next
  PROVE  MadeOnce'
<1> USE DEF MadeOnce, Everyone
<1>i. /\ MadeOnce
      /\ made \in [Everyone -> SUBSET Objects]
      /\ owner \in [Objects -> {"none", "app", "alembic"}]
      /\ Sessions \subseteq Everyone /\ Alembic \in Everyone
  BY DEF Inv, TypeOK
<1>1. CASE UNCHANGED <<owner, made>>
  BY <1>i, <1>1 DEF Tables
\* Who takes an object takes one that is not there and that nobody else makes.
<1>2. ASSUME NEW s \in Everyone, NEW o \in Objects, owner' = owner,
             o \notin Tables, ~InTheMaking(o, s),
             made' = [made EXCEPT ![s] = @ \cup {o}]
      PROVE  MadeOnce'
  <2>1. \A t \in Everyone : t # s => o \notin made[t]
    BY <1>2 DEF InTheMaking
  <2>2. Tables' = Tables
    BY <1>2 DEF Tables
  <2>3. \A t \in Everyone : made'[t] = IF t = s THEN made[s] \cup {o} ELSE made[t]
    BY <1>i, <1>2
  <2>4. QED BY <1>i, <1>2, <2>1, <2>2, <2>3
\* Who gives up what is made, or turns it into tables.
<1>3. ASSUME NEW s \in Everyone, made' = [made EXCEPT ![s] = {}],
             Tables' \subseteq Tables \cup made[s]
      PROVE  MadeOnce'
  <2>1. \A t \in Everyone : made'[t] = IF t = s THEN {} ELSE made[t]
    BY <1>i, <1>3
  <2>2. QED BY <1>i, <1>3, <2>1
<1>4. CASE Make
  <2>1. NextMade \in Objects
    BY <1>4, SchemaAssumption, ContentIsObjects, SeqFacts
    DEF Make, Upgrading, NextMade, Revisions, Inv, TypeOK
  <2>2. QED BY <1>2, <1>4, <2>1 DEF Make
<1>5. CASE Commit
  <2>1. made' = [made EXCEPT ![Alembic] = {}] /\ Tables' \subseteq Tables \cup made[Alembic]
    BY <1>i, <1>5 DEF Commit, Land, Tables
  <2>2. QED BY <1>3, <1>i, <2>1
<1>6. CASE Rollback
  BY <1>3, <1>6, <1>i DEF Rollback, Tables
<1>7. ASSUME NEW s \in Sessions, End(s)
      PROVE  MadeOnce'
  BY <1>3, <1>7, <1>i DEF End, Tables
<1>8. ASSUME NEW s \in Sessions, Takes(s)
      PROVE  MadeOnce'
  <2>1. CASE Object(s) \in Tables
    BY <1>1, <1>8, <2>1 DEF Takes, Ensured
  <2>2. CASE Object(s) \notin Tables
    <3>1. Object(s) \in Objects
      BY <1>8, ObjectIsObject DEF Takes
    <3>2. ~InTheMaking(Object(s), s) /\ owner' = owner
          /\ made' = [made EXCEPT ![s] = @ \cup {Object(s)}]
      BY <1>8, <2>2 DEF Takes, Ensured
    <3>3. QED BY <1>2, <1>i, <2>2, <3>1, <3>2
  <2>3. QED BY <2>1, <2>2
<1>9. ASSUME NEW s \in Sessions, CommitEnsure(s)
      PROVE  MadeOnce'
  <2>1. made' = [made EXCEPT ![s] = {}] /\ Tables' \subseteq Tables \cup made[s]
    BY <1>i, <1>9 DEF CommitEnsure, Tables
  <2>2. QED BY <1>3, <1>i, <2>1
<1>10. CASE \/ BeginUpgrade \/ BeginDowngrade \/ Drop \/ Stamp
            \/ \E s \in Sessions : Begin(s) \/ Block(s)
  BY <1>1, <1>10 DEF BeginUpgrade, BeginDowngrade, Drop, Stamp, Begin, Block
<1>11. QED BY Forms, <1>4, <1>5, <1>6, <1>7, <1>8, <1>9, <1>10

\* What a repository call does leaves the script and its tables alone.
LEMMA CallKeepsScript ==
  ASSUME Inv, NEW s \in Sessions,
         Begin(s) \/ Block(s) \/ End(s) \/ Takes(s) \/ CommitEnsure(s)
  PROVE  /\ UNCHANGED <<version, mode, at, step, gone>>
         /\ made'[Alembic] = made[Alembic]
         /\ \A o \in Objects : owner'[o] # owner[o] => owner[o] = "none" /\ owner'[o] = "app"
<1>1. /\ UNCHANGED <<version, mode, at, step, gone>>
      /\ made'[Alembic] = made[Alembic]
  BY SchemaAssumption
  DEF Begin, Block, End, Takes, Ensured, CommitEnsure, script, Inv, TypeOK
<1>2. CASE owner' = owner
  BY <1>1, <1>2
<1>3. CASE CommitEnsure(s)
  <2>1. \A o \in made[s] : o \notin Tables
    BY DEF Inv, MadeOnce, Everyone
  <2>2. owner' = [o \in Objects |-> IF o \in made[s] THEN "app" ELSE owner[o]]
    BY <1>3 DEF CommitEnsure
  <2>3. QED BY <1>1, <2>1, <2>2 DEF Tables
<1>4. QED
  BY <1>2, <1>3 DEF Begin, Block, End, Takes, Ensured

LEMMA ScriptStep ==
  ASSUME Inv, Next
  PROVE  Climbing' /\ Descending'
<1>t. /\ at \in 0..LastRevision /\ version \in 0..LastRevision /\ step \in Nat
      /\ mode \in {"idle", "up", "down"}
      /\ made \in [Sessions \cup {Alembic} -> SUBSET Objects]
      /\ LastRevision \in Nat /\ Alembic \in Sessions \cup {Alembic}
      /\ mode = "idle" => gone = {} /\ made[Alembic] = {}
      /\ Climbing /\ Descending
  BY SchemaAssumption DEF Inv, TypeOK
<1>1. CASE BeginUpgrade
  <2>1. /\ gone' = {} /\ made'[Alembic] = {} /\ step' = 0 /\ at' = version
        /\ version' = version /\ mode' = "up" /\ version < LastRevision
    BY <1>t, <1>1 DEF BeginUpgrade
  <2>2. Makes[version + 1] \in Seq(Objects)
    BY <1>t, <2>1, ContentIsObjects DEF Revisions
  <2>3. Len(Makes[version + 1]) >= 0 /\ FirstOf(Makes[version + 1], 0) = {}
    BY <2>2, SeqFacts
  <2>4. Through(version)' = Through(version)
    BY <2>1 DEF Through
  <2>5. QED BY <1>t, <2>1, <2>3, <2>4 DEF Climbing, Descending
<1>2. CASE BeginDowngrade
  <2>1. /\ gone' = {} /\ made'[Alembic] = {} /\ step' = 0 /\ at' = version
        /\ version' = version /\ mode' = "down" /\ version > 0
    BY <1>t, <1>2 DEF BeginDowngrade
  <2>2. Drops[version] \in Seq(Objects)
    BY <1>t, <2>1, ContentIsObjects DEF Revisions
  <2>3. Len(Drops[version]) >= 0 /\ FirstOf(Drops[version], 0) = {}
    BY <2>2, SeqFacts
  <2>4. QED BY <1>t, <2>1, <2>3 DEF Climbing, Descending
<1>3. CASE Make
  <2>1. /\ mode = "up" /\ at < LastRevision /\ step < Len(Makes[at + 1])
        /\ made'[Alembic] = made[Alembic] \cup {Makes[at + 1][step + 1]}
        /\ step' = step + 1 /\ UNCHANGED <<version, gone, mode, at>>
    BY <1>t, <1>3 DEF Make, Upgrading, NextMade
  <2>2. /\ Makes[at + 1] \in Seq(Objects)
        /\ FirstOf(Makes[at + 1], step + 1)
             = FirstOf(Makes[at + 1], step) \cup {Makes[at + 1][step + 1]}
        /\ step + 1 <= Len(Makes[at + 1])
    <3>1. Makes[at + 1] \in Seq(Objects)
      BY <1>t, <2>1, ContentIsObjects DEF Revisions
    <3>2. QED BY <1>t, <2>1, <3>1, OneMore
  <2>3. QED BY <1>t, <2>1, <2>2 DEF Climbing, Descending
<1>4. CASE Drop
  <2> DEFINE o == Drops[at][step + 1]
  <2>1. /\ mode = "down" /\ at > 0 /\ step < Len(Drops[at])
        /\ gone' = gone \cup {p \in Tables : p = o \/ TableOf[p] = o}
        /\ step' = step + 1 /\ UNCHANGED <<version, made, mode, at>>
    BY <1>4 DEF Drop
  <2>2. /\ at \in Revisions
        /\ FirstOf(Drops[at], step + 1) = FirstOf(Drops[at], step) \cup {o}
        /\ step + 1 <= Len(Drops[at])
        /\ o \in Content(at)
    <3>1. at \in Revisions
      BY <1>t, <2>1 DEF Revisions
    <3>2. Drops[at] \in Seq(Objects) /\ Content(at) = Elements(Drops[at])
      BY <3>1, ContentIsObjects
    <3>3. QED BY <1>t, <2>1, <3>1, <3>2, OneMore
  <2>3. /\ Through(version) \ gone = Through(at) \ FirstOf(Drops[at], step)
        /\ Through(version) \subseteq Tables
    BY <1>t, <2>1 DEF Descending, Inv, VersionIsHonest, Tables
  <2>4. \A p \in Through(at) : TableOf[p] = o => p = o
    BY <2>2, ColumnsFollow
  <2>5. Through(version) \ gone' = Through(at) \ FirstOf(Drops[at], step + 1)
    BY <2>1, <2>2, <2>3, <2>4
  <2>6. QED BY <1>t, <2>1, <2>2, <2>5 DEF Climbing, Descending
<1>5. CASE Stamp
  <2>1. CASE mode = "up"
    <3>1. /\ at < LastRevision /\ step = Len(Makes[at + 1])
          /\ at' = at + 1 /\ step' = 0 /\ UNCHANGED <<version, gone, made, mode>>
      BY <1>t, <1>5, <2>1 DEF Stamp
    <3>2. at + 1 \in Revisions /\ at \in Nat
      BY <1>t, <3>1 DEF Revisions
    <3>3. /\ FirstOf(Makes[at + 1], step) = Content(at + 1)
          /\ Through(at + 1) = Through(at) \cup Content(at + 1)
      BY <3>1, <3>2, ContentIsObjects, SeqFacts, ThroughNext DEF Content
    <3>4. at + 1 < LastRevision =>
            /\ Len(Makes[at + 2]) >= 0
            /\ FirstOf(Makes[at + 2], 0) = {}
      <4>1. at + 1 < LastRevision => at + 2 \in Revisions
        BY <1>t DEF Revisions
      <4>2. QED BY <4>1, ContentIsObjects, SeqFacts
    <3>5. FirstOf(Makes[at + 2], 0) = {}
      BY DEF FirstOf
    <3>6. Through(version) \cup made[Alembic] = Through(at + 1)
      BY <1>t, <2>1, <3>3 DEF Climbing
    <3>7. at' + 1 = at + 2
      BY <3>1, <3>2
    <3>8. QED BY <1>t, <2>1, <3>1, <3>2, <3>4, <3>5, <3>6, <3>7 DEF Climbing, Descending
  <2>2. CASE mode = "down"
    <3>1. /\ at # 0 /\ step = Len(Drops[at])
          /\ at' = at - 1 /\ step' = 0 /\ UNCHANGED <<version, gone, made, mode>>
      BY <1>t, <1>5, <2>2 DEF Stamp
    <3>2. at \in Revisions /\ at - 1 \in Nat /\ at - 1 < LastRevision
      BY <1>t, <3>1 DEF Revisions
    <3>3. /\ FirstOf(Drops[at], step) = Content(at)
          /\ Through(at - 1) \cap Content(at) = {}
          /\ Through((at - 1) + 1) = Through(at - 1) \cup Content((at - 1) + 1)
      BY <3>1, <3>2, ContentIsObjects, SeqFacts, ThroughNext, NotYet
    <3>4. (at - 1) + 1 = at
      BY <1>t
    <3>5. Through(version) \ gone = Through(at - 1)
      BY <1>t, <2>2, <3>3, <3>4 DEF Descending
    <3>6. at - 1 > 0 => Len(Drops[at - 1]) >= 0
      <4>1. at - 1 > 0 => at - 1 \in Revisions
        BY <1>t DEF Revisions
      <4>2. QED BY <4>1, ContentIsObjects, SeqFacts
    <3>7. FirstOf(Drops[at - 1], 0) = {}
      BY DEF FirstOf
    <3>8. QED BY <1>t, <2>2, <3>1, <3>2, <3>5, <3>6, <3>7 DEF Climbing, Descending
  <2>3. QED BY <1>t, <1>5, <2>1, <2>2 DEF Stamp
<1>6. CASE Commit \/ Rollback
  BY <1>6 DEF Commit, Rollback, Climbing, Descending
<1>7. ASSUME NEW s \in Sessions,
             Begin(s) \/ Block(s) \/ End(s) \/ Takes(s) \/ CommitEnsure(s)
      PROVE  Climbing' /\ Descending'
  BY <1>t, <1>7, CallKeepsScript DEF Climbing, Descending
<1>8. QED BY Forms, <1>1, <1>2, <1>3, <1>4, <1>5, <1>6, <1>7

LEMMA OwnDroppedStep ==
  ASSUME Inv, Next
  PROVE  OwnDropped'
<1>i. /\ OwnDropped
      /\ owner \in [Objects -> {"none", "app", "alembic"}]
      /\ gone \subseteq Objects
  BY DEF Inv, TypeOK
<1>1. CASE Drop
  <2> DEFINE o == Drops[at][step + 1]
  <2>1. /\ mode = "down" /\ at > 0 /\ step < Len(Drops[at]) /\ owner' = owner
        /\ gone' = gone \cup {p \in Tables : p = o \/ TableOf[p] = o}
    BY <1>1 DEF Drop
  <2>2. at \in Revisions /\ at <= version /\ step \in Nat /\ version \in Nat
    BY <2>1, SchemaAssumption DEF Inv, TypeOK, Descending, Revisions
  <2>3. o \in Content(at)
    <3>1. Drops[at] \in Seq(Objects) /\ Content(at) = Elements(Drops[at])
      BY <2>2, ContentIsObjects
    <3>2. QED BY <2>1, <2>2, <3>1, SeqFacts
  <2>4. at \in 1..version
    BY <2>2, SchemaAssumption DEF Revisions
  <2>5. o \in Through(version)
    BY <2>3, <2>4, Zenon DEF Through
  <2>6. owner[o] = "alembic"
    BY <2>5 DEF Inv, VersionIsHonest
  <2>7. \A p \in gone' : IsTable(p) => p \in gone \/ p = o
    BY <2>1 DEF IsTable
  <2>8. QED BY <1>i, <2>1, <2>6, <2>7 DEF OwnDropped
<1>2. CASE Commit \/ Rollback
  BY <1>2 DEF Commit, Land, Rollback, OwnDropped
<1>3. CASE BeginUpgrade \/ BeginDowngrade \/ Make \/ Stamp
  BY <1>i, <1>3 DEF BeginUpgrade, BeginDowngrade, Make, Stamp, OwnDropped
<1>4. ASSUME NEW s \in Sessions,
             Begin(s) \/ Block(s) \/ End(s) \/ Takes(s) \/ CommitEnsure(s)
      PROVE  OwnDropped'
  BY <1>i, <1>4, CallKeepsScript DEF OwnDropped
<1>5. QED BY Forms, <1>1, <1>2, <1>3, <1>4

LEMMA CallingStep ==
  ASSUME Inv, Next
  PROVE  Calling'
<1>t. /\ pc \in [Sessions -> {"idle", "ensure", "blocked", "use"}]
      /\ call \in [Sessions -> DOMAIN Needs \cup {NoCall}]
      /\ done \in [Sessions -> Nat]
      /\ Calling
      /\ \A c \in DOMAIN Needs : Len(Needs[c]) \in Nat
  BY SchemaAssumption, SeqFacts DEF Inv, TypeOK
<1>1. CASE UNCHANGED <<pc, call, done>>
  BY <1>t, <1>1 DEF Calling
<1>2. ASSUME NEW s \in Sessions, Begin(s)
      PROVE  Calling'
  <2>1. PICK c \in Calls[s] : call' = [call EXCEPT ![s] = c]
    BY <1>2 DEF Begin
  <2>2. c \in DOMAIN Needs
    BY SchemaAssumption
  <2>3. done[s] = 0
    BY <1>2 DEF Begin, Inv, Idling
  <2>4. QED BY <1>t, <1>2, <2>1, <2>2, <2>3 DEF Begin, GoTo, Calling
<1>3. ASSUME NEW s \in Sessions, Block(s)
      PROVE  Calling'
  BY <1>t, <1>3 DEF Block, Ensuring, GoTo, Calling
<1>4. ASSUME NEW s \in Sessions, End(s)
      PROVE  Calling'
  BY <1>t, <1>4 DEF End, GoTo, Calling
<1>5. ASSUME NEW s \in Sessions, Takes(s)
      PROVE  Calling'
  <2>1. done[s] + 1 <= Len(Needs[call[s]]) /\ call[s] \in DOMAIN Needs
    BY <1>t, <1>5, ObjectIsObject DEF Takes, Calling
  <2>2. QED BY <1>t, <1>5, <2>1 DEF Takes, Ensured, GoTo, Calling
<1>6. ASSUME NEW s \in Sessions, CommitEnsure(s)
      PROVE  Calling'
  BY <1>t, <1>6 DEF CommitEnsure, GoTo, Calling
<1>7. CASE \/ BeginUpgrade \/ BeginDowngrade \/ Make \/ Drop \/ Stamp \/ Commit
           \/ Rollback
  BY <1>1, <1>7
  DEF BeginUpgrade, BeginDowngrade, Make, Drop, Stamp, Commit, Land, Rollback, calls
<1>8. QED BY Forms, <1>2, <1>3, <1>4, <1>5, <1>6, <1>7

LEMMA IdlingStep ==
  ASSUME Inv, Next
  PROVE  Idling'
<1>t. /\ pc \in [Sessions -> {"idle", "ensure", "blocked", "use"}]
      /\ done \in [Sessions -> Nat]
      /\ Idling
  BY DEF Inv, TypeOK
<1>1. CASE UNCHANGED <<pc, done>>
  BY <1>t, <1>1 DEF Idling
<1>2. ASSUME NEW s \in Sessions,
             Begin(s) \/ Block(s) \/ End(s) \/ Takes(s) \/ CommitEnsure(s)
      PROVE  Idling'
  BY <1>t, <1>2
  DEF Begin, Block, End, Takes, Ensured, CommitEnsure, GoTo, Idling
<1>3. CASE \/ BeginUpgrade \/ BeginDowngrade \/ Make \/ Drop \/ Stamp \/ Commit
           \/ Rollback
  BY <1>1, <1>3
  DEF BeginUpgrade, BeginDowngrade, Make, Drop, Stamp, Commit, Land, Rollback, calls
<1>4. QED BY Forms, <1>2, <1>3

LEMMA HonestStep ==
  ASSUME Inv, Next
  PROVE  VersionIsHonest'
<1>i. /\ owner \in [Objects -> {"none", "app", "alembic"}]
      /\ {o \in Objects : owner[o] = "alembic"} = Through(version)
      /\ made[Alembic] \subseteq Objects
  BY DEF Inv, VersionIsHonest, TypeOK
<1>1. CASE Commit
  <2>1. /\ version' = at
        /\ \A o \in Objects :
             owner'[o] = "alembic" <=>
               o \in made[Alembic] \/ (o \notin gone /\ owner[o] = "alembic")
    BY <1>i, <1>1 DEF Commit, Land
  <2>2. {o \in Objects : owner'[o] = "alembic"}
          = made[Alembic] \cup (Through(version) \ gone)
    BY <1>i, <2>1
  <2>3. made[Alembic] \cup (Through(version) \ gone) = Through(at)
    <3>1. CASE mode = "up"
      <4>1. step = 0 /\ Climbing
        BY <1>1 DEF Commit, Arrived, Inv
      <4>2. FirstOf(Makes[at + 1], step) = {}
        BY <4>1 DEF FirstOf
      <4>3. QED BY <3>1, <4>1, <4>2 DEF Climbing
    <3>2. CASE mode = "down"
      <4>1. step = 0 /\ Descending
        BY <1>1 DEF Commit, Arrived, Inv
      <4>2. FirstOf(Drops[at], step) = {}
        BY <4>1 DEF FirstOf
      <4>3. QED BY <3>2, <4>1, <4>2 DEF Descending
    <3>3. QED BY <1>1, <3>1, <3>2 DEF Commit, Inv, TypeOK
  <2>4. QED BY <2>1, <2>2, <2>3 DEF VersionIsHonest, Through
<1>2. CASE \/ BeginUpgrade \/ BeginDowngrade \/ Make \/ Drop \/ Stamp \/ Rollback
  <2>1. owner' = owner /\ version' = version
    BY <1>2 DEF BeginUpgrade, BeginDowngrade, Make, Drop, Stamp, Rollback
  <2>2. QED BY <1>i, <2>1 DEF VersionIsHonest, Through
<1>3. ASSUME NEW s \in Sessions,
             Begin(s) \/ Block(s) \/ End(s) \/ Takes(s) \/ CommitEnsure(s)
      PROVE  VersionIsHonest'
  <2>1. /\ version' = version
        /\ \A o \in Objects : owner'[o] = "alembic" <=> owner[o] = "alembic"
    BY <1>3, CallKeepsScript
  <2>2. QED BY <1>i, <2>1 DEF VersionIsHonest, Through
<1>4. QED BY Forms, <1>1, <1>2, <1>3

LEMMA EnsuredStep ==
  ASSUME Inv, Next
  PROVE  EnsuredIsFound'
<1> DEFINE Found(s) ==
      pc[s] # "idle" /\ ~swept[s] =>
        \A i \in 1..done[s] : Needs[call[s]][i] \in Holds(s)
<1>t. /\ pc \in [Sessions -> {"idle", "ensure", "blocked", "use"}]
      /\ call \in [Sessions -> DOMAIN Needs \cup {NoCall}]
      /\ done \in [Sessions -> Nat]
      /\ swept \in [Sessions -> BOOLEAN]
      /\ made \in [Sessions \cup {Alembic} -> SUBSET Objects]
      /\ owner \in [Objects -> {"none", "app", "alembic"}]
      /\ Alembic \notin Sessions
      /\ \A s \in Sessions : Found(s)
  BY SchemaAssumption DEF Inv, TypeOK, EnsuredIsFound
<1>s. SUFFICES ASSUME NEW s \in Sessions PROVE Found(s)'
  BY DEF EnsuredIsFound
\* Nothing about the call changes and nothing it holds is lost.
<1>1. CASE /\ pc'[s] # "idle" => pc[s] # "idle"
           /\ done'[s] = done[s] /\ call'[s] = call[s]
           /\ swept[s] => swept'[s]
           /\ Holds(s) \subseteq Holds(s)'
  BY <1>t, <1>1
<1>2. CASE \/ BeginUpgrade \/ BeginDowngrade \/ Make \/ Drop \/ Stamp \/ Rollback
  <2>1. UNCHANGED <<pc, call, done, swept, owner>> /\ made'[s] = made[s]
    BY <1>t, <1>2
    DEF BeginUpgrade, BeginDowngrade, Make, Drop, Stamp, Rollback, calls
  <2>2. QED BY <1>1, <2>1 DEF Holds, Tables
<1>3. CASE Commit
  <2>1. /\ UNCHANGED <<pc, call, done>> /\ made'[s] = made[s]
        /\ swept'[s] = (swept[s] \/ (mode = "down" /\ pc[s] # "idle"))
    BY <1>t, <1>3 DEF Commit, Land
  <2>2. CASE mode = "down"
    BY <2>1, <2>2
  <2>3. CASE mode # "down"
    <3>1. gone = {}
      BY <2>3 DEF Inv, TypeOK, Climbing
    <3>2. \A o \in Tables : o \in Tables'
      BY <1>t, <1>3, <3>1 DEF Commit, Land, Tables
    <3>3. QED BY <1>1, <2>1, <3>2 DEF Holds
  <2>4. QED BY <2>2, <2>3
<1>4. ASSUME NEW t \in Sessions, t # s,
             Begin(t) \/ Block(t) \/ End(t) \/ Takes(t) \/ CommitEnsure(t)
      PROVE  Found(s)'
  <2>1. /\ pc'[s] = pc[s] /\ done'[s] = done[s] /\ call'[s] = call[s]
        /\ swept'[s] = swept[s] /\ made'[s] = made[s]
    BY <1>t, <1>4 DEF Begin, Block, End, Takes, Ensured, CommitEnsure, GoTo
  <2>2. Tables \subseteq Tables'
    BY <1>4, CallKeepsScript DEF Tables
  <2>3. QED BY <1>1, <2>1, <2>2 DEF Holds
<1>5. CASE Begin(s)
  <2>1. done'[s] = 0
    BY <1>5 DEF Begin, Inv, Idling
  <2>2. 1..done'[s] = {}
    BY <2>1
  <2>3. QED BY <2>2
<1>6. CASE Block(s)
  <2>1. UNCHANGED <<owner, made, call, done, swept>> /\ pc[s] # "idle"
    BY <1>6 DEF Block, Ensuring
  <2>2. QED BY <1>1, <2>1 DEF Holds, Tables
<1>7. CASE End(s)
  BY <1>t, <1>7 DEF End, GoTo
<1>8. CASE Takes(s)
  <2>1. /\ pc[s] # "idle" /\ UNCHANGED <<owner, call, swept>>
        /\ done'[s] = done[s] + 1 /\ done[s] \in Nat
        /\ made[s] \subseteq made'[s]
        /\ Object(s) \in Tables \cup made'[s]
    BY <1>t, <1>8 DEF Takes, Ensured
  <2>2. Holds(s) \subseteq Holds(s)' /\ Needs[call[s]][done[s] + 1] \in Holds(s)'
    BY <2>1 DEF Holds, Tables, Object
  <2>3. \A i \in 1..done[s] + 1 : i \in 1..done[s] \/ i = done[s] + 1
    BY <2>1
  <2>4. QED BY <1>t, <2>1, <2>2, <2>3
<1>9. CASE CommitEnsure(s)
  <2>1. /\ pc[s] # "idle" /\ UNCHANGED <<call, done, swept>>
        /\ \A o \in Tables \cup made[s] : o \in Tables'
    BY <1>t, <1>9 DEF CommitEnsure, Tables
  <2>2. QED BY <1>1, <2>1 DEF Holds
<1>10. QED BY Forms, <1>2, <1>3, <1>4, <1>5, <1>6, <1>7, <1>8, <1>9

LEMMA InvStep == Inv /\ [Next]_vars => Inv'
<1> SUFFICES ASSUME Inv, [Next]_vars PROVE Inv'
  OBVIOUS
<1>1. CASE Next
  BY <1>1, TypeOKStep, MadeOnceStep, ScriptStep, OwnDroppedStep, CallingStep,
     IdlingStep, HonestStep, EnsuredStep
  DEF Inv
<1>2. CASE UNCHANGED vars
  BY <1>2
  DEF vars, script, calls, Inv, TypeOK, MadeOnce, Climbing, Descending,
      OwnDropped, Calling, Idling, VersionIsHonest, EnsuredIsFound, Holds,
      Tables, Through, Everyone
<1>3. QED BY <1>1, <1>2

LEMMA InvAlways == Spec => []Inv
BY InvInit, InvStep, PTL DEF Spec

(***************************************************************************)
(* What the schema promises.                                               *)
(***************************************************************************)
\* VersionIsHonest, for every chain and any calls beside the script.
THEOREM VersionHonest == Spec => []VersionIsHonest
<1>1. Inv => VersionIsHonest
  BY DEF Inv
<1>2. QED BY <1>1, InvAlways, PTL

\* EnsuredIsFound, for every chain and any calls beside the script.
THEOREM EnsuredFound == Spec => []EnsuredIsFound
<1>1. Inv => EnsuredIsFound
  BY DEF Inv
<1>2. QED BY <1>1, InvAlways, PTL

\* A table of the application stays the application's.
LEMMA AppTableStep ==
  ASSUME Inv, Next, NEW o \in Objects, IsTable(o), owner[o] = "app"
  PROVE  owner'[o] = "app"
<1>1. CASE Commit
  <2>1. o \notin made[Alembic]
    BY DEF Inv, MadeOnce, Everyone, Tables
  <2>2. o \notin gone
    BY DEF Inv, OwnDropped
  <2>3. QED BY <1>1, <2>1, <2>2 DEF Commit, Land
<1>2. CASE \/ BeginUpgrade \/ BeginDowngrade \/ Make \/ Drop \/ Stamp \/ Rollback
  BY <1>2 DEF BeginUpgrade, BeginDowngrade, Make, Drop, Stamp, Rollback
<1>3. ASSUME NEW s \in Sessions,
             Begin(s) \/ Block(s) \/ End(s) \/ Takes(s) \/ CommitEnsure(s)
      PROVE  owner'[o] = "app"
  BY <1>3, CallKeepsScript
<1>4. QED BY Forms, <1>1, <1>2, <1>3

\* AppTablesKept, for every chain: no downgrade drops a table, with its rows,
\* that the application created.
THEOREM AppTablesStay == Spec => AppTablesKept
<1>1. Inv /\ [Next]_vars =>
        [\A o \in Objects : IsTable(o) /\ owner[o] = "app" => owner'[o] = "app"]_owner
  BY AppTableStep DEF vars
<1>2. QED BY <1>1, InvAlways, PTL DEF Spec, AppTablesKept

\* OvertakenForGood, for every chain: an application that ran before the
\* upgrade shuts the script out at the revision with the same table.
THEOREM OvertakenStays == Spec => OvertakenForGood
<1>1. ASSUME Inv, Inv', [Next]_vars, NEW n \in Revisions, Overtaken(n)
      PROVE  Overtaken(n)'
  <2>1. PICK o \in Content(n) : IsTable(o) /\ owner[o] = "app"
    BY <1>1 DEF Overtaken
  <2>2. o \in Objects
    BY ContentIsObjects
  <2>3. owner'[o] = "app"
    BY <1>1, <2>1, <2>2, AppTableStep DEF vars
  <2>4. o \notin Through(version')
    BY <1>1, <2>2, <2>3 DEF Inv, VersionIsHonest, Through
  <2>5. n \notin 1..version'
    BY <2>1, <2>4, Zenon DEF Through
  <2>6. n > version'
    BY <1>1, <2>5, SchemaAssumption DEF Revisions, Inv, TypeOK
  <2>7. QED BY <2>1, <2>3, <2>6 DEF Overtaken
<1>2. Inv /\ Inv' /\ [Next]_vars =>
        [\A n \in Revisions : Overtaken(n) => Overtaken(n)']_vars
  BY <1>1
<1>3. QED BY <1>2, InvAlways, PTL DEF Spec, OvertakenForGood

(***************************************************************************)
(* Who waits for whom.                                                     *)
(***************************************************************************)
\* y has changed the table of object o and not committed.
HasTable(y, o) ==
  \E p \in Objects :
    TableOf[p] = TableOf[o] /\ (p \in made[y] \/ (p \in gone /\ y = Alembic))

\* Whom a call waits for.
CallWaits(s, y) ==
  \/ pc[s] = "blocked" /\ Object(s) \in made[y]
  \/ Ensuring(s) /\ ~IsTable(Object(s)) /\ HasTable(y, Object(s))
  \/ pc[s] = "use" /\ \E o \in Elements(Needs[call[s]]) : HasTable(y, o)

\* Whom the script waits for.
ScriptWaits(y) ==
  \/ /\ Upgrading /\ step < Len(Makes[at + 1])
     /\ NextMade \notin Tables
     /\ NextMade \in made[y] \/ (~IsTable(NextMade) /\ HasTable(y, NextMade))
  \/ /\ mode = "down" /\ at > 0 /\ step < Len(Drops[at])
     /\ HasTable(y, Drops[at][step + 1])

WaitsFor(x, y) ==
  /\ x # y
  /\ IF x = Alembic THEN ScriptWaits(y) ELSE CallWaits(x, y)

\* No group in which everybody waits for one of the group.
NoCircle ==
  \A W \in SUBSET Everyone : W # {} => \E x \in W : \A y \in W : ~WaitsFor(x, y)

\* What a call holds it has ensured, and it holds nothing outside of its first
\* transaction; a column is dropped before its table.
Held ==
  /\ \A s \in Sessions : pc[s] # "idle" => made[s] \subseteq FirstOf(Needs[call[s]], done[s])
  /\ \A s \in Sessions : pc[s] \in {"idle", "use"} => made[s] = {}
  /\ \A s \in Sessions : pc[s] = "blocked" => IsTable(Object(s))
  /\ \A p \in gone : TableOf[p] \in Tables

\* At first nobody holds anything.
LEMMA HeldInit == Init => Held
BY DEF Init, Held

\* It is inductive with the rest.
LEMMA HeldStep ==
  ASSUME Inv, Held, Next
  PROVE  Held'
<1>t. TypeOK /\ Calling /\ Idling
  BY DEF Inv
<1>1. CASE \/ BeginUpgrade \/ BeginDowngrade \/ Make \/ Stamp \/ Commit \/ Rollback \/ Drop
  <2>1. /\ UNCHANGED <<pc, call, done>>
        /\ \A s \in Sessions : made'[s] = made[s]
    BY <1>1, <1>t, SchemaAssumption
    DEF BeginUpgrade, BeginDowngrade, Make, Stamp, Commit, Land, Rollback, Drop, calls, TypeOK
  <2>2. \A p \in gone' : TableOf[p] \in Tables'
    <3>1. CASE \/ BeginUpgrade \/ BeginDowngrade \/ Make \/ Stamp
      BY <3>1 DEF Held, Tables, BeginUpgrade, BeginDowngrade, Make, Stamp
    <3>2. CASE Commit \/ Rollback
      BY <3>2 DEF Commit, Land, Rollback
    <3>3. CASE Drop
      <4> DEFINE o == Drops[at][step + 1]
      <4>1. /\ gone' = gone \cup {p \in Tables : p = o \/ TableOf[p] = o} /\ owner' = owner
            /\ mode = "down" /\ at > 0 /\ step < Len(Drops[at])
        BY <3>3 DEF Drop
      <4>2. at \in Revisions /\ version \in 0..LastRevision /\ at <= version /\ step \in Nat
        BY <4>1, <1>t, SchemaAssumption DEF Inv, Descending, TypeOK, Revisions
      <4>3. o \in Content(at) /\ o \in Objects
        BY <4>1, <4>2, ContentIsObjects, SeqFacts
      <4>4. \A m \in 1..at : Content(m) \subseteq Through(version)
        <5>1. \A m \in 1..at : m \in 1..version
          BY <4>2, SchemaAssumption DEF Revisions
        <5>2. QED BY <5>1, Zenon DEF Through
      <4>5. Through(version) \subseteq Tables
        BY DEF Inv, VersionIsHonest, Tables
      <4>6. at \in 1..at /\ \A m \in 1..at - 1 : m \in 1..at
        BY <4>2, SchemaAssumption DEF Revisions
      <4>7. o \in Tables
        BY <4>3, <4>4, <4>5, <4>6
      <4>8. TableOf[o] \in Tables
        <5>1. CASE IsTable(o)
          BY <4>7, <5>1 DEF IsTable
        <5>2. CASE ~IsTable(o)
          <6>1. PICK m \in 1..at - 1 : TableOf[o] \in Content(m)
            BY <4>2, <4>3, <5>2, ChainAssumption
          <6>2. QED BY <6>1, <4>4, <4>5, <4>6
        <5>3. QED BY <5>1, <5>2
      <4> HIDE DEF o
      <4>9. QED BY <4>1, <4>7, <4>8 DEF Held, Tables
    <3>4. QED BY <1>1, <3>1, <3>2, <3>3
  <2>3. \A s \in Sessions : pc'[s] = "blocked" => IsTable(Object(s))'
    BY <2>1 DEF Held, Object, IsTable
  <2>4. QED BY <2>1, <2>2, <2>3 DEF Held
<1>2. ASSUME NEW s \in Sessions,
             Begin(s) \/ Block(s) \/ End(s) \/ Takes(s) \/ CommitEnsure(s)
      PROVE  Held'
  <2>1. /\ \A u \in Sessions : u # s =>
             pc'[u] = pc[u] /\ call'[u] = call[u] /\ done'[u] = done[u] /\ made'[u] = made[u]
        /\ gone' = gone
    BY <1>2, <1>t DEF Begin, Block, End, GoTo, Takes, Ensured, CommitEnsure, script, TypeOK
  <2>2. Tables \subseteq Tables'
    BY <1>2, <1>t DEF Begin, Block, End, Takes, Ensured, CommitEnsure, Tables, TypeOK
  <2>3. /\ pc'[s] # "idle" => made'[s] \subseteq FirstOf(Needs[call'[s]], done'[s])
        /\ pc'[s] \in {"idle", "use"} => made'[s] = {}
        /\ pc'[s] = "blocked" => IsTable(Object(s))'
    <3>1. CASE Begin(s)
      BY <1>t, <3>1 DEF Begin, GoTo, Held, TypeOK
    <3>2. CASE Block(s)
      BY <1>t, <3>2 DEF Block, Ensuring, GoTo, Held, TypeOK, Object, IsTable
    <3>3. CASE End(s)
      BY <1>t, <3>3 DEF End, GoTo, TypeOK
    <3>4. CASE Takes(s)
      <4> DEFINE n == done[s]
                 needs == Needs[call[s]]
      <4>1. needs \in Seq(Objects) /\ n \in Nat /\ n < Len(needs)
        BY <1>t, <3>4, SchemaAssumption DEF Takes, Calling, TypeOK
      <4>2. FirstOf(needs, n + 1) = FirstOf(needs, n) \cup {needs[n + 1]}
        BY <4>1, OneMore
      <4>3. made[s] \subseteq FirstOf(needs, n)
        BY <3>4 DEF Takes, Held
      <4>4. /\ made'[s] \subseteq made[s] \cup {needs[n + 1]} /\ done'[s] = n + 1
            /\ call' = call /\ pc'[s] = "ensure"
        BY <1>t, <3>4 DEF Takes, Ensured, GoTo, Object, TypeOK
      <4> HIDE DEF needs, n
      <4>5. made'[s] \subseteq FirstOf(needs, n + 1)
        BY <4>2, <4>3, <4>4
      <4>6. QED BY <4>4, <4>5 DEF needs, n
    <3>5. CASE CommitEnsure(s)
      BY <1>t, <3>5 DEF CommitEnsure, GoTo, TypeOK
    <3>6. QED BY <1>2, <3>1, <3>2, <3>3, <3>4, <3>5
  <2>4. \A u \in Sessions : u # s => (IsTable(Object(u))' <=> IsTable(Object(u)))
    BY <2>1 DEF Object, IsTable
  <2>5. QED BY <2>1, <2>2, <2>3, <2>4 DEF Held
<1>3. QED BY Forms, <1>1, <1>2

LEMMA HeldAlways == Spec => [](Inv /\ Held)
<1>1. Inv /\ Held /\ [Next]_vars => Held'
  <2>1. ASSUME Held, UNCHANGED vars PROVE Held'
    BY <2>1 DEF vars, script, calls, Held, Object, Tables, IsTable
  <2>2. QED BY <2>1, HeldStep
<1>2. QED BY <1>1, HeldInit, InvAlways, PTL DEF Spec

\* How far somebody is who waits.  Nobody waits for a call at 0, only such calls
\* wait for a downgrade, and the others wait for objects in their order.
Depth(rank, x) ==
  IF x = Alembic THEN (IF mode = "up" THEN 2 + rank[NextMade] ELSE 1)
  ELSE IF pc[x] = "blocked" THEN 2 + rank[Object(x)] ELSE 0

\* Positions up to the next.
LEMMA Before ==
  ASSUME NEW n \in Nat, NEW m \in Nat, n < m
  PROVE  n + 1 \in 1..m /\ \A i \in 1..n : i \in 1..m /\ i < n + 1 /\ i # m
OBVIOUS

\* What a call wants comes after all it holds.
LEMMA HeldBefore ==
  ASSUME Inv, Held, NEW rank, NEW top, Ordered(rank, top),
         NEW s \in Sessions, pc[s] # "idle", done[s] < Len(Needs[call[s]])
  PROVE  /\ Object(s) \in Objects /\ rank[Object(s)] \in Nat
         /\ \A p \in made[s] : rank[p] < rank[Object(s)]
         /\ \A p \in made[s] : IsTable(p)
         /\ ~IsTable(Object(s)) => made[s] \subseteq {TableOf[Object(s)]}
<1> DEFINE needs == Needs[call[s]]
           n == done[s]
<1>1. needs \in Seq(Objects) /\ n \in Nat /\ n < Len(needs) /\ call[s] \in DOMAIN Needs
  BY SchemaAssumption DEF Inv, Calling, TypeOK
<1>2. Object(s) = needs[n + 1] /\ Object(s) \in Objects
  BY ObjectIsObject DEF Object
<1>3. made[s] \subseteq FirstOf(needs, n)
  BY DEF Held
<1> HIDE DEF needs, n
<1>4. /\ n + 1 \in DOMAIN needs
      /\ \A i \in 1..n : i \in DOMAIN needs /\ i < n + 1 /\ i # Len(needs)
  <2>1. DOMAIN needs = 1..Len(needs) /\ Len(needs) \in Nat
    BY <1>1
  <2> DEFINE m == Len(needs)
  <2>2. m \in Nat /\ n \in Nat /\ n < m
    BY <1>1, <2>1
  <2> HIDE DEF m
  <2>3. n + 1 \in 1..m /\ \A i \in 1..n : i \in 1..m /\ i < n + 1 /\ i # m
    BY <2>2, Before
  <2>4. QED BY <2>1, <2>3, Zenon DEF m
<1>5. \A p \in made[s] : \E i \in 1..n : p = needs[i]
  BY <1>3 DEF FirstOf
<1>6. \A p \in made[s] : rank[p] < rank[needs[n + 1]] /\ IsTable(p)
  <2>1. SUFFICES ASSUME NEW i \in 1..n
                 PROVE  rank[needs[i]] < rank[needs[n + 1]] /\ IsTable(needs[i])
    BY <1>5
  <2> DEFINE m == n + 1
  <2>2. i \in DOMAIN needs /\ m \in DOMAIN needs /\ i < m /\ i # Len(needs)
    BY <1>4
  <2>3. \A j, k \in DOMAIN needs : j < k => rank[needs[j]] < rank[needs[k]]
    BY <1>1, Zenon DEF Ordered, needs
  <2>4. \A j \in DOMAIN needs : ~IsTable(needs[j]) => j = Len(needs)
    BY <1>1, Zenon DEF Ordered, needs
  <2> HIDE DEF m
  <2>5. rank[needs[i]] < rank[needs[m]] /\ IsTable(needs[i])
    BY <2>2, <2>3, <2>4, Zenon
  <2>6. QED BY <2>5 DEF m
<1>7. rank[Object(s)] \in Nat
  BY <1>2 DEF Ordered
<1>8. ~IsTable(needs[n + 1]) => made[s] \subseteq {TableOf[needs[n + 1]]}
  <2>1. SUFFICES ASSUME ~IsTable(needs[n + 1]), NEW p \in made[s] PROVE p = TableOf[needs[n + 1]]
    OBVIOUS
  <2>2. Elements(needs) \subseteq {needs[n + 1], TableOf[needs[n + 1]]}
    BY <1>1, <1>4, <2>1 DEF Ordered, needs
  <2>3. p \in Elements(needs)
    BY <1>4, <1>5 DEF Elements
  <2>4. p # needs[n + 1]
    BY <1>6, <2>1
  <2>5. QED BY <2>2, <2>3, <2>4
<1>9. QED BY <1>2, <1>6, <1>7, <1>8

\* The same of the script on its way up.
LEMMA MadeBefore ==
  ASSUME Inv, NEW rank, NEW top, Ordered(rank, top), Upgrading, step < Len(Makes[at + 1])
  PROVE  /\ NextMade \in Objects /\ rank[NextMade] \in Nat
         /\ \A p \in made[Alembic] : rank[p] < rank[NextMade]
<1> DEFINE n == at + 1
<1>1. n \in Revisions /\ step \in Nat /\ at \in Nat /\ n - 1 = at
  BY SchemaAssumption DEF Inv, TypeOK, Upgrading, Revisions
<1>2. Makes[n] \in Seq(Objects) /\ step < Len(Makes[n])
  BY <1>1, SchemaAssumption
<1>3. NextMade = Makes[n][step + 1] /\ NextMade \in Content(n) /\ NextMade \in Objects
  BY <1>1, <1>2, SeqFacts DEF NextMade, Content
<1>4. made[Alembic] \subseteq Through(at) \cup FirstOf(Makes[n], step)
  BY DEF Inv, Climbing, Upgrading
<1>5. ASSUME NEW p \in Through(at) PROVE rank[p] < rank[NextMade]
  <2>1. PICK m \in 1..at : p \in Content(m)
    BY Zenon DEF Through
  <2>2. m \in Revisions /\ m < n
    BY <1>1, <2>1, SchemaAssumption DEF Revisions
  <2>3. QED BY <1>1, <1>3, <2>1, <2>2 DEF Ordered
<1>6. ASSUME NEW p \in FirstOf(Makes[n], step) PROVE rank[p] < rank[NextMade]
  <2> DEFINE seq == Makes[n]
  <2>1. PICK i \in 1..step : p = seq[i]
    BY DEF FirstOf
  <2>2. DOMAIN seq = 1..Len(seq) /\ Len(seq) \in Nat
    BY <1>2
  <2> HIDE DEF seq
  <2>3. i \in DOMAIN seq /\ step + 1 \in DOMAIN seq /\ i < step + 1
    BY <1>1, <1>2, <2>1, <2>2 DEF seq
  <2>4. QED BY <1>1, <1>3, <2>1, <2>3 DEF Ordered, seq
<1>7. rank[NextMade] \in Nat
  BY <1>3 DEF Ordered
<1> HIDE DEF n
<1>8. QED BY <1>3, <1>4, <1>5, <1>6, <1>7

\* A column the script makes has its table behind it.
LEMMA TableFirst ==
  ASSUME Inv, mode = "up",
         NEW p, ~IsTable(p), \/ p \in made[Alembic]
                             \/ Upgrading /\ step < Len(Makes[at + 1]) /\ p = NextMade
  PROVE  TableOf[p] \in Tables \cup made[Alembic]
<1>1. at \in 0..LastRevision /\ step \in Nat /\ LastRevision \in Nat
  BY SchemaAssumption DEF Inv, TypeOK
<1>2. Through(version) \cup made[Alembic] = Through(at) \cup FirstOf(Makes[at + 1], step)
  BY DEF Inv, Climbing
<1>3. Through(version) \subseteq Tables
  BY DEF Inv, VersionIsHonest, Tables
<1>4. PICK n \in Revisions : p \in Content(n) /\ n <= at + 1
  <2>1. CASE p \in Through(at)
    <3>1. PICK m \in 1..at : p \in Content(m)
      BY <2>1, Zenon DEF Through
    <3>2. QED BY <1>1, <3>1 DEF Revisions
  <2>2. CASE at < LastRevision /\ p \in FirstOf(Makes[at + 1], step)
    <3>1. at + 1 \in Revisions
      BY <1>1, <2>2 DEF Revisions
    <3>2. Makes[at + 1] \in Seq(Objects) /\ step <= Len(Makes[at + 1])
      BY <2>2, <3>1, SchemaAssumption DEF Inv, Climbing
    <3>3. FirstOf(Makes[at + 1], step) \subseteq FirstOf(Makes[at + 1], Len(Makes[at + 1]))
      <4> DEFINE len == Len(Makes[at + 1])
      <4>1. len \in Nat /\ step <= len
        BY <3>2
      <4> HIDE DEF len
      <4>2. \A i \in 1..step : i \in 1..len
        BY <1>1, <4>1
      <4>3. QED BY <4>2 DEF FirstOf, len
    <3>4. p \in Content(at + 1)
      BY <2>2, <3>2, <3>3, SeqFacts DEF Content
    <3>5. QED BY <1>1, <3>1, <3>4
  <2>3. CASE Upgrading /\ step < Len(Makes[at + 1]) /\ p = NextMade
    <3>1. at + 1 \in Revisions
      BY <1>1, <2>3 DEF Revisions, Upgrading
    <3>2. Makes[at + 1] \in Seq(Objects)
      BY <3>1, SchemaAssumption
    <3>3. p \in Content(at + 1)
      BY <1>1, <2>3, <3>2, SeqFacts DEF Content, NextMade
    <3>4. QED BY <1>1, <3>1, <3>3
  <2>4. at = LastRevision => FirstOf(Makes[at + 1], step) = {}
    BY DEF Inv, Climbing, FirstOf
  <2>5. QED BY <1>1, <1>2, <2>1, <2>2, <2>3, <2>4
<1>5. PICK m \in 1..n - 1 : TableOf[p] \in Content(m)
  BY <1>4, ChainAssumption
<1>6. m \in 1..at
  BY <1>1, <1>4, <1>5 DEF Revisions
<1>7. TableOf[p] \in Through(at)
  BY <1>5, <1>6, Zenon DEF Through
<1>8. QED BY <1>2, <1>3, <1>7

\* A downgrade has made nothing.
LEMMA OnlyUpwards ==
  ASSUME Inv, made[Alembic] # {} PROVE mode = "up"
BY DEF Inv, TypeOK, Descending

\* A call that waits and holds something waits for a table; nobody waits for the
\* others.
LEMMA HoldersBlocked ==
  ASSUME Inv, Held, NEW rank, NEW top, Ordered(rank, top),
         NEW y \in Sessions, NEW z \in Everyone, NEW w \in Everyone,
         WaitsFor(y, z), WaitsFor(z, w), made[y] # {}
  PROVE  pc[y] = "blocked" /\ done[y] < Len(Needs[call[y]])
<1>1. y # Alembic /\ CallWaits(y, z) /\ z # y
  BY SchemaAssumption DEF WaitsFor
<1>2. pc[y] # "use"
  BY DEF Held
<1>3. CASE pc[y] = "blocked"
  BY <1>3 DEF Inv, Calling
<1>4. CASE Ensuring(y) /\ ~IsTable(Object(y)) /\ HasTable(z, Object(y))
  <2> DEFINE t == TableOf[Object(y)]
  <2>1. t \in made[y]
    BY <1>4, HeldBefore DEF Ensuring
  <2>2. t \notin Tables /\ t \notin made[z]
    BY <1>1, <2>1 DEF Inv, MadeOnce, Everyone
  <2>3. PICK p \in Objects : TableOf[p] = t /\ (p \in made[z] \/ p \in gone)
    BY <1>4 DEF HasTable
  <2>4. p \in made[z]
    BY <2>2, <2>3 DEF Held
  <2>5. ~IsTable(p)
    BY <2>2, <2>3, <2>4 DEF IsTable
  <2>6. CASE z = Alembic
    <3>1. mode = "up"
      BY <2>4, <2>6, OnlyUpwards
    <3>2. t \in Tables \cup made[z]
      BY <2>3, <2>4, <2>5, <2>6, <3>1, TableFirst
    <3>3. QED BY <2>2, <3>2
  <2>7. CASE z \in Sessions
    <3>1. z # Alembic /\ CallWaits(z, w)
      BY <2>7, SchemaAssumption DEF WaitsFor
    <3>2. pc[z] # "use" /\ pc[z] # "idle"
      BY <2>4, <2>7, <3>1 DEF Held, CallWaits, Ensuring
    <3>3. done[z] < Len(Needs[call[z]])
      BY <2>7, <3>1, <3>2 DEF CallWaits, Ensuring, Inv, Calling
    <3>4. QED BY <2>4, <2>5, <2>7, <3>2, <3>3, HeldBefore
  <2>8. QED BY <2>6, <2>7 DEF Everyone
<1>5. QED BY <1>1, <1>2, <1>3, <1>4 DEF CallWaits

\* Whoever is waited for and waits is further than the one who waits for it.
LEMMA DeeperAndDeeper ==
  ASSUME Inv, Held, NEW rank, NEW top, Ordered(rank, top),
         NEW x \in Everyone, NEW y \in Everyone, NEW z \in Everyone, NEW w \in Everyone,
         WaitsFor(x, y), WaitsFor(y, z), WaitsFor(z, w)
  PROVE  /\ Depth(rank, x) \in Nat /\ Depth(rank, y) \in 0..top + 2
         /\ Depth(rank, x) < Depth(rank, y)
<1>1. y \in Sessions /\ made[y] # {} =>
        /\ y # Alembic /\ pc[y] = "blocked" /\ Object(y) \in Objects
        /\ rank[Object(y)] \in 0..top
        /\ Depth(rank, y) = 2 + rank[Object(y)]
        /\ \A p \in made[y] : rank[p] < rank[Object(y)] /\ IsTable(p)
  <2>1. SUFFICES ASSUME y \in Sessions, made[y] # {}
        PROVE /\ y # Alembic /\ pc[y] = "blocked" /\ Object(y) \in Objects
              /\ rank[Object(y)] \in 0..top
              /\ Depth(rank, y) = 2 + rank[Object(y)]
              /\ \A p \in made[y] : rank[p] < rank[Object(y)] /\ IsTable(p)
    OBVIOUS
  <2>2. y # Alembic /\ pc[y] = "blocked" /\ done[y] < Len(Needs[call[y]])
    BY <2>1, HoldersBlocked, SchemaAssumption
  <2>3. /\ Object(y) \in Objects
        /\ \A p \in made[y] : rank[p] < rank[Object(y)]
        /\ \A p \in made[y] : IsTable(p)
    BY <2>1, <2>2, HeldBefore
  <2>4. QED BY <2>2, <2>3 DEF Depth, Ordered
<1>2. y = Alembic =>
        /\ mode \in {"up", "down"}
        /\ mode = "up" =>
             /\ NextMade \in Objects /\ rank[NextMade] \in 0..top
             /\ Depth(rank, y) = 2 + rank[NextMade]
             /\ \A p \in made[y] : rank[p] < rank[NextMade]
        /\ mode = "down" => made[y] = {} /\ Depth(rank, y) = 1
  <2>1. SUFFICES ASSUME y = Alembic, ScriptWaits(z)
        PROVE /\ mode \in {"up", "down"}
              /\ mode = "up" =>
                   /\ NextMade \in Objects /\ rank[NextMade] \in 0..top
                   /\ Depth(rank, y) = 2 + rank[NextMade]
                   /\ \A p \in made[y] : rank[p] < rank[NextMade]
              /\ mode = "down" => made[y] = {} /\ Depth(rank, y) = 1
    BY DEF WaitsFor
  <2>2. mode \in {"up", "down"} /\ (mode = "up" => Upgrading /\ step < Len(Makes[at + 1]))
    BY <2>1 DEF ScriptWaits, Upgrading
  <2>3. mode = "up" => /\ NextMade \in Objects
                       /\ \A p \in made[y] : rank[p] < rank[NextMade]
    BY <2>1, <2>2, MadeBefore
  <2>4. mode = "down" => made[y] = {}
    BY <2>1 DEF Inv, Descending
  <2>5. QED BY <2>1, <2>2, <2>3, <2>4 DEF Depth, Ordered
<1>3. top \in Nat
  BY DEF Ordered
<1>4. CASE x \in Sessions /\ pc[x] = "blocked"
  <2>1. x # Alembic /\ Object(x) \in made[y]
    BY <1>4, SchemaAssumption DEF WaitsFor, CallWaits, Ensuring
  <2>2. rank[Object(x)] \in Nat /\ Depth(rank, x) = 2 + rank[Object(x)]
    BY <1>4, <2>1, HeldBefore DEF Depth, Inv, Calling
  <2>3. QED BY <1>1, <1>2, <1>3, <2>1, <2>2 DEF Everyone
<1>5. CASE x \in Sessions /\ pc[x] # "blocked"
  <2>1. x # Alembic /\ Depth(rank, x) = 0
    BY <1>5, SchemaAssumption DEF Depth
  <2>2. y = Alembic \/ made[y] # {}
    BY <1>5, <2>1 DEF WaitsFor, CallWaits, HasTable
  <2>3. QED BY <1>1, <1>2, <1>3, <2>1, <2>2 DEF Everyone
<1>6. CASE x = Alembic
  <2>1. y # Alembic /\ y \in Sessions /\ ScriptWaits(y)
    BY <1>6 DEF WaitsFor, Everyone
  <2>2. made[y] # {}
    BY <2>1 DEF ScriptWaits, HasTable
  <2>3. CASE mode = "up"
    <3>1. Upgrading /\ step < Len(Makes[at + 1]) /\ NextMade \notin Tables
          /\ (NextMade \in made[y] \/ (~IsTable(NextMade) /\ HasTable(y, NextMade)))
      BY <2>1, <2>3 DEF ScriptWaits
    <3>2. Depth(rank, x) = 2 + rank[NextMade] /\ rank[NextMade] \in Nat
      BY <1>6, <2>3, <3>1, MadeBefore DEF Depth
    <3>3. CASE NextMade \in made[y]
      BY <1>1, <1>3, <2>1, <2>2, <3>2, <3>3
    <3>4. CASE ~IsTable(NextMade) /\ HasTable(y, NextMade)
      <4>1. PICK p \in Objects : TableOf[p] = TableOf[NextMade] /\ p \in made[y]
        BY <2>1, <3>4 DEF HasTable
      <4>2. TableOf[NextMade] \in made[y]
        BY <1>1, <2>1, <2>2, <4>1 DEF IsTable
      <4>3. TableOf[NextMade] \in Tables \cup made[Alembic]
        BY <2>3, <3>1, <3>4, TableFirst
      <4>4. FALSE
        BY <2>1, <4>2, <4>3 DEF Inv, MadeOnce, Everyone
      <4>5. QED BY <4>4
    <3>5. QED BY <3>1, <3>3, <3>4
  <2>4. CASE mode # "up"
    BY <1>1, <1>3, <1>6, <2>1, <2>2, <2>4 DEF Depth
  <2>5. QED BY <2>3, <2>4
<1>7. QED BY <1>4, <1>5, <1>6 DEF Everyone

\* Induction over the numbers, as a fact about sets of them.
LEMMA Induction ==
  ASSUME NEW S \in SUBSET Nat, 0 \in S, \A n \in S : n + 1 \in S
  PROVE  S = Nat
<1> DEFINE T == Nat \ S
<1>1. SUFFICES ASSUME T # {} PROVE FALSE
  OBVIOUS
<1>2. PICK m \in T : \A k \in T : <<k, m>> \notin OpToRel(<, Nat)
  BY <1>1, WFMin, NatLessThanWellFounded, Zenon
<1>3. \A k \in T : ~(k < m)
  BY <1>2, Zenon DEF OpToRel
<1>4. m # 0 /\ m - 1 \in Nat
  OBVIOUS
<1>5. m - 1 \in S
  BY <1>3, <1>4
<1>6. QED BY <1>5

\* Scripts and calls never wait in a circle, for every chain and any number of
\* calls, if revisions and calls create the same objects in the same order and a
\* call that adds a column has nothing but its table beside it.  It is the safety
\* half of EveryoneEnds.
THEOREM LocksHaveNoCycle ==
  ASSUME NEW rank, NEW top, Ordered(rank, top)
  PROVE  Spec => []NoCircle
<1>1. Inv /\ Held => NoCircle
  <2> SUFFICES ASSUME Inv, Held, NEW W \in SUBSET Everyone, W # {},
                      \A x \in W : \E y \in W : WaitsFor(x, y)
               PROVE  FALSE
    BY DEF NoCircle
  <2> DEFINE deep == {n \in Nat : \E x \in W : Depth(rank, x) \in Nat /\ Depth(rank, x) >= n}
  <2>1. ASSUME NEW x \in W
        PROVE  \E y \in W : /\ Depth(rank, x) \in Nat /\ Depth(rank, y) \in 0..top + 2
                            /\ Depth(rank, x) < Depth(rank, y)
    <3>1. PICK y \in W : WaitsFor(x, y)
      OBVIOUS
    <3>2. PICK z \in W : WaitsFor(y, z)
      OBVIOUS
    <3>3. PICK w \in W : WaitsFor(z, w)
      OBVIOUS
    <3>4. x \in Everyone /\ y \in Everyone /\ z \in Everyone /\ w \in Everyone
      OBVIOUS
    <3>5. QED BY <3>1, <3>2, <3>3, <3>4, DeeperAndDeeper
  <2>2. top \in Nat
    BY DEF Ordered
  <2>3. \A x \in W : Depth(rank, x) \in Nat
    BY <2>1
  <2> DEFINE d(x) == Depth(rank, x)
  <2>4. 0 \in deep
    BY <2>3
  <2>5. ASSUME NEW n \in deep PROVE n + 1 \in deep
    <3>1. PICK x \in W : Depth(rank, x) \in Nat /\ Depth(rank, x) >= n
      OBVIOUS
    <3>2. PICK y \in W : Depth(rank, y) \in 0..top + 2 /\ Depth(rank, x) < Depth(rank, y)
      BY <2>1
    <3>3. Depth(rank, y) \in Nat /\ Depth(rank, y) >= n + 1
      BY <2>2, <3>1, <3>2
    <3>4. QED BY <3>3
  <2>6. deep = Nat
    BY <2>4, <2>5, Induction
  <2>7. PICK x \in W : Depth(rank, x) \in Nat /\ Depth(rank, x) >= top + 3
    BY <2>2, <2>6
  <2>8. PICK y \in W : Depth(rank, y) \in 0..top + 2 /\ Depth(rank, x) < Depth(rank, y)
    BY <2>1
  <2>9. QED BY <2>2, <2>7, <2>8
<1>2. QED BY <1>1, HeldAlways, PTL

\* Those with a transaction or a call under way.
Busy ==
  {s \in Sessions : pc[s] # "idle"} \cup (IF mode = "idle" THEN {} ELSE {Alembic})

\* The next statement of a call, or of the script, is not held up by a lock: what
\* the guards of Progress and Script ask for.
CallReady(s) ==
  \/ Ensuring(s) /\ (IsTable(Object(s)) \/ ~Locked(Object(s), s))
  \/ pc[s] = "blocked" /\ ~InTheMaking(Object(s), s)
  \/ pc[s] = "ensure" /\ done[s] = Len(Needs[call[s]])
  \/ pc[s] = "use" /\ \A o \in Elements(Needs[call[s]]) : ~Locked(o, s)

MakeReady ==
  /\ Upgrading /\ step < Len(Makes[at + 1])
  /\ \/ NextMade \in Tables
     \/ ~InTheMaking(NextMade, Alembic) /\ (IsTable(NextMade) \/ ~Locked(NextMade, Alembic))
DropReady ==
  mode = "down" /\ at > 0 /\ step < Len(Drops[at]) /\ ~Locked(Drops[at][step + 1], Alembic)
StampReady ==
  \/ Upgrading /\ step = Len(Makes[at + 1])
  \/ /\ mode = "down" /\ at > 0 /\ step = Len(Drops[at])
     /\ at > 1 => IdLength[at - 1] <= width
ScriptReady == MakeReady \/ DropReady \/ StampReady \/ (mode # "idle" /\ Arrived)

Ready(x) == IF x = Alembic THEN ScriptReady ELSE CallReady(x)

SomebodyIsReady == Busy # {} => \E x \in Busy : Ready(x)

\* The revisions that were reached have identifiers that fit.
Fitting ==
  /\ \A n \in Revisions : n <= version => IdLength[n] <= width
  /\ \A n \in Revisions : n <= at => IdLength[n] <= width
  /\ mode = "down" => version > 0

\* No revision with an identifier too long is ever reached.
LEMMA FittingAlways == Spec => []Fitting
<1>1. Init => Fitting
  BY SchemaAssumption DEF Init, Fitting, Revisions
<1>2. Inv /\ Fitting /\ [Next]_vars => Fitting'
  <2> SUFFICES ASSUME Inv, Fitting, [Next]_vars PROVE Fitting'
    OBVIOUS
  <2>t. /\ TypeOK /\ version \in Nat /\ at \in Nat /\ at <= LastRevision
        /\ mode \in {"idle", "up", "down"}
    BY SchemaAssumption DEF Inv, TypeOK
  <2>1. CASE BeginUpgrade \/ BeginDowngrade
    BY <2>t, <2>1 DEF BeginUpgrade, BeginDowngrade, Fitting
  <2>2. CASE Make \/ Drop \/ UNCHANGED vars
    BY <2>t, <2>2 DEF Make, Drop, Fitting, vars, script
  <2>3. CASE Rollback
    BY <2>t, <2>3 DEF Rollback, Fitting, Revisions
  <2>4. CASE Stamp
    <3>1. CASE mode = "up"
      <4>1. at' = at + 1 /\ IdLength[at + 1] <= width /\ UNCHANGED <<version, width, mode>>
        BY <2>t, <2>4, <3>1 DEF Stamp
      <4>2. \A n \in Revisions : n <= at + 1 => n <= at \/ n = at + 1
        BY <2>t DEF Revisions
      <4>3. QED BY <4>1, <4>2, <3>1 DEF Fitting
    <3>2. CASE mode # "up"
      <4>1. at' = at - 1 /\ UNCHANGED <<version, width, mode>>
        BY <2>t, <2>4, <3>2 DEF Stamp
      <4>2. \A n \in Revisions : n <= at - 1 => n <= at
        BY <2>t DEF Revisions
      <4>3. QED BY <4>1, <4>2 DEF Fitting
    <3>3. QED BY <3>1, <3>2
  <2>5. CASE Commit
    BY <2>t, <2>5, SchemaAssumption DEF Commit, Land, Fitting, Revisions
  <2>6. ASSUME NEW s \in Sessions,
               Begin(s) \/ Block(s) \/ End(s) \/ Takes(s) \/ CommitEnsure(s)
        PROVE  Fitting'
    BY <2>6 DEF Begin, Block, End, Takes, Ensured, CommitEnsure, script, Fitting
  <2>7. QED BY Forms, <2>1, <2>2, <2>3, <2>4, <2>5, <2>6
<1>3. QED BY <1>1, <1>2, InvAlways, PTL DEF Spec

\* Who is busy and not ready waits for somebody, who is busy.
LEMMA UnreadyWait ==
  ASSUME Inv, Held, Fitting, NEW x \in Busy, ~Ready(x)
  PROVE  \E y \in Busy : WaitsFor(x, y)
<1>1. \A y \in Everyone : made[y] # {} \/ (y = Alembic /\ gone # {}) => y \in Busy
  BY SchemaAssumption DEF Busy, Everyone, Held, Inv, TypeOK
<1>2. \A o : \A z \in Everyone :
        Locked(o, z) => \E y \in Everyone : y # z /\ HasTable(y, o)
  BY DEF Locked, InTheMaking, HasTable, Everyone
<1>3. \A y \in Everyone : \A o : HasTable(y, o) => y \in Busy
  BY <1>1 DEF HasTable
<1>4. x \in Everyone /\ (x # Alembic => x \in Sessions /\ pc[x] # "idle")
  BY DEF Busy, Everyone
<1>5. CASE x # Alembic
  <2>1. /\ pc[x] \in {"ensure", "blocked", "use"}
        /\ done[x] \in Nat /\ Needs[call[x]] \in Seq(Objects) /\ done[x] <= Len(Needs[call[x]])
        /\ ~CallReady(x)
    BY <1>4, <1>5, SchemaAssumption DEF Inv, TypeOK, Calling, Ready
  <2>2. CASE pc[x] = "blocked"
    <3>1. PICK y \in Everyone : y # x /\ Object(x) \in made[y]
      BY <2>1, <2>2 DEF CallReady, InTheMaking, Everyone
    <3>2. QED BY <1>1, <1>5, <2>2, <3>1 DEF WaitsFor, CallWaits
  <2>3. CASE pc[x] = "ensure"
    <3>1. done[x] < Len(Needs[call[x]])
      <4> DEFINE len == Len(Needs[call[x]])
      <4>1. len \in Nat /\ done[x] # len /\ done[x] <= len
        BY <2>1, <2>3 DEF CallReady
      <4> HIDE DEF len
      <4>2. done[x] < len
        BY <2>1, <4>1
      <4>3. QED BY <4>2 DEF len
    <3>2. Ensuring(x) /\ ~IsTable(Object(x)) /\ Locked(Object(x), x)
      BY <2>1, <2>3, <3>1 DEF CallReady, Ensuring
    <3>3. PICK y \in Everyone : y # x /\ HasTable(y, Object(x))
      BY <1>2, <1>4, <3>2
    <3>4. QED BY <1>3, <1>5, <3>2, <3>3 DEF WaitsFor, CallWaits
  <2>4. CASE pc[x] = "use"
    <3>1. PICK o \in Elements(Needs[call[x]]) : Locked(o, x)
      BY <2>1, <2>4 DEF CallReady
    <3>2. PICK y \in Everyone : y # x /\ HasTable(y, o)
      BY <1>2, <1>4, <3>1
    <3>3. QED BY <1>3, <1>5, <2>4, <3>1, <3>2 DEF WaitsFor, CallWaits
  <2>5. QED BY <2>1, <2>2, <2>3, <2>4
<1>6. CASE x = Alembic
  <2>1. /\ mode \in {"up", "down"} /\ at \in 0..LastRevision /\ step \in Nat
        /\ LastRevision \in Nat /\ version \in Nat /\ ~ScriptReady
    BY <1>6, SchemaAssumption DEF Inv, TypeOK, Busy, Ready
  <2>2. CASE mode = "up"
    <3>1. at < LastRevision
      BY <2>1, <2>2 DEF Inv, Climbing, ScriptReady, Arrived
    <3>2. step < Len(Makes[at + 1])
      <4> DEFINE len == Len(Makes[at + 1])
      <4>1. Makes[at + 1] \in Seq(Objects)
        BY <2>1, <3>1, SchemaAssumption DEF Revisions
      <4>2. len \in Nat /\ step # len /\ step <= len
        BY <2>1, <2>2, <3>1, <4>1 DEF ScriptReady, StampReady, Upgrading, Inv, Climbing
      <4> HIDE DEF len
      <4>3. step < len
        BY <2>1, <4>2
      <4>4. QED BY <4>3 DEF len
    <3>3. NextMade \notin Tables
          /\ (InTheMaking(NextMade, Alembic) \/ (~IsTable(NextMade) /\ Locked(NextMade, Alembic)))
      BY <2>1, <2>2, <3>1, <3>2 DEF ScriptReady, MakeReady, Upgrading
    <3>4. PICK y \in Everyone :
            y # Alembic /\ (NextMade \in made[y] \/ (~IsTable(NextMade) /\ HasTable(y, NextMade)))
      BY <1>2, <1>4, <1>6, <3>3 DEF InTheMaking, Everyone
    <3>5. QED BY <1>1, <1>3, <1>6, <2>2, <3>1, <3>2, <3>3, <3>4
              DEF WaitsFor, ScriptWaits, Upgrading
  <2>3. CASE mode = "down"
    <3>1. at > 0
      <4>1. SUFFICES ASSUME at = 0 PROVE FALSE
        BY <2>1
      <4>2. QED BY <2>1, <2>3, <4>1 DEF Inv, Descending, Fitting, ScriptReady, Arrived
    <3>2. at \in Revisions /\ (at > 1 => IdLength[at - 1] <= width)
      <4>1. at \in Revisions /\ (at > 1 => at - 1 \in Revisions /\ at - 1 <= at)
        BY <2>1, <3>1 DEF Revisions
      <4>2. QED BY <4>1 DEF Fitting
    <3>3. step < Len(Drops[at])
      <4> DEFINE len == Len(Drops[at])
      <4>1. Drops[at] \in Seq(Objects)
        BY <3>2, SchemaAssumption
      <4>2. len \in Nat /\ step # len /\ step <= len
        BY <2>1, <2>3, <3>1, <3>2, <4>1 DEF ScriptReady, StampReady, Inv, Descending
      <4> HIDE DEF len
      <4>3. step < len
        BY <2>1, <4>2
      <4>4. QED BY <4>3 DEF len
    <3>4. Locked(Drops[at][step + 1], Alembic)
      BY <2>1, <2>3, <3>1, <3>3 DEF ScriptReady, DropReady
    <3>5. PICK y \in Everyone : y # Alembic /\ HasTable(y, Drops[at][step + 1])
      BY <1>2, <1>4, <1>6, <3>4
    <3>6. QED BY <1>3, <1>6, <2>3, <3>1, <3>3, <3>5 DEF WaitsFor, ScriptWaits
  <2>4. QED BY <2>1, <2>2, <2>3
<1>7. QED BY <1>5, <1>6

\* Whoever is busy, somebody who is busy can go on: the next statement is not held
\* up by a lock, whatever is upgraded, downgraded, ensured or killed.
THEOREM LocksLetSomebodyGo ==
  ASSUME NEW rank, NEW top, Ordered(rank, top)
  PROVE  Spec => []SomebodyIsReady
<1>1. Inv /\ Held /\ Fitting /\ NoCircle => SomebodyIsReady
  <2> SUFFICES ASSUME Inv, Held, Fitting, NoCircle, Busy # {},
                      \A x \in Busy : ~Ready(x)
               PROVE  FALSE
    BY DEF SomebodyIsReady
  <2>1. \A x \in Busy : \E y \in Busy : WaitsFor(x, y)
    BY UnreadyWait
  <2>2. Busy \in SUBSET Everyone
    BY DEF Busy, Everyone
  <2>3. QED BY <2>1, <2>2 DEF NoCircle
<1>2. QED BY <1>1, HeldAlways, FittingAlways, LocksHaveNoCycle, PTL

\* The position of an object in the chain of the repository.
Place(o) ==
  CASE o = "raw_eset_events" -> 1 [] o = "incidents" -> 2
    [] o = "knowledge_documents" -> 3 [] o = "knowledge_chunks" -> 4
    [] o = "incident_analyses" -> 5 [] o = "notification_deliveries" -> 6
    [] o = "pending_approvals" -> 7 [] o = "collection_runs" -> 8
    [] o = "error_message" -> 9 [] o = "pending_detection_approvals" -> 10
    [] o = "detection_collection_runs" -> 11

\* The objects of its revisions, and what its repositories ensure.
Everything ==
  {"raw_eset_events", "incidents", "knowledge_documents", "knowledge_chunks",
   "incident_analyses", "notification_deliveries", "pending_approvals", "collection_runs",
   "error_message", "pending_detection_approvals", "detection_collection_runs"}

Repositories ==
  [notifications |-> NotificationTables, approvals |-> ApprovalTables,
   collection_runs |-> CollectionRunTables, knowledge |-> KnowledgeTables,
   detection_approvals |-> DetectionApprovalTables, detection_runs |-> DetectionRunTables]

\* In the repository both create what they share in the same order.
LEMMA RepositoryOrdered ==
  ASSUME LastRevision = 7, Makes = UpgradeChain, Needs = Repositories,
         Objects = Everything, TableOf = [o \in Everything |-> ColumnTable(o)]
  PROVE  Ordered([o \in Objects |-> Place(o)], 11)
<1> DEFINE rank == [o \in Objects |-> Place(o)]
<1>1. /\ rank["raw_eset_events"] = 1 /\ rank["incidents"] = 2
      /\ rank["knowledge_documents"] = 3 /\ rank["knowledge_chunks"] = 4
      /\ rank["incident_analyses"] = 5 /\ rank["notification_deliveries"] = 6
      /\ rank["pending_approvals"] = 7 /\ rank["collection_runs"] = 8
      /\ rank["error_message"] = 9 /\ rank["pending_detection_approvals"] = 10
      /\ rank["detection_collection_runs"] = 11
  BY DEF Place, Everything
<1>2. rank \in [Objects -> 0..11]
  BY <1>1 DEF Everything
<1>3. /\ Revisions = {1, 2, 3, 4, 5, 6, 7}
      /\ Makes[1] = Upgrade001 /\ Makes[2] = Upgrade002 /\ Makes[3] = Upgrade003
      /\ Makes[4] = Upgrade004 /\ Makes[5] = Upgrade005 /\ Makes[6] = Upgrade006
      /\ Makes[7] = Upgrade007
  BY DEF Revisions, UpgradeChain
<1>4. /\ DOMAIN Upgrade001 = {1, 2} /\ DOMAIN Upgrade002 = {1, 2, 3} /\ DOMAIN Upgrade003 = {1}
      /\ DOMAIN Upgrade004 = {1} /\ DOMAIN Upgrade005 = {1} /\ DOMAIN Upgrade006 = {1}
      /\ DOMAIN Upgrade007 = {1, 2}
  BY DEF Upgrade001, Upgrade002, Upgrade003, Upgrade004, Upgrade005, Upgrade006, Upgrade007
<1>5. /\ Upgrade001[1] = "raw_eset_events" /\ Upgrade001[2] = "incidents"
      /\ Upgrade002[1] = "knowledge_documents" /\ Upgrade002[2] = "knowledge_chunks"
      /\ Upgrade002[3] = "incident_analyses" /\ Upgrade003[1] = "notification_deliveries"
      /\ Upgrade004[1] = "pending_approvals" /\ Upgrade005[1] = "collection_runs"
      /\ Upgrade006[1] = "error_message" /\ Upgrade007[1] = "pending_detection_approvals"
      /\ Upgrade007[2] = "detection_collection_runs"
  BY DEF Upgrade001, Upgrade002, Upgrade003, Upgrade004, Upgrade005, Upgrade006, Upgrade007
<1> HIDE DEF rank
<1>6. ASSUME NEW n \in Revisions, NEW i \in DOMAIN Makes[n], NEW j \in DOMAIN Makes[n], i < j
      PROVE  rank[Makes[n][i]] < rank[Makes[n][j]]
  BY <1>1, <1>3, <1>4, <1>5, <1>6
<1>7. /\ Content(1) = {"raw_eset_events", "incidents"}
      /\ Content(2) = {"knowledge_documents", "knowledge_chunks", "incident_analyses"}
      /\ Content(3) = {"notification_deliveries"} /\ Content(4) = {"pending_approvals"}
      /\ Content(5) = {"collection_runs"} /\ Content(6) = {"error_message"}
      /\ Content(7) = {"pending_detection_approvals", "detection_collection_runs"}
  BY <1>3, <1>4, <1>5 DEF Content, Elements
<1>8. ASSUME NEW m \in Revisions, NEW n \in Revisions, m < n, NEW o \in Content(m), NEW p \in Content(n)
      PROVE  rank[o] < rank[p]
  BY <1>1, <1>3, <1>7, <1>8
<1>9. ASSUME NEW c \in DOMAIN Needs
      PROVE  \/ \E o \in Everything : Needs[c] = <<o>> /\ ColumnTable(o) = o
             \/ Needs[c] = <<"collection_runs", "error_message">>
             \/ Needs[c] = <<"knowledge_documents", "knowledge_chunks">>
  BY <1>9 DEF Repositories, NotificationTables, ApprovalTables, CollectionRunTables,
     KnowledgeTables, DetectionApprovalTables, DetectionRunTables, Everything, ColumnTable
<1>10. ASSUME NEW c \in DOMAIN Needs, NEW i \in DOMAIN Needs[c], NEW j \in DOMAIN Needs[c], i < j
       PROVE  rank[Needs[c][i]] < rank[Needs[c][j]]
  BY <1>1, <1>9, <1>10
<1>11. ASSUME NEW c \in DOMAIN Needs, NEW i \in DOMAIN Needs[c], ~IsTable(Needs[c][i])
       PROVE  i = Len(Needs[c]) /\ Elements(Needs[c]) \subseteq {Needs[c][i], TableOf[Needs[c][i]]}
  <2>1. CASE \E o \in Everything : Needs[c] = <<o>> /\ ColumnTable(o) = o
    <3>1. PICK o \in Everything : Needs[c] = <<o>> /\ ColumnTable(o) = o
      BY <2>1
    <3>2. Needs[c][i] = o /\ TableOf[o] = ColumnTable(o)
      BY <3>1
    <3>3. QED BY <1>11, <3>1, <3>2 DEF IsTable
  <2>2. CASE Needs[c] = <<"knowledge_documents", "knowledge_chunks">>
    <3>1. Needs[c][i] \in {"knowledge_documents", "knowledge_chunks"}
      BY <2>2
    <3>2. TableOf[Needs[c][i]] = Needs[c][i]
      BY <3>1 DEF Everything, ColumnTable
    <3>3. QED BY <1>11, <3>2 DEF IsTable
  <2>3. CASE Needs[c] = <<"collection_runs", "error_message">>
    <3>1. /\ DOMAIN Needs[c] = {1, 2} /\ Len(Needs[c]) = 2
          /\ Needs[c][1] = "collection_runs" /\ Needs[c][2] = "error_message"
      BY <2>3
    <3>2. TableOf["collection_runs"] = "collection_runs" /\ TableOf["error_message"] = "collection_runs"
      BY DEF Everything, ColumnTable
    <3>3. i = 2
      BY <1>11, <3>1, <3>2 DEF IsTable
    <3>4. Elements(Needs[c]) = {"collection_runs", "error_message"}
      BY <3>1 DEF Elements
    <3>5. QED BY <3>1, <3>2, <3>3, <3>4
  <2>4. QED BY <1>9, <2>1, <2>2, <2>3
<1>12. QED BY <1>2, <1>6, <1>8, <1>10, <1>11 DEF Ordered, rank

\* So scripts and calls of this repository, any number of them, never lock each
\* other out.
THEOREM RepositoryGoesOn ==
  ASSUME LastRevision = 7, Makes = UpgradeChain, Needs = Repositories,
         Objects = Everything, TableOf = [o \in Everything |-> ColumnTable(o)]
  PROVE  Spec => []SomebodyIsReady
BY RepositoryOrdered, LocksLetSomebodyGo

=============================================================================

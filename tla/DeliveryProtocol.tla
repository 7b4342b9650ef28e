-------------------------- MODULE DeliveryProtocol --------------------------
(***************************************************************************)
(* What every sender of Discord messages in this system promises: the      *)
(* check-send-record discipline over the table notification_deliveries.  A *)
(* worker claims a key the ledger does not hold, posts it, and records it; *)
(* a failure makes it post again or drop what it holds.  The ledger gives  *)
(* at-least-once delivery with duplicates only where a failure or a        *)
(* concurrent worker explains them.  The collectors and the reviewers are  *)
(* shown to implement this module.                                         *)
(***************************************************************************)
EXTENDS Naturals, FiniteSets

CONSTANTS
  Workers,         \* concurrent executions that may send
  Keys,            \* idempotency keys
  NoKey,
  DiscordEnabled,  \* FALSE: sending does nothing, the ledger is still written
  MaxFaults        \* bound of the number of failures

ASSUME ProtocolAssumption ==
  /\ IsFiniteSet(Workers)
  /\ NoKey \notin Keys
  /\ DiscordEnabled \in BOOLEAN
  /\ MaxFaults \in Nat

VARIABLES
  delivered,  \* the ledger
  posts,      \* messages in the channel, per key
  faults,     \* failures so far
  claimed,    \* the key a worker found missing from the ledger
  announced   \* the key a worker posted and has not recorded

vars == <<delivered, posts, faults, claimed, announced>>

TypeOK ==
  /\ delivered \subseteq Keys
  /\ posts \in [Keys -> Nat]
  /\ faults \in 0..MaxFaults
  /\ claimed \in [Workers -> Keys \cup {NoKey}]
  /\ announced \in [Workers -> Keys \cup {NoKey}]
  /\ \A w \in Workers : claimed[w] = NoKey \/ announced[w] = NoKey

Init ==
  /\ delivered = {}
  /\ posts = [k \in Keys |-> 0]
  /\ faults = 0
  /\ claimed = [w \in Workers |-> NoKey]
  /\ announced = [w \in Workers |-> NoKey]

Post(k) == posts' = [posts EXCEPT ![k] = @ + 1]

\* Bug: the ledger is not consulted.
BugClaim(w) ==
  /\ claimed[w] = NoKey /\ announced[w] = NoKey
  /\ \E k \in Keys : claimed' = [claimed EXCEPT ![w] = k]
  /\ UNCHANGED <<delivered, posts, faults, announced>>

Claim(w) ==
  /\ claimed[w] = NoKey /\ announced[w] = NoKey
  /\ \E k \in Keys \ delivered : claimed' = [claimed EXCEPT ![w] = k]
  /\ UNCHANGED <<delivered, posts, faults, announced>>

Announce(w) ==
  /\ claimed[w] # NoKey
  /\ IF DiscordEnabled THEN Post(claimed[w]) ELSE UNCHANGED posts
  /\ claimed' = [claimed EXCEPT ![w] = NoKey]
  /\ announced' = [announced EXCEPT ![w] = claimed[w]]
  /\ UNCHANGED <<delivered, faults>>

Record(w) ==
  /\ announced[w] # NoKey
  /\ delivered' = delivered \cup {announced[w]}
  /\ announced' = [announced EXCEPT ![w] = NoKey]
  /\ UNCHANGED <<posts, faults, claimed>>

\* Bug: a message that could not be sent is recorded.
BugFail(w) ==
  /\ faults < MaxFaults
  /\ claimed[w] # NoKey
  /\ faults' = faults + 1
  /\ delivered' = delivered \cup {claimed[w]}
  /\ claimed' = [claimed EXCEPT ![w] = NoKey]
  /\ UNCHANGED <<posts, announced>>

\* Something goes wrong: what the worker holds is kept or dropped; if it was
\* sending, the message may have reached the channel all the same.
Fail(w) ==
  /\ faults < MaxFaults
  /\ faults' = faults + 1
  /\ \/ UNCHANGED posts
     \/ claimed[w] # NoKey /\ DiscordEnabled /\ Post(claimed[w])
  /\ \/ UNCHANGED <<claimed, announced>>
     \/ /\ claimed' = [claimed EXCEPT ![w] = NoKey]
        /\ announced' = [announced EXCEPT ![w] = NoKey]
  /\ UNCHANGED delivered

\* The message is refused: the worker lets go of it.
GiveUp(w) ==
  /\ claimed[w] # NoKey
  /\ claimed' = [claimed EXCEPT ![w] = NoKey]
  /\ UNCHANGED <<delivered, posts, faults, announced>>

Next ==
  \E w \in Workers :
    Claim(w) \/ Announce(w) \/ Record(w) \/ GiveUp(w) \/ Fail(w)

Spec == Init /\ [][Next]_vars

-----------------------------------------------------------------------------
\* No key is in the ledger before its message is in the channel.
RecordedImpliesPosted == DiscordEnabled => \A k \in delivered : posts[k] > 0

\* Duplicates are explained: a key is posted once, and once more for every
\* failure and for every other worker that was already past its check.
PostsExplained == \A k \in Keys : posts[k] <= Cardinality(Workers) + faults

=============================================================================

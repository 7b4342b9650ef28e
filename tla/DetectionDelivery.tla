------------------------- MODULE DetectionDelivery --------------------------
(***************************************************************************)
(* The detections collector implements DeliveryProtocol: a runner that     *)
(* waits for Discord holds a claim on the key of the record in hand, one   *)
(* that waits for mark_delivered has announced it.                         *)
(***************************************************************************)
EXTENDS DetectionCollector, FiniteSets

CONSTANT NoKey

ASSUME RefinementAssumption == IsFiniteSet(Runners) /\ NoKey \notin Keys

HeldAt(place) == [r \in Runners |-> IF pc[r] = place THEN Key(r) ELSE NoKey]

Delivery == INSTANCE DeliveryProtocol WITH
              Workers <- Runners,
              claimed <- HeldAt("send"),
              announced <- HeldAt("mark")

\* Every behaviour of the collector is one of the delivery protocol: whatever
\* runs overlap or fail, a key is only sent after a look at the ledger and
\* only recorded after it was sent.
ImplementsDelivery == Delivery!Spec

\* The bound the protocol promises, on the collector's own variables: extra
\* messages need a failure or a second run.
PostsExplained == \A k \in Keys : posts[k] <= Cardinality(Runners) + faults

=============================================================================

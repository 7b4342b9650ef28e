----------------------- MODULE DeliveryProtocolProofs -----------------------
(***************************************************************************)
(* Proofs about the delivery protocol, for any finite set of workers.      *)
(***************************************************************************)
EXTENDS DeliveryProtocol, FiniteSetTheorems, TLAPS

(***************************************************************************)
(* Every message of a key beyond those that failures explain is charged to *)
(* a worker.  Before the key is in the ledger the workers that announced   *)
(* it are charged; afterwards every worker but those that still hold a     *)
(* claim, for only these can post it again.                                *)
(***************************************************************************)
Charged(k) ==
  IF k \in delivered THEN {w \in Workers : claimed[w] # k}
                     ELSE {w \in Workers : announced[w] = k}

ChargesCover == \A k \in Keys : posts[k] <= faults + Cardinality(Charged(k))

PostedFirst ==
  DiscordEnabled =>
    /\ \A k \in delivered : posts[k] > 0
    /\ \A w \in Workers : announced[w] # NoKey => posts[announced[w]] > 0

IInv == TypeOK /\ PostedFirst /\ ChargesCover

LEMMA Countable ==
  ASSUME NEW S \in SUBSET Workers
  PROVE  IsFiniteSet(S) /\ Cardinality(S) \in Nat
         /\ Cardinality(S) <= Cardinality(Workers)
BY FS_Subset, FS_CardinalityType, ProtocolAssumption

LEMMA MoreIsMore ==
  ASSUME NEW S \in SUBSET Workers, NEW T \in SUBSET Workers, S \subseteq T
  PROVE  Cardinality(S) <= Cardinality(T)
BY Countable, FS_Subset

LEMMA ChargedCountable ==
  ASSUME NEW k
  PROVE  Charged(k) \in SUBSET Workers /\ Cardinality(Charged(k)) \in Nat
<1>1. Charged(k) \in SUBSET Workers
  BY DEF Charged
<1>2. QED BY <1>1, Countable

LEMMA InitIInv == Init => IInv
<1> SUFFICES ASSUME Init PROVE IInv
  OBVIOUS
<1>1. TypeOK
  BY ProtocolAssumption DEF Init, TypeOK
<1>2. PostedFirst
  BY DEF Init, PostedFirst
<1>3. ASSUME NEW k \in Keys PROVE posts[k] <= faults + Cardinality(Charged(k))
  BY ChargedCountable DEF Init
<1>4. QED BY <1>1, <1>2, <1>3 DEF IInv, ChargesCover

LEMMA TypeStep == TypeOK /\ [Next]_vars => TypeOK'
<1> SUFFICES ASSUME TypeOK, [Next]_vars PROVE TypeOK'
  OBVIOUS
<1> USE ProtocolAssumption DEF TypeOK
<1>1. ASSUME NEW w \in Workers, Claim(w) PROVE TypeOK'
  BY <1>1 DEF Claim
<1>2. ASSUME NEW w \in Workers, Announce(w) PROVE TypeOK'
  BY <1>2 DEF Announce, Post
<1>3. ASSUME NEW w \in Workers, Record(w) PROVE TypeOK'
  BY <1>3 DEF Record
<1>4. ASSUME NEW w \in Workers, Fail(w) PROVE TypeOK'
  BY <1>4 DEF Fail, Post
<1>g. ASSUME NEW w \in Workers, GiveUp(w) PROVE TypeOK'
  BY <1>g DEF GiveUp
<1>5. CASE UNCHANGED vars
  BY <1>5 DEF vars
<1>6. QED BY <1>1, <1>2, <1>3, <1>4, <1>5, <1>g DEF Next

LEMMA PostedFirstStep == IInv /\ [Next]_vars => PostedFirst'
<1> SUFFICES ASSUME IInv, [Next]_vars, DiscordEnabled
             PROVE  /\ \A k \in delivered' : posts'[k] > 0
                    /\ \A w \in Workers : announced'[w] # NoKey => posts'[announced'[w]] > 0
  BY DEF PostedFirst
<1> USE ProtocolAssumption DEF IInv, TypeOK, PostedFirst
<1>1. ASSUME NEW w \in Workers, Claim(w) PROVE PostedFirst'
  BY <1>1 DEF Claim
<1>2. ASSUME NEW w \in Workers, Announce(w) PROVE PostedFirst'
  BY <1>2 DEF Announce, Post
<1>3. ASSUME NEW w \in Workers, Record(w) PROVE PostedFirst'
  BY <1>3 DEF Record
<1>4. ASSUME NEW w \in Workers, Fail(w) PROVE PostedFirst'
  BY <1>4 DEF Fail, Post
<1>g. ASSUME NEW w \in Workers, GiveUp(w) PROVE PostedFirst'
  BY <1>g DEF GiveUp
<1>5. CASE UNCHANGED vars
  BY <1>5 DEF vars
<1>6. QED BY <1>1, <1>2, <1>3, <1>4, <1>5, <1>g DEF Next

\* A step charges at least as many workers as it adds messages that no failure
\* explains.
LEMMA ChargesStep == IInv /\ [Next]_vars => ChargesCover'
<1> SUFFICES ASSUME IInv, [Next]_vars, NEW k \in Keys
             PROVE  posts'[k] <= faults' + Cardinality(Charged(k)')
  BY DEF ChargesCover
<1>t. /\ TypeOK
      /\ posts[k] \in Nat /\ posts'[k] \in Nat /\ faults \in Nat /\ faults' \in Nat
      /\ posts[k] <= faults + Cardinality(Charged(k))
      /\ Cardinality(Charged(k)) \in Nat /\ Cardinality(Charged(k)') \in Nat
      /\ Charged(k) \in SUBSET Workers /\ Charged(k)' \in SUBSET Workers
  <2>1. TypeOK /\ TypeOK' /\ ChargesCover
    BY TypeStep DEF IInv
  <2>2. Charged(k)' \in SUBSET Workers /\ Cardinality(Charged(k)') \in Nat
    <3>1. Charged(k)' \in SUBSET Workers
      BY DEF Charged
    <3>2. QED BY <3>1, Countable
  <2>3. QED BY <2>1, <2>2, ChargedCountable, ProtocolAssumption
            DEF TypeOK, ChargesCover
<1>1. ASSUME NEW w \in Workers, Claim(w)
      PROVE  posts'[k] <= faults' + Cardinality(Charged(k)')
  <2>1. Charged(k) \subseteq Charged(k)'
    BY <1>1, <1>t DEF Claim, Charged, TypeOK
  <2>2. QED BY <2>1, <1>1, <1>t, MoreIsMore DEF Claim
<1>2. ASSUME NEW w \in Workers, Announce(w)
      PROVE  posts'[k] <= faults' + Cardinality(Charged(k)')
  <2>1. CASE claimed[w] = k
    <3>1. w \notin Charged(k) /\ Charged(k)' = Charged(k) \cup {w}
      BY <1>2, <2>1, <1>t, ProtocolAssumption DEF Announce, Charged, TypeOK
    <3>2. Cardinality(Charged(k)') = Cardinality(Charged(k)) + 1
      BY <3>1, <1>t, Countable, FS_AddElement
    <3>3. posts'[k] <= posts[k] + 1 /\ faults' = faults
      BY <1>2, <1>t DEF Announce, Post, TypeOK
    <3>4. QED BY <3>2, <3>3, <1>t
  <2>2. CASE claimed[w] # k
    <3>1. Charged(k) \subseteq Charged(k)'
      BY <1>2, <2>2, <1>t, ProtocolAssumption DEF Announce, Charged, TypeOK
    <3>2. posts'[k] = posts[k] /\ faults' = faults
      BY <1>2, <2>2, <1>t DEF Announce, Post, TypeOK
    <3>3. QED BY <3>1, <3>2, <1>t, MoreIsMore
  <2>3. QED BY <2>1, <2>2
<1>3. ASSUME NEW w \in Workers, Record(w)
      PROVE  posts'[k] <= faults' + Cardinality(Charged(k)')
  <2>1. Charged(k) \subseteq Charged(k)'
    BY <1>3, <1>t DEF Record, Charged, TypeOK
  <2>2. QED BY <2>1, <1>3, <1>t, MoreIsMore DEF Record
<1>g. ASSUME NEW w \in Workers, GiveUp(w)
      PROVE  posts'[k] <= faults' + Cardinality(Charged(k)')
  <2>1. Charged(k) \subseteq Charged(k)'
    BY <1>g, <1>t, ProtocolAssumption DEF GiveUp, Charged, TypeOK
  <2>2. QED BY <2>1, <1>g, <1>t, MoreIsMore DEF GiveUp
<1>4. ASSUME NEW w \in Workers, Fail(w)
      PROVE  posts'[k] <= faults' + Cardinality(Charged(k)')
  <2>1. /\ faults' = faults + 1
        /\ posts'[k] <= posts[k] + 1
        /\ announced[w] # NoKey => posts'[k] = posts[k]
    BY <1>4, <1>t DEF Fail, Post, TypeOK
  <2>2. CASE announced[w] = k /\ k \notin delivered
    <3>1. Charged(k) \ {w} \subseteq Charged(k)'
      BY <1>4, <2>2, <1>t DEF Fail, Charged, TypeOK
    <3>2. Cardinality(Charged(k)) - 1 <= Cardinality(Charged(k) \ {w})
      BY <1>t, Countable, FS_RemoveElement
    <3>3. /\ Cardinality(Charged(k) \ {w}) <= Cardinality(Charged(k)')
          /\ Cardinality(Charged(k) \ {w}) \in Nat
      BY <3>1, <1>t, Countable, MoreIsMore
    <3>4. posts'[k] = posts[k]
      BY <2>1, <2>2, ProtocolAssumption
    <3>5. QED BY <2>1, <3>2, <3>3, <3>4, <1>t
  <2>3. CASE announced[w] # k \/ k \in delivered
    <3>1. Charged(k) \subseteq Charged(k)'
      BY <1>4, <2>3, <1>t, ProtocolAssumption DEF Fail, Charged, TypeOK
    <3>2. QED BY <3>1, <2>1, <1>t, MoreIsMore
  <2>4. QED BY <2>2, <2>3
<1>5. CASE UNCHANGED vars
  BY <1>5, <1>t DEF vars, Charged
<1>6. QED BY <1>1, <1>2, <1>3, <1>4, <1>5, <1>g DEF Next

LEMMA IInvStep == IInv /\ [Next]_vars => IInv'
BY TypeStep, PostedFirstStep, ChargesStep DEF IInv

LEMMA IInvImplies == IInv => RecordedImpliesPosted /\ PostsExplained
<1> SUFFICES ASSUME IInv PROVE RecordedImpliesPosted /\ PostsExplained
  OBVIOUS
<1>1. RecordedImpliesPosted
  BY DEF IInv, PostedFirst, RecordedImpliesPosted
<1>2. ASSUME NEW k \in Keys PROVE posts[k] <= Cardinality(Workers) + faults
  <2>1. posts[k] \in Nat /\ faults \in Nat /\ posts[k] <= faults + Cardinality(Charged(k))
    BY ProtocolAssumption DEF IInv, TypeOK, ChargesCover
  <2>2. /\ Cardinality(Charged(k)) <= Cardinality(Workers)
        /\ Cardinality(Charged(k)) \in Nat /\ Cardinality(Workers) \in Nat
    BY ChargedCountable, Countable
  <2>3. QED BY <2>1, <2>2
<1>3. QED BY <1>1, <1>2 DEF PostsExplained

\* Whoever follows the protocol records only what it posted.
THEOREM ProtocolHonest == Spec => []RecordedImpliesPosted
BY InitIInv, IInvStep, IInvImplies, PTL DEF Spec

\* And posts a key at most once per worker and failure.
THEOREM ProtocolBounded == Spec => []PostsExplained
BY InitIInv, IInvStep, IInvImplies, PTL DEF Spec

=============================================================================

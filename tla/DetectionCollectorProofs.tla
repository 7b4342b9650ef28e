---------------------- MODULE DetectionCollectorProofs ----------------------
(***************************************************************************)
(* Proofs about the detections collector, for any number of runners,       *)
(* records, failures and settings: types, cursor, ledger, counters, and at *)
(* the end that it implements the delivery protocol.                       *)
(***************************************************************************)
EXTENDS DetectionDelivery, TLAPS

(***************************************************************************)
(* Types.  The bounds of pages and attempts in TypeOK, and that a record   *)
(* in hand is a record of the feed, need to know where the run is.         *)
(***************************************************************************)
Handling == {"check", "send", "mark"}
Paging == Handling \cup {"scan"}

Placed(r) ==
  /\ token[r] <= feed
  /\ last[r] <= feed
  /\ next[r] = 0 \/ next[r] = last[r]
  /\ pc[r] \in Paging => 1 <= pos[r] /\ pos[r] <= last[r] + 1
  /\ pc[r] \in Handling => pos[r] <= last[r]
  /\ pc[r] = "idle" => pages[r] = 0
  /\ pc[r] = "fetch" => pages[r] < MaxPages
  /\ pc[r] = "send" => attempts[r] < SendAttempts

TypeInv ==
  /\ TypeOK
  /\ lastRow.token <= feed
  /\ \A r \in Runners : Placed(r)

LEMMA TypeInvInit == Init => TypeInv
BY FeedAssumption, SettingsAssumption
DEF Init, Zero, TypeInv, TypeOK, Placed, Row, Places, Waiting, Paging, Handling

\* A record in hand is a record of the feed, and its key is a key.
LEMMA InHandIsRecord ==
  ASSUME TypeInv, NEW r \in Runners, pc[r] \in Handling
  PROVE  pos[r] \in Detections /\ Key(r) \in Keys
<1>1. /\ pos[r] \in Nat /\ last[r] \in Nat /\ feed \in 0..FeedSize
      /\ Placed(r)
  BY DEF TypeInv, TypeOK
<1>2. pos[r] \in Detections
  BY <1>1, FeedAssumption DEF Placed, Handling, Paging, Detections
<1>3. QED BY <1>2, FeedAssumption DEF Key

LEMMA TypeOKStep ==
  ASSUME TypeInv, NEW r \in Runners
  PROVE  Progress(r) \/ Failure(r) => TypeOK'
<1>p. /\ TypeOK
      /\ pc[r] = "fetch" => pages[r] < MaxPages
      /\ pc[r] = "send" => attempts[r] < SendAttempts
  BY DEF TypeInv, Placed
<1> USE <1>p, FeedAssumption, SettingsAssumption
    DEF TypeOK, GoTo, Count, Clear, NextRecord, world, stores, page,
        given, counters, Places, Waiting, Row
<1>1. Start(r) => TypeOK'
  BY DEF Start
<1>2. FetchPage(r) => TypeOK'
  BY DEF FetchPage, PageEnd, NextToken
<1>3. SkipOld(r) => TypeOK'
  BY DEF SkipOld
<1>4. StopAtLimit(r) => TypeOK'
  BY DEF StopAtLimit
<1>5. Admit(r) => TypeOK'
  BY DEF Admit
<1>6. CheckDelivered(r) => TypeOK'
  BY DEF CheckDelivered
<1>7. Send(r) => TypeOK'
  BY DEF Send, Post
<1>8. MarkDelivered(r) => TypeOK'
  <2> SUFFICES ASSUME MarkDelivered(r) PROVE TypeOK'
    OBVIOUS
  <2>2. Key(r) \in Keys
    BY InHandIsRecord DEF MarkDelivered, Handling
  <2>3. QED BY <2>2 DEF MarkDelivered
<1>9. EndPage(r) => TypeOK'
  BY DEF EndPage
<1>10. SaveCursor(r) => TypeOK'
  BY DEF SaveCursor
<1>11. SaveSuccess(r) => TypeOK'
  BY DEF SaveSuccess, End
<1>12. SaveFailure(r) => TypeOK'
  BY DEF SaveFailure, End
<1>13. SendFails(r) => TypeOK'
  BY DEF SendFails, Post, Fault
<1>14. Raise(r) => TypeOK'
  BY DEF Raise, Fault
<1>15. SuppressFailure(r) => TypeOK'
  BY DEF SuppressFailure, End, Fault
<1>g. Refuse(r) => TypeOK'
  BY DEF Refuse
<1>16. Crash(r) => TypeOK'
  BY DEF Crash, End, Fault
<1>17. QED
  BY <1>1, <1>2, <1>3, <1>4, <1>5, <1>6, <1>7, <1>8, <1>9, <1>10, <1>11,
     <1>12, <1>13, <1>14, <1>15, <1>16, <1>g
  DEF Progress, Failure

LEMMA PlacedStep ==
  ASSUME TypeInv, NEW r \in Runners, NEW s \in Runners
  PROVE  Progress(r) \/ Failure(r) => Placed(s)'
<1> USE FeedAssumption, SettingsAssumption
    DEF TypeInv, TypeOK, Placed, GoTo, Count, Clear, NextRecord, world, stores, page,
        given, counters, Places, Waiting, Row, Paging, Handling
<1>1. Start(r) => Placed(s)'
  BY DEF Start
<1>2. FetchPage(r) => Placed(s)'
  <2> SUFFICES ASSUME FetchPage(r) PROVE Placed(s)'
    OBVIOUS
  <2>1. CASE s = r
    <3>1. /\ PageEnd(token[r]) \in token[r]..feed
          /\ NextToken(token[r]) \in {0, PageEnd(token[r])}
      BY DEF PageEnd, NextToken
    <3>2. QED BY <2>1, <3>1 DEF FetchPage
  <2>2. CASE s # r
    BY <2>2 DEF FetchPage
  <2>3. QED BY <2>1, <2>2
<1>3. SkipOld(r) => Placed(s)'
  BY DEF SkipOld, InPage
<1>4. StopAtLimit(r) => Placed(s)'
  BY DEF StopAtLimit, InPage
<1>5. Admit(r) => Placed(s)'
  BY DEF Admit, InPage
<1>6. CheckDelivered(r) => Placed(s)'
  BY DEF CheckDelivered
<1>7. Send(r) => Placed(s)'
  BY DEF Send
<1>8. MarkDelivered(r) => Placed(s)'
  BY DEF MarkDelivered
<1>9. EndPage(r) => Placed(s)'
  BY DEF EndPage, PageDone
<1>10. SaveCursor(r) => Placed(s)'
  BY DEF SaveCursor
<1>11. SaveSuccess(r) => Placed(s)'
  BY DEF SaveSuccess, End
<1>12. SaveFailure(r) => Placed(s)'
  BY DEF SaveFailure, End
<1>13. SendFails(r) => Placed(s)'
  BY DEF SendFails, Fault
<1>14. Raise(r) => Placed(s)'
  BY DEF Raise, Fault
<1>15. SuppressFailure(r) => Placed(s)'
  BY DEF SuppressFailure, End, Fault
<1>g. Refuse(r) => Placed(s)'
  BY DEF Refuse
<1>16. Crash(r) => Placed(s)'
  BY DEF Crash, End, Fault
<1>17. QED
  BY <1>1, <1>2, <1>3, <1>4, <1>5, <1>6, <1>7, <1>8,
     <1>9, <1>10, <1>11, <1>12, <1>13, <1>14, <1>15, <1>16, <1>g
  DEF Progress, Failure

LEMMA RowTokenStep ==
  ASSUME TypeInv, NEW r \in Runners
  PROVE  Progress(r) \/ Failure(r) => lastRow'.token <= feed'
<1> USE DEF TypeInv, TypeOK, Placed, world, stores, Row
<1>1. Start(r) => lastRow'.token <= feed'
  BY DEF Start
<1>2. FetchPage(r) => lastRow'.token <= feed'
  BY DEF FetchPage, PageEnd, NextToken
<1>3. SkipOld(r) => lastRow'.token <= feed'
  BY DEF SkipOld, InPage
<1>4. StopAtLimit(r) => lastRow'.token <= feed'
  BY DEF StopAtLimit, InPage
<1>5. Admit(r) => lastRow'.token <= feed'
  BY DEF Admit, InPage
<1>6. CheckDelivered(r) => lastRow'.token <= feed'
  BY DEF CheckDelivered
<1>7. Send(r) => lastRow'.token <= feed'
  BY DEF Send
<1>8. MarkDelivered(r) => lastRow'.token <= feed'
  BY DEF MarkDelivered
<1>9. EndPage(r) => lastRow'.token <= feed'
  BY DEF EndPage
<1>10. SaveCursor(r) => lastRow'.token <= feed'
  BY DEF SaveCursor
<1>11. SaveSuccess(r) => lastRow'.token <= feed'
  BY DEF SaveSuccess
<1>12. SaveFailure(r) => lastRow'.token <= feed'
  BY DEF SaveFailure
<1>13. SendFails(r) => lastRow'.token <= feed'
  BY DEF SendFails
<1>14. Raise(r) => lastRow'.token <= feed'
  BY DEF Raise
<1>15. SuppressFailure(r) => lastRow'.token <= feed'
  BY DEF SuppressFailure
<1>g. Refuse(r) => lastRow'.token <= feed'
  BY DEF Refuse
<1>16. Crash(r) => lastRow'.token <= feed'
  BY DEF Crash
<1>17. QED
  BY <1>1, <1>2, <1>3, <1>4, <1>5, <1>6, <1>7, <1>8,
     <1>9, <1>10, <1>11, <1>12, <1>13, <1>14, <1>15, <1>16, <1>g
  DEF Progress, Failure

LEMMA TypeInvEnvironment == TypeInv /\ (Publish \/ Tick) => TypeInv'
<1> SUFFICES ASSUME TypeInv, Publish \/ Tick PROVE TypeInv'
  OBVIOUS
<1>1. UNCHANGED <<faults, lastRow, delivered, posts, locals>>
  BY DEF Publish, Tick, stores
<1>2. feed' \in 0..FeedSize /\ feed <= feed' /\ clock' \in 0..MaxTime
  BY FeedAssumption, SettingsAssumption DEF Publish, Tick, TypeInv, TypeOK
<1>3. TypeOK'
  BY <1>1, <1>2 DEF TypeInv, TypeOK, locals, page, given, counters
<1>4. lastRow'.token <= feed' /\ \A r \in Runners : Placed(r)'
  BY <1>1, <1>2, FeedAssumption
  DEF TypeInv, TypeOK, Placed, Row, locals, page, given, counters
<1>5. QED BY <1>3, <1>4 DEF TypeInv

LEMMA TypeInvStep == TypeInv /\ [Next]_vars => TypeInv'
<1> SUFFICES ASSUME TypeInv, [Next]_vars PROVE TypeInv'
  OBVIOUS
<1>1. ASSUME NEW r \in Runners, Progress(r) \/ Failure(r) PROVE TypeInv'
  BY <1>1, TypeOKStep, PlacedStep, RowTokenStep DEF TypeInv
<1>2. CASE Publish \/ Tick
  BY <1>2, TypeInvEnvironment
<1>3. CASE UNCHANGED vars
  BY <1>3 DEF vars, world, stores, locals, page, given, counters,
              TypeInv, TypeOK, Placed
<1>4. QED BY <1>1, <1>2, <1>3 DEF Next

\* Every variable has its type, and a run never exceeds its bounds: at most
\* MaxPages pages (detection_max_pages_per_run) and SendAttempts attempts.
THEOREM TypeCorrect == Spec => []TypeOK
<1>1. TypeInv => TypeOK
  BY DEF TypeInv
<1>2. QED BY TypeInvInit, TypeInvStep, <1>1, PTL DEF Spec

-----------------------------------------------------------------------------
(***************************************************************************)
(* Safety.  CursorPassesOnlySettled is not inductive: a run that stores    *)
(* its token must know the records before it settled, so each run keeps    *)
(* the same promise about its token and about the part of its page it has  *)
(* scanned.  A record a run skips as too old is older than its cutoff; the *)
(* cutoff must be no later than the present one for the record to count as *)
(* settled now.                                                            *)
(***************************************************************************)
InCutoff(r) == pc[r] \notin {"idle", "failed"} => cutoff[r] <= clock - Window
TokenSafe(r) == \A d \in 1..token[r] : Settled(d)
ScanSafe(r) == pc[r] \in Paging => \A d \in 1..(pos[r] - 1) : Settled(d)
PostedFirst(r) == DiscordEnabled /\ pc[r] = "mark" => posts[Key(r)] > 0

SafeInv ==
  /\ TypeInv
  /\ CursorPassesOnlySettled
  /\ LedgerImpliesPosted
  /\ \A r \in Runners : InCutoff(r) /\ TokenSafe(r) /\ ScanSafe(r) /\ PostedFirst(r)

\* What every step leaves true of the shared state.
Grows ==
  /\ clock <= clock' /\ delivered \subseteq delivered'
  /\ \A k \in Keys : posts[k] <= posts'[k]

LEMMA GrowsStep == TypeInv /\ [Next]_vars => Grows
<1> SUFFICES ASSUME TypeInv, [Next]_vars PROVE Grows
  OBVIOUS
<1> USE DEF TypeInv, TypeOK, Grows, world, stores
<1>1. ASSUME NEW r \in Runners, Progress(r) PROVE Grows
  BY <1>1 DEF Progress, Start, FetchPage, SkipOld, StopAtLimit, Admit,
     CheckDelivered, Send, MarkDelivered, EndPage, SaveCursor, SaveSuccess,
     SaveFailure, Refuse, Post
<1>2. ASSUME NEW r \in Runners, Failure(r) PROVE Grows
  BY <1>2 DEF Failure, SendFails, Raise, SuppressFailure, Crash, Post
<1>3. CASE Publish \/ Tick \/ UNCHANGED vars
  BY <1>3 DEF Publish, Tick, vars
<1>4. QED BY <1>1, <1>2, <1>3 DEF Next

\* A record that is settled stays settled: keys are never deleted from the
\* ledger and the cutoff only moves forward.
LEMMA SettledStays ==
  ASSUME TypeInv, TypeInv', Grows, NEW d \in Detections, Settled(d)
  PROVE  Settled(d)'
<1>1. clock \in Nat /\ clock' \in Nat
  BY SettingsAssumption DEF TypeInv, TypeOK
<1>2. QED
  BY <1>1, FeedAssumption, SettingsAssumption
  DEF Grows, Settled, Old, MeetsThreshold

LEMMA PrefixStays ==
  ASSUME TypeInv, TypeInv', Grows,
         NEW n \in Int, n <= FeedSize, \A d \in 1..n : Settled(d)
  PROVE  \A d \in 1..n : Settled(d)'
<1> SUFFICES ASSUME NEW d \in 1..n PROVE Settled(d)'
  OBVIOUS
<1>1. d \in Detections /\ Settled(d)
  BY FeedAssumption DEF Detections
<1>2. QED BY <1>1, SettledStays

\* A step of one run leaves the locals of the others alone.
LEMMA OthersStay ==
  ASSUME TypeInv, NEW r \in Runners, Progress(r) \/ Failure(r), NEW s \in Runners, s # r
  PROVE  /\ pc'[s] = pc[s] /\ cutoff'[s] = cutoff[s]
         /\ token'[s] = token[s] /\ pos'[s] = pos[s]
<1> USE DEF TypeInv, TypeOK, GoTo, Count, Clear, NextRecord, given
<1>1. CASE Progress(r)
  BY <1>1 DEF Progress, Start, FetchPage, SkipOld, StopAtLimit, Admit,
     CheckDelivered, Send, MarkDelivered, EndPage, SaveCursor, SaveSuccess,
     SaveFailure, Refuse, End
<1>2. CASE Failure(r)
  BY <1>2 DEF Failure, SendFails, Raise, SuppressFailure, Crash, End
<1>3. QED BY <1>1, <1>2

\* Whatever a run holds or stores as its token comes after settled records
\* only: it read the token from the table, or it scanned the page before it.
LEMMA TokenStep ==
  ASSUME SafeInv, NEW r \in Runners, Progress(r) \/ Failure(r)
  PROVE  /\ \A d \in 1..token'[r] : Settled(d)
         /\ \A d \in 1..lastRow'.token : Settled(d)
<1>t. /\ token \in [Runners -> Nat] /\ next[r] \in Nat /\ pos[r] \in Nat
      /\ last[r] \in Nat /\ Placed(r)
      /\ TokenSafe(r) /\ ScanSafe(r) /\ CursorPassesOnlySettled
  BY DEF SafeInv, TypeInv, TypeOK
<1>1. CASE Start(r)
  BY <1>1, <1>t DEF Start, stores, CursorPassesOnlySettled
<1>2. CASE EndPage(r)
  <2>1. next[r] # 0 => \A d \in 1..next[r] : Settled(d)
    BY <1>2, <1>t DEF EndPage, PageDone, Placed, ScanSafe, Paging
  <2>2. QED
    BY <1>2, <2>1, <1>t DEF EndPage, stores, TokenSafe, CursorPassesOnlySettled
<1>3. CASE SaveCursor(r) \/ SaveSuccess(r) \/ SaveFailure(r)
  BY <1>3, <1>t DEF SaveCursor, SaveSuccess, SaveFailure, End, Clear, TokenSafe
<1>4. CASE SuppressFailure(r) \/ Crash(r)
  BY <1>4, <1>t
  DEF SuppressFailure, Crash, End, Clear, stores, CursorPassesOnlySettled
<1>5. CASE \/ FetchPage(r) \/ SkipOld(r) \/ StopAtLimit(r) \/ Admit(r)
           \/ CheckDelivered(r) \/ Send(r) \/ MarkDelivered(r)
           \/ SendFails(r) \/ Raise(r) \/ Refuse(r)
  <2>1. UNCHANGED <<token, lastRow>>
    BY <1>5 DEF FetchPage, SkipOld, StopAtLimit, Admit, CheckDelivered, Send,
       MarkDelivered, SendFails, Raise, Refuse, stores
  <2>2. QED BY <2>1, <1>t DEF TokenSafe, CursorPassesOnlySettled
<1>6. QED BY <1>1, <1>2, <1>3, <1>4, <1>5 DEF Progress, Failure

\* The records of the page before pos are settled once the step is done: each
\* was old, below the threshold, found in the ledger, or just entered into it.
LEMMA ScanStep ==
  ASSUME SafeInv, TypeInv', Grows, NEW r \in Runners, Progress(r) \/ Failure(r)
  PROVE  ScanSafe(r)'
<1>t. /\ pos \in [Runners -> Nat] /\ pc \in [Runners -> Places]
      /\ token[r] \in Nat /\ cutoff[r] \in Int /\ clock \in Nat /\ Window \in Nat
      /\ FeedSize \in Nat /\ feed \in 0..FeedSize /\ last[r] \in Nat
      /\ TypeInv /\ Placed(r) /\ TokenSafe(r) /\ ScanSafe(r) /\ InCutoff(r)
  BY FeedAssumption, SettingsAssumption DEF SafeInv, TypeInv, TypeOK
<1>n. PICK n \in Nat : n = pos[r]
  BY <1>t
\* It is enough that the record left behind, if any, is settled.
<1>a. ASSUME pc[r] \in Paging, pos' = [pos EXCEPT ![r] = @ + 1], Settled(n)'
      PROVE  ScanSafe(r)'
  <2>1. \A d \in 1..(pos[r] - 1) : Settled(d)'
    <3>1. pos[r] - 1 \in Int /\ pos[r] - 1 <= FeedSize
      BY <1>t, <1>a DEF Placed
    <3>2. \A d \in 1..(pos[r] - 1) : Settled(d)
      BY <1>t, <1>a DEF ScanSafe
    <3>3. QED BY <3>1, <3>2, <1>t, PrefixStays
  <2>2. pos'[r] = n + 1
    BY <1>t, <1>a, <1>n
  <2>3. \A d \in 1..n : Settled(d)'
    BY <2>1, <1>a, <1>n
  <2>4. QED BY <2>2, <2>3 DEF ScanSafe
<1>b. ASSUME pc[r] \in Paging, pos' = pos
      PROVE  ScanSafe(r)'
  <2>1. pos[r] - 1 \in Int /\ pos[r] - 1 <= FeedSize
    BY <1>t, <1>b DEF Placed
  <2>2. \A d \in 1..(pos[r] - 1) : Settled(d)
    BY <1>t, <1>b DEF ScanSafe
  <2>3. \A d \in 1..(pos[r] - 1) : Settled(d)'
    BY <2>1, <2>2, <1>t, PrefixStays
  <2>4. QED BY <2>3, <1>b DEF ScanSafe
<1>c. ASSUME pc'[r] \notin Paging
      PROVE  ScanSafe(r)'
  BY <1>c DEF ScanSafe
<1>d. ASSUME pc[r] \in Paging, pos[r] <= last[r], Settled(n)
      PROVE  Settled(n)'
  <2>1. n \in Detections
    BY <1>d, <1>n, <1>t DEF Placed, Detections
  <2>2. QED BY <2>1, <1>d, <1>t, SettledStays
<1>1. CASE FetchPage(r)
  <2>1. pos'[r] = token[r] + 1
    BY <1>1, <1>t DEF FetchPage
  <2>2. \A d \in 1..token[r] : Settled(d)'
    BY <1>t, PrefixStays DEF Placed, TokenSafe
  <2>3. QED BY <2>1, <2>2, <1>t DEF ScanSafe
<1>2. CASE SkipOld(r)
  <2>1. Settled(n)
    BY <1>2, <1>n, <1>t, FeedAssumption
    DEF SkipOld, InPage, InCutoff, Settled, Old, Placed, Paging, Detections
  <2>2. QED
    BY <1>2, <2>1, <1>a, <1>d
    DEF SkipOld, InPage, Paging, NextRecord, Count
<1>3. CASE Admit(r)
  <2>1. CASE MeetsThreshold(pos[r])
    BY <1>3, <2>1, <1>b DEF Admit, InPage, Paging
  <2>2. CASE ~MeetsThreshold(pos[r])
    <3>1. Settled(n)
      BY <2>2, <1>n DEF Settled
    <3>2. QED
      BY <1>3, <2>2, <3>1, <1>a, <1>d
      DEF Admit, InPage, Paging, NextRecord, Count
  <2>3. QED BY <2>1, <2>2
<1>4. CASE CheckDelivered(r)
  <2>0. pc[r] \in Paging /\ pos[r] <= last[r]
    BY <1>4, <1>t DEF CheckDelivered, Placed, Paging, Handling
  <2>1. CASE Key(r) \in delivered
    <3>1. Settled(n)
      BY <2>1, <1>n DEF Settled, Key
    <3>2. QED
      BY <1>4, <2>0, <2>1, <3>1, <1>a, <1>d DEF CheckDelivered, NextRecord, Count
  <2>2. CASE Key(r) \notin delivered
    BY <1>4, <2>0, <2>2, <1>b DEF CheckDelivered
  <2>3. QED BY <2>1, <2>2
<1>5. CASE MarkDelivered(r)
  <2>1. pc[r] \in Paging /\ KeyOf[pos[r]] \in delivered'
    BY <1>5 DEF MarkDelivered, Key, Paging, Handling
  <2>2. Settled(n)'
    BY <2>1, <1>n DEF Settled
  <2>3. QED BY <1>5, <2>1, <2>2, <1>a DEF MarkDelivered, NextRecord, Count
<1>6. CASE Send(r) \/ SendFails(r) \/ Refuse(r)
  BY <1>6, <1>b DEF Send, SendFails, Refuse, Paging, Handling
<1>7. CASE \/ Start(r) \/ StopAtLimit(r) \/ EndPage(r) \/ SaveCursor(r)
           \/ SaveSuccess(r) \/ SaveFailure(r) \/ Raise(r)
           \/ SuppressFailure(r) \/ Crash(r)
  <2>1. pc'[r] \notin Paging
    BY <1>7, <1>t DEF Start, StopAtLimit, EndPage, SaveCursor, SaveSuccess,
       SaveFailure, Raise, SuppressFailure, Crash, End, GoTo, Paging, Handling
  <2>2. QED BY <2>1, <1>c
<1>8. QED
  BY <1>1, <1>2, <1>3, <1>4, <1>5, <1>6, <1>7 DEF Progress, Failure

\* A run's cutoff is computed from the clock when it starts.
LEMMA CutoffStep ==
  ASSUME SafeInv, TypeInv', Grows, NEW r \in Runners, Progress(r) \/ Failure(r)
  PROVE  InCutoff(r)'
<1>t. /\ cutoff \in [Runners -> Int] /\ pc \in [Runners -> Places]
      /\ clock \in Nat /\ clock' \in Nat /\ clock <= clock' /\ Window \in Nat
      /\ InCutoff(r)
  BY SettingsAssumption DEF SafeInv, TypeInv, TypeOK, Grows
<1>1. CASE Start(r)
  BY <1>1, <1>t DEF Start, InCutoff, world
<1>2. CASE \/ SaveSuccess(r) \/ SaveFailure(r) \/ Raise(r)
           \/ SuppressFailure(r) \/ Crash(r)
  BY <1>2, <1>t DEF SaveSuccess, SaveFailure, Raise, SuppressFailure, Crash, End,
     GoTo, InCutoff
<1>3. CASE \/ FetchPage(r) \/ SkipOld(r) \/ StopAtLimit(r) \/ Admit(r)
           \/ CheckDelivered(r) \/ Send(r) \/ MarkDelivered(r) \/ EndPage(r)
           \/ SaveCursor(r) \/ SendFails(r) \/ Refuse(r)
  <2>1. UNCHANGED cutoff /\ pc[r] \notin {"idle", "failed"}
    BY <1>3 DEF FetchPage, SkipOld, StopAtLimit, Admit, CheckDelivered, Send,
       MarkDelivered, EndPage, SaveCursor, SendFails, Refuse, InPage, PageDone,
       given
  <2>2. QED BY <2>1, <1>t DEF InCutoff
<1>4. QED BY <1>1, <1>2, <1>3 DEF Progress, Failure

\* A run reaches mark_delivered only through a send that returned.
LEMMA PostedStep ==
  ASSUME SafeInv, NEW r \in Runners, Progress(r) \/ Failure(r)
  PROVE  PostedFirst(r)'
<1>t. pc \in [Runners -> Places] /\ posts \in [Keys -> Nat] /\ TypeInv
  BY DEF SafeInv, TypeInv, TypeOK
<1>1. CASE Send(r)
  <2>1. Key(r) \in Keys /\ Key(r)' = Key(r)
    BY <1>1, <1>t, InHandIsRecord DEF Send, Handling, Key
  <2>2. QED BY <1>1, <2>1, <1>t DEF Send, Post, PostedFirst
<1>2. CASE ~Send(r)
  <2>1. pc'[r] # "mark"
    BY <1>2, <1>t DEF Progress, Failure, Start, FetchPage, SkipOld, StopAtLimit,
       Admit, CheckDelivered, MarkDelivered, EndPage, SaveCursor, SaveSuccess,
       SaveFailure, SendFails, Raise, Refuse, SuppressFailure, Crash, End, GoTo,
       InPage, PageDone
  <2>2. QED BY <2>1 DEF PostedFirst
<1>3. QED BY <1>1, <1>2

\* A key enters the ledger only after its message.
LEMMA LedgerStep ==
  ASSUME SafeInv, Grows, NEW r \in Runners, Progress(r) \/ Failure(r)
  PROVE  LedgerImpliesPosted'
<1>t. posts \in [Keys -> Nat] /\ TypeInv /\ LedgerImpliesPosted /\ PostedFirst(r)
      /\ delivered \subseteq Keys
  BY DEF SafeInv, TypeInv, TypeOK
<1>1. CASE MarkDelivered(r)
  BY <1>1, <1>t DEF MarkDelivered, LedgerImpliesPosted, PostedFirst
<1>2. CASE ~MarkDelivered(r)
  <2>1. UNCHANGED delivered
    BY <1>2 DEF Progress, Failure, Start, FetchPage, SkipOld, StopAtLimit, Admit,
       CheckDelivered, Send, EndPage, SaveCursor, SaveSuccess, SaveFailure,
       SendFails, Raise, Refuse, SuppressFailure, Crash, stores
  <2>2. posts' \in [Keys -> Nat] /\ \A k \in Keys : posts[k] <= posts'[k]
    BY <1>t, TypeOKStep DEF Grows, TypeOK
  <2>3. QED BY <2>1, <2>2, <1>t DEF LedgerImpliesPosted
<1>3. QED BY <1>1, <1>2

LEMMA SafeInvInit == Init => SafeInv
<1> SUFFICES ASSUME Init PROVE SafeInv
  OBVIOUS
<1>1. CursorPassesOnlySettled /\ LedgerImpliesPosted
  BY DEF Init, CursorPassesOnlySettled, LedgerImpliesPosted
<1>2. ASSUME NEW r \in Runners
      PROVE  InCutoff(r) /\ TokenSafe(r) /\ ScanSafe(r) /\ PostedFirst(r)
  BY DEF Init, Zero, InCutoff, TokenSafe, ScanSafe, PostedFirst, Paging, Handling
<1>3. QED BY <1>1, <1>2, TypeInvInit DEF SafeInv

LEMMA SafeInvStep == SafeInv /\ [Next]_vars => SafeInv'
<1> SUFFICES ASSUME SafeInv, [Next]_vars PROVE SafeInv'
  OBVIOUS
<1>1. TypeInv /\ TypeInv' /\ Grows
  BY TypeInvStep, GrowsStep DEF SafeInv
<1>t. /\ FeedSize \in Nat /\ feed \in 0..FeedSize /\ clock \in Nat /\ clock' \in Nat
      /\ clock <= clock' /\ Window \in Nat /\ lastRow'.token \in Nat
      /\ lastRow'.token <= FeedSize /\ lastRow.token \in Nat
      /\ lastRow.token <= FeedSize
      /\ posts \in [Keys -> Nat] /\ posts' \in [Keys -> Nat]
      /\ \A k \in Keys : posts[k] <= posts'[k]
  BY <1>1, FeedAssumption, SettingsAssumption DEF TypeInv, TypeOK, Row, Grows
\* What holds of a run goes on holding while its locals do not change.
<1>2. ASSUME NEW s \in Runners, pc'[s] = pc[s], cutoff'[s] = cutoff[s],
             token'[s] = token[s], pos'[s] = pos[s]
      PROVE  (InCutoff(s) /\ TokenSafe(s) /\ ScanSafe(s) /\ PostedFirst(s))'
  <2>t. /\ token[s] \in Nat /\ pos[s] \in Nat /\ cutoff[s] \in Int /\ last[s] \in Nat
        /\ Placed(s) /\ InCutoff(s) /\ TokenSafe(s) /\ ScanSafe(s) /\ PostedFirst(s)
    BY DEF SafeInv, TypeInv, TypeOK
  <2>1. InCutoff(s)'
    BY <1>2, <1>t, <2>t DEF InCutoff
  <2>2. TokenSafe(s)'
    BY <1>2, <1>1, <1>t, <2>t, PrefixStays DEF TokenSafe, Placed
  <2>3. ScanSafe(s)'
    <3> SUFFICES ASSUME pc[s] \in Paging
                 PROVE  \A d \in 1..(pos[s] - 1) : Settled(d)'
      BY <1>2 DEF ScanSafe
    <3>1. /\ pos[s] - 1 \in Int /\ pos[s] - 1 <= FeedSize
          /\ \A d \in 1..(pos[s] - 1) : Settled(d)
      BY <1>t, <2>t DEF Placed, ScanSafe
    <3>2. QED BY <3>1, <1>1, PrefixStays
  <2>4. PostedFirst(s)'
    <3> SUFFICES ASSUME DiscordEnabled, pc[s] = "mark" PROVE posts'[Key(s)] > 0
      BY <1>2 DEF PostedFirst, Key
    <3>1. Key(s) \in Keys
      BY <1>1, InHandIsRecord DEF Handling
    <3>2. QED BY <3>1, <1>t, <2>t DEF PostedFirst
  <2>5. QED BY <2>1, <2>2, <2>3, <2>4
<1>3. ASSUME NEW r \in Runners, Progress(r) \/ Failure(r) PROVE SafeInv'
  <2>1. CursorPassesOnlySettled'
    BY <1>3, <1>1, <1>t, TokenStep, PrefixStays DEF CursorPassesOnlySettled
  <2>2. LedgerImpliesPosted'
    BY <1>3, <1>1, LedgerStep
  <2>3. TokenSafe(r)'
    <3>1. token'[r] \in Nat /\ token'[r] <= FeedSize
      BY <1>1, FeedAssumption DEF TypeInv, TypeOK, Placed
    <3>2. QED BY <3>1, <1>3, <1>1, TokenStep, PrefixStays DEF TokenSafe
  <2>4. (InCutoff(r) /\ TokenSafe(r) /\ ScanSafe(r) /\ PostedFirst(r))'
    BY <1>3, <1>1, <2>3, CutoffStep, ScanStep, PostedStep
  <2>5. ASSUME NEW s \in Runners
        PROVE  (InCutoff(s) /\ TokenSafe(s) /\ ScanSafe(s) /\ PostedFirst(s))'
    <3>1. CASE s = r
      BY <3>1, <2>4
    <3>2. CASE s # r
      BY <3>2, <1>1, <1>2, <1>3, OthersStay
    <3>3. QED BY <3>1, <3>2
  <2>6. QED BY <1>1, <2>1, <2>2, <2>5 DEF SafeInv
<1>4. CASE Publish \/ Tick \/ UNCHANGED vars
  <2>1. UNCHANGED <<lastRow, delivered, posts, pc, cutoff, token, pos>>
    BY <1>4 DEF Publish, Tick, vars, stores, locals, given
  <2>2. CursorPassesOnlySettled'
    BY <2>1, <1>1, <1>t, PrefixStays DEF SafeInv, CursorPassesOnlySettled
  <2>3. LedgerImpliesPosted'
    BY <2>1 DEF SafeInv, LedgerImpliesPosted
  <2>4. \A s \in Runners :
          (InCutoff(s) /\ TokenSafe(s) /\ ScanSafe(s) /\ PostedFirst(s))'
    BY <2>1, <1>2
  <2>5. QED BY <1>1, <2>2, <2>3, <2>4 DEF SafeInv
<1>5. QED BY <1>3, <1>4 DEF Next

\* The page cursor never passes a detection that still has to be notified, for
\* any number of overlapping, failing and dying runs.
THEOREM CursorIsSafe == Spec => []CursorPassesOnlySettled
<1>1. SafeInv => CursorPassesOnlySettled
  BY DEF SafeInv
<1>2. QED BY SafeInvInit, SafeInvStep, <1>1, PTL DEF Spec

\* The ledger holds no key whose message did not reach the channel.
THEOREM LedgerIsHonest == Spec => []LedgerImpliesPosted
<1>1. SafeInv => LedgerImpliesPosted
  BY DEF SafeInv
<1>2. QED BY SafeInvInit, SafeInvStep, <1>1, PTL DEF Spec

-----------------------------------------------------------------------------
(***************************************************************************)
(* Counters.  The record in hand is processed and not yet counted; a       *)
(* record is left behind only by the step that ends the run.               *)
(***************************************************************************)
Tallied(r) ==
  pc[r] # "failed" =>
    /\ collected[r] = notified[r] + duplicates[r] + skipped[r] + InHand(r) + left[r]
    /\ notified[r] + duplicates[r] + InHand(r) <= processed[r]
    /\ processed[r] <= limit[r]
    /\ pc[r] # "finish" => left[r] = 0
    /\ pc[r] = "idle" =>
         /\ processed[r] = 0 /\ notified[r] = 0 /\ duplicates[r] = 0
         /\ skipped[r] = 0 /\ collected[r] = 0

LEMMA TalliedStep ==
  ASSUME TypeInv, NEW r \in Runners, Tallied(r), Progress(r) \/ Failure(r)
  PROVE  Tallied(r)'
<1>t. /\ collected \in [Runners -> Nat] /\ processed \in [Runners -> Nat]
      /\ notified \in [Runners -> Nat]  /\ duplicates \in [Runners -> Nat]
      /\ skipped \in [Runners -> Nat]   /\ left \in [Runners -> 0..1]
      /\ limit \in [Runners -> Nat]     /\ pc \in [Runners -> Places]
      /\ Tallied(r)
  BY DEF TypeInv, TypeOK
<1> USE <1>t DEF Tallied, InHand, GoTo, Count, Clear, counters, given
<1>1. CASE Start(r)
  <2>1. PICK n \in Nat : limit' = [limit EXCEPT ![r] = n]
    BY <1>1, SettingsAssumption DEF Start
  <2>2. pc[r] = "idle" /\ pc'[r] \in {"fetch", "finish"} /\ UNCHANGED counters
    BY <1>1 DEF Start
  <2>3. QED BY <2>1, <2>2
<1>2. CASE SkipOld(r)
  BY <1>2 DEF SkipOld, InPage
<1>3. CASE StopAtLimit(r)
  BY <1>3 DEF StopAtLimit, InPage
<1>4. CASE Admit(r)
  <2>1. CASE MeetsThreshold(pos[r])
    BY <1>4, <2>1 DEF Admit, InPage
  <2>2. CASE ~MeetsThreshold(pos[r])
    BY <1>4, <2>2 DEF Admit, InPage
  <2>3. QED BY <2>1, <2>2
<1>5. CASE CheckDelivered(r)
  <2>1. CASE Key(r) \in delivered
    BY <1>5, <2>1 DEF CheckDelivered
  <2>2. CASE Key(r) \notin delivered
    BY <1>5, <2>2 DEF CheckDelivered
  <2>3. QED BY <2>1, <2>2
<1>6. CASE MarkDelivered(r)
  BY <1>6 DEF MarkDelivered
<1>7. CASE \/ FetchPage(r) \/ Send(r) \/ EndPage(r) \/ SaveCursor(r) \/ Refuse(r)
           \/ SendFails(r) \/ Raise(r)
  <2>1. UNCHANGED <<counters, limit>>
    BY <1>7
    DEF FetchPage, Send, EndPage, SaveCursor, Refuse, SendFails, Raise
  <2>2. \/ pc'[r] = "failed"
        \/ /\ InHand(r)' = InHand(r) /\ pc[r] \notin {"idle", "failed", "finish"}
           /\ pc'[r] # "idle"
    BY <1>7
    DEF FetchPage, Send, EndPage, SaveCursor, Refuse, SendFails, Raise, PageDone
  <2>3. QED BY <2>1, <2>2
<1>8. CASE SaveSuccess(r) \/ SaveFailure(r) \/ SuppressFailure(r) \/ Crash(r)
  BY <1>8 DEF SaveSuccess, SaveFailure, SuppressFailure, Crash, End
<1>9. QED
  BY <1>1, <1>2, <1>3, <1>4, <1>5, <1>6, <1>7, <1>8 DEF Progress, Failure

LEMMA OthersCount ==
  ASSUME TypeInv, NEW r \in Runners, Progress(r) \/ Failure(r), NEW s \in Runners, s # r
  PROVE  /\ pc'[s] = pc[s] /\ limit'[s] = limit[s] /\ left'[s] = left[s]
         /\ collected'[s] = collected[s] /\ processed'[s] = processed[s]
         /\ notified'[s] = notified[s] /\ duplicates'[s] = duplicates[s]
         /\ skipped'[s] = skipped[s]
<1> USE DEF TypeInv, TypeOK, GoTo, Count, Clear, counters, given
<1>1. CASE Progress(r)
  BY <1>1 DEF Progress, Start, FetchPage, SkipOld, StopAtLimit, Admit,
     CheckDelivered, Send, MarkDelivered, EndPage, SaveCursor, SaveSuccess,
     SaveFailure, Refuse, End
<1>2. CASE Failure(r)
  BY <1>2 DEF Failure, SendFails, Raise, SuppressFailure, Crash, End
<1>3. QED BY <1>1, <1>2

TallyInv == TypeInv /\ \A r \in Runners : Tallied(r)

LEMMA TallyInvStep == TallyInv /\ [Next]_vars => TallyInv'
<1> SUFFICES ASSUME TallyInv, [Next]_vars PROVE TallyInv'
  OBVIOUS
<1>1. TypeInv /\ TypeInv'
  BY TypeInvStep DEF TallyInv
<1>2. ASSUME NEW r \in Runners, Progress(r) \/ Failure(r), NEW s \in Runners
      PROVE  Tallied(s)'
  <2>1. CASE s = r
    BY <1>1, <1>2, <2>1, TalliedStep DEF TallyInv
  <2>2. CASE s # r
    BY <1>1, <1>2, <2>2, OthersCount DEF TallyInv, Tallied, InHand
  <2>3. QED BY <2>1, <2>2
<1>3. CASE Publish \/ Tick \/ UNCHANGED vars
  <2>1. UNCHANGED <<pc, given, counters>>
    BY <1>3 DEF Publish, Tick, vars, locals
  <2>2. QED BY <1>1, <2>1 DEF TallyInv, Tallied, InHand, counters, given
<1>4. QED BY <1>1, <1>2, <1>3 DEF Next, TallyInv

\* CountersAddUp, for every instance: a run accounts for every record it read.
THEOREM CountersRight == Spec => []CountersAddUp
<1>1. Init => TallyInv
  BY TypeInvInit DEF Init, Zero, TallyInv, Tallied, InHand
<1>2. TallyInv => CountersAddUp
  <2> SUFFICES ASSUME TallyInv, NEW r \in Runners, pc[r] # "failed"
               PROVE  /\ collected[r] = notified[r] + duplicates[r] + skipped[r]
                                         + InHand(r) + left[r]
                      /\ notified[r] + duplicates[r] <= processed[r]
                      /\ processed[r] <= limit[r]
    BY DEF CountersAddUp
  <2>1. /\ notified[r] \in Nat /\ duplicates[r] \in Nat /\ processed[r] \in Nat
        /\ InHand(r) \in Nat
    BY DEF TallyInv, TypeInv, TypeOK, InHand
  <2>2. QED BY <2>1 DEF TallyInv, Tallied
<1>3. QED BY <1>1, <1>2, TallyInvStep, PTL DEF Spec

-----------------------------------------------------------------------------
(***************************************************************************)
(* Rewinds.  A run that is alone never holds an older cursor than the      *)
(* stored one, and the page in hand is not behind its own.                 *)
(***************************************************************************)
Ahead(r) ==
  /\ pc[r] \notin {"idle", "failed"} => lastRow.token <= token[r]
  /\ pc[r] \in Paging => token[r] <= last[r]

Alone == \A r, s \in Runners : r = s

LEMMA AheadStep ==
  ASSUME TypeInv, Alone, NEW r \in Runners, Ahead(r), Progress(r) \/ Failure(r)
  PROVE  /\ Ahead(r)'
         /\ lastRow'.token < lastRow.token => lastRow'.status = "failed"
<1>t. /\ token \in [Runners -> Nat] /\ last \in [Runners -> Nat]
      /\ next \in [Runners -> Nat] /\ pc \in [Runners -> Places]
      /\ pos[r] \in Nat /\ feed \in Nat /\ lastRow.token \in Nat
      /\ PageSize \in Nat /\ Placed(r) /\ Ahead(r)
  BY FeedAssumption, SettingsAssumption DEF TypeInv, TypeOK, Row
<1> USE <1>t DEF Ahead, Paging, Handling, GoTo, Clear
<1>1. CASE Start(r)
  BY <1>1 DEF Start, stores
<1>2. CASE FetchPage(r)
  <2>1. token[r] <= PageEnd(token[r]) /\ PageEnd(token[r]) \in Nat
    BY DEF PageEnd, Placed
  <2>2. QED BY <1>2, <2>1 DEF FetchPage, stores
<1>3. CASE EndPage(r)
  <2>1. next[r] # 0 => token[r] <= next[r]
    BY <1>3 DEF EndPage, PageDone, Placed
  <2>2. QED BY <1>3, <2>1 DEF EndPage, PageDone, stores
<1>4. CASE SaveCursor(r) \/ SaveSuccess(r) \/ SaveFailure(r)
  BY <1>4 DEF SaveCursor, SaveSuccess, SaveFailure, End
<1>5. CASE SuppressFailure(r) \/ Crash(r) \/ Raise(r)
  BY <1>5 DEF SuppressFailure, Crash, Raise, End, stores
<1>6. CASE \/ SkipOld(r) \/ StopAtLimit(r) \/ Admit(r) \/ CheckDelivered(r)
           \/ Send(r) \/ MarkDelivered(r) \/ Refuse(r) \/ SendFails(r)
  <2>1. /\ UNCHANGED <<token, last, lastRow>> /\ pc[r] \in Paging
        /\ pc'[r] \in Paging \cup {"finish", "failed"}
    BY <1>6 DEF SkipOld, StopAtLimit, Admit, CheckDelivered, Send, MarkDelivered,
       Refuse, SendFails, InPage, page, stores
  <2>2. QED BY <2>1
<1>7. QED
  BY <1>1, <1>2, <1>3, <1>4, <1>5, <1>6 DEF Progress, Failure

\* OnlyFailureRewinds, for every feed and settings, of a runner that is alone.
THEOREM RewindsExplained ==
  ASSUME Alone
  PROVE  Spec => OnlyFailureRewinds
<1> DEFINE AheadInv == TypeInv /\ \A r \in Runners : Ahead(r)
<1>1. Init => AheadInv
  BY TypeInvInit DEF Init, Zero, Ahead, Paging, Handling
<1>2. AheadInv /\ [Next]_vars =>
        AheadInv' /\ [lastRow'.token < lastRow.token => lastRow'.status = "failed"]_lastRow
  <2> SUFFICES ASSUME AheadInv, [Next]_vars
               PROVE  /\ AheadInv'
                      /\ [lastRow'.token < lastRow.token =>
                            lastRow'.status = "failed"]_lastRow
    OBVIOUS
  <2>1. TypeInv'
    BY TypeInvStep
  <2>2. ASSUME NEW r \in Runners, Progress(r) \/ Failure(r)
        PROVE  /\ \A s \in Runners : Ahead(s)'
               /\ lastRow'.token < lastRow.token => lastRow'.status = "failed"
    BY <2>2, AheadStep DEF Alone
  <2>3. CASE Publish \/ Tick \/ UNCHANGED vars
    <3>1. UNCHANGED <<lastRow, pc, token, page>>
      BY <2>3 DEF Publish, Tick, vars, stores, locals
    <3>2. QED BY <2>1, <3>1 DEF Ahead, page
  <2>4. QED BY <2>1, <2>2, <2>3 DEF Next
<1>3. QED BY <1>1, <1>2, PTL DEF Spec, OnlyFailureRewinds

(***************************************************************************)
(* The delivery protocol.                                                  *)
(***************************************************************************)
\* What a runner holds is a key.
LEMMA HeldIsKey ==
  ASSUME TypeInv, NEW place \in {"send", "mark"}, NEW r \in Runners, pc[r] = place
  PROVE  HeldAt(place)[r] = Key(r) /\ Key(r) \in Keys /\ Key(r) # NoKey
<1>1. Key(r) \in Keys
  BY InHandIsRecord DEF Handling
<1>2. QED BY <1>1, RefinementAssumption DEF HeldAt

\* A runner that is not at the place, or that stays there with the same
\* record, changes nobody's holdings.
LEMMA HoldingsKept ==
  ASSUME NEW r \in Runners, NEW place \in {"send", "mark"},
         \A q \in Runners \ {r} : pc'[q] = pc[q] /\ pos'[q] = pos[q],
         \/ pc[r] # place /\ pc'[r] # place
         \/ pc'[r] = pc[r] /\ pos'[r] = pos[r]
  PROVE  HeldAt(place)' = HeldAt(place)
<1>1. ASSUME NEW q \in Runners
      PROVE  (IF pc'[q] = place THEN KeyOf[pos'[q]] ELSE NoKey)
              = (IF pc[q] = place THEN KeyOf[pos[q]] ELSE NoKey)
  OBVIOUS
<1>2. QED BY <1>1 DEF HeldAt, Key

\* It takes the key of the record in hand to the place, or leaves the place.
LEMMA HoldingTaken ==
  ASSUME NEW r \in Runners, NEW place \in {"send", "mark"},
         \A q \in Runners \ {r} : pc'[q] = pc[q] /\ pos'[q] = pos[q],
         pc'[r] = place, pos'[r] = pos[r]
  PROVE  HeldAt(place)' = [HeldAt(place) EXCEPT ![r] = Key(r)]
<1>1. ASSUME NEW q \in Runners
      PROVE  (IF pc'[q] = place THEN KeyOf[pos'[q]] ELSE NoKey)
              = (IF q = r THEN KeyOf[pos[r]]
                 ELSE IF pc[q] = place THEN KeyOf[pos[q]] ELSE NoKey)
  OBVIOUS
<1>2. QED BY <1>1 DEF HeldAt, Key

LEMMA HoldingLeft ==
  ASSUME NEW r \in Runners, NEW place \in {"send", "mark"},
         \A q \in Runners \ {r} : pc'[q] = pc[q] /\ pos'[q] = pos[q],
         pc'[r] # place
  PROVE  HeldAt(place)' = [HeldAt(place) EXCEPT ![r] = NoKey]
<1>1. ASSUME NEW q \in Runners
      PROVE  (IF pc'[q] = place THEN KeyOf[pos'[q]] ELSE NoKey)
              = (IF q = r THEN NoKey
                 ELSE IF pc[q] = place THEN KeyOf[pos[q]] ELSE NoKey)
  OBVIOUS
<1>2. QED BY <1>1 DEF HeldAt, Key

LEMMA OthersWait ==
  ASSUME TypeInv, NEW r \in Runners, Progress(r) \/ Failure(r)
  PROVE  \A q \in Runners \ {r} : pc'[q] = pc[q] /\ pos'[q] = pos[q]
BY DEF TypeInv, TypeOK, Progress, Failure, Start, FetchPage, SkipOld,
       StopAtLimit, Admit, CheckDelivered, Send, MarkDelivered, EndPage,
       SaveCursor, SaveSuccess, SaveFailure, Refuse, SendFails, Raise,
       SuppressFailure, Crash, End, GoTo, Count, Clear, NextRecord

\* The steps that neither consult the ledger, send nor record: nobody's
\* holdings change.
Elsewhere(r) ==
  \/ Start(r)   \/ FetchPage(r)  \/ SkipOld(r)     \/ StopAtLimit(r)
  \/ Admit(r)   \/ EndPage(r)    \/ SaveCursor(r)  \/ SaveSuccess(r)
  \/ SaveFailure(r)

LEMMA ElsewhereMaps ==
  ASSUME TypeInv, NEW r \in Runners, Elsewhere(r)
  PROVE  UNCHANGED Delivery!vars
<1>1. /\ UNCHANGED <<delivered, posts, faults>>
      /\ pc[r] \notin {"send", "mark"} /\ pc'[r] \notin {"send", "mark"}
  BY DEF Elsewhere, Start, FetchPage, SkipOld, StopAtLimit, Admit, EndPage,
         SaveCursor, SaveSuccess, SaveFailure, End, GoTo, InPage, PageDone,
         world, stores, TypeInv, TypeOK
<1>2. \A q \in Runners \ {r} : pc'[q] = pc[q] /\ pos'[q] = pos[q]
  BY OthersWait DEF Elsewhere, Progress
<1>3. HeldAt("send")' = HeldAt("send") /\ HeldAt("mark")' = HeldAt("mark")
  BY <1>1, <1>2, HoldingsKept
<1>4. QED BY <1>1, <1>3 DEF Delivery!vars

LEMMA CheckMaps ==
  ASSUME TypeInv, NEW r \in Runners, CheckDelivered(r)
  PROVE  [Delivery!Next]_(Delivery!vars)
<1>o. \A q \in Runners \ {r} : pc'[q] = pc[q] /\ pos'[q] = pos[q]
  BY OthersWait DEF Progress
<1>u. UNCHANGED <<delivered, posts, faults>> /\ pc[r] = "check"
  BY DEF CheckDelivered, world, stores
<1>1. CASE Key(r) \in delivered
  <2>1. pc'[r] = "scan"
    BY <1>1 DEF CheckDelivered, GoTo, TypeInv, TypeOK
  <2>2. HeldAt("send")' = HeldAt("send") /\ HeldAt("mark")' = HeldAt("mark")
    BY <2>1, <1>u, <1>o, HoldingsKept
  <2>3. QED BY <1>u, <2>2 DEF Delivery!vars
<1>2. CASE Key(r) \notin delivered
  <2>1. pc'[r] = "send" /\ pos'[r] = pos[r]
    BY <1>2 DEF CheckDelivered, GoTo, TypeInv, TypeOK
  <2>2. Key(r) \in Keys \ delivered
    BY <1>2, <1>u, InHandIsRecord DEF Handling
  <2>3. HeldAt("send")' = [HeldAt("send") EXCEPT ![r] = Key(r)]
    BY <2>1, <1>o, HoldingTaken
  <2>4. HeldAt("mark")' = HeldAt("mark")
    BY <2>1, <1>u, <1>o, HoldingsKept
  <2>5. HeldAt("send")[r] = NoKey /\ HeldAt("mark")[r] = NoKey
    BY <1>u DEF HeldAt
  <2>6. Delivery!Claim(r)
    BY <1>u, <2>2, <2>3, <2>4, <2>5 DEF Delivery!Claim
  <2>7. QED BY <2>6 DEF Delivery!Next
<1>3. QED BY <1>1, <1>2

LEMMA SendMaps ==
  ASSUME TypeInv, NEW r \in Runners, Send(r)
  PROVE  Delivery!Next
<1>1. /\ pc[r] = "send" /\ pc'[r] = "mark" /\ pos'[r] = pos[r]
      /\ UNCHANGED <<delivered, faults>>
      /\ IF DiscordEnabled THEN Post(Key(r)) ELSE UNCHANGED posts
  BY DEF Send, GoTo, world, TypeInv, TypeOK
<1>o. \A q \in Runners \ {r} : pc'[q] = pc[q] /\ pos'[q] = pos[q]
  BY OthersWait DEF Progress
<1>2. HeldAt("send")[r] = Key(r) /\ Key(r) # NoKey
  BY <1>1, HeldIsKey
<1>3. HeldAt("send")' = [HeldAt("send") EXCEPT ![r] = NoKey]
  BY <1>1, <1>o, HoldingLeft
<1>4. HeldAt("mark")' = [HeldAt("mark") EXCEPT ![r] = HeldAt("send")[r]]
  BY <1>1, <1>2, <1>o, HoldingTaken
<1>5. Delivery!Announce(r)
  BY <1>1, <1>2, <1>3, <1>4 DEF Delivery!Announce, Delivery!Post, Post
<1>6. QED BY <1>5 DEF Delivery!Next

LEMMA MarkMaps ==
  ASSUME TypeInv, NEW r \in Runners, MarkDelivered(r)
  PROVE  Delivery!Next
<1>1. /\ pc[r] = "mark" /\ pc'[r] = "scan"
      /\ UNCHANGED <<posts, faults>>
      /\ delivered' = delivered \cup {Key(r)}
  BY DEF MarkDelivered, GoTo, world, TypeInv, TypeOK
<1>o. \A q \in Runners \ {r} : pc'[q] = pc[q] /\ pos'[q] = pos[q]
  BY OthersWait DEF Progress
<1>2. HeldAt("mark")[r] = Key(r) /\ Key(r) # NoKey
  BY <1>1, HeldIsKey
<1>3. HeldAt("mark")' = [HeldAt("mark") EXCEPT ![r] = NoKey]
  BY <1>1, <1>o, HoldingLeft
<1>4. HeldAt("send")' = HeldAt("send")
  BY <1>1, <1>o, HoldingsKept
<1>5. Delivery!Record(r)
  BY <1>1, <1>2, <1>3, <1>4 DEF Delivery!Record
<1>6. QED BY <1>5 DEF Delivery!Next

LEMMA RefuseMaps ==
  ASSUME TypeInv, NEW r \in Runners, Refuse(r)
  PROVE  [Delivery!Next]_(Delivery!vars)
<1>1. /\ pc[r] = "send" /\ pc'[r] \in {"send", "failed"} /\ pos'[r] = pos[r]
      /\ UNCHANGED <<delivered, posts, faults>>
  BY DEF Refuse, GoTo, world, stores, TypeInv, TypeOK
<1>o. \A q \in Runners \ {r} : pc'[q] = pc[q] /\ pos'[q] = pos[q]
  BY OthersWait DEF Progress
<1>2. HeldAt("mark")' = HeldAt("mark")
  BY <1>1, <1>o, HoldingsKept
<1>3. CASE pc'[r] = "send"
  <2>1. HeldAt("send")' = HeldAt("send")
    BY <1>1, <1>3, <1>o, HoldingsKept
  <2>2. QED BY <1>1, <1>2, <2>1 DEF Delivery!vars
<1>4. CASE pc'[r] = "failed"
  <2>1. HeldAt("send")[r] # NoKey
    BY <1>1, HeldIsKey
  <2>2. HeldAt("send")' = [HeldAt("send") EXCEPT ![r] = NoKey]
    BY <1>4, <1>o, HoldingLeft
  <2>3. Delivery!GiveUp(r)
    BY <1>1, <1>2, <2>1, <2>2 DEF Delivery!GiveUp
  <2>4. QED BY <2>3 DEF Delivery!Next
<1>5. QED BY <1>1, <1>3, <1>4

\* A failure posts at most what the runner was sending, and leaves it where it
\* was or without a holding.
LEMMA FailureMaps ==
  ASSUME TypeInv, NEW r \in Runners, Failure(r)
  PROVE  Delivery!Next
<1>o. \A q \in Runners \ {r} : pc'[q] = pc[q] /\ pos'[q] = pos[q]
  BY OthersWait
<1>1. /\ faults < MaxFaults /\ faults' = faults + 1
      /\ delivered' = delivered
      /\ UNCHANGED posts \/ (pc[r] = "send" /\ DiscordEnabled /\ Post(Key(r)))
      /\ \/ pc'[r] = pc[r] /\ pos'[r] = pos[r]
         \/ pc'[r] \notin {"send", "mark"}
  BY DEF Failure, SendFails, Raise, SuppressFailure, Crash, Fault, End, GoTo,
         stores, TypeInv, TypeOK
<1>2. \/ UNCHANGED posts
      \/ HeldAt("send")[r] # NoKey /\ DiscordEnabled /\ Delivery!Post(HeldAt("send")[r])
  BY <1>1, HeldIsKey DEF Post, Delivery!Post
<1>3. \/ UNCHANGED <<HeldAt("send"), HeldAt("mark")>>
      \/ /\ HeldAt("send")' = [HeldAt("send") EXCEPT ![r] = NoKey]
         /\ HeldAt("mark")' = [HeldAt("mark") EXCEPT ![r] = NoKey]
  <2>1. CASE pc'[r] = pc[r] /\ pos'[r] = pos[r]
    <3>1. HeldAt("send")' = HeldAt("send")
      BY <2>1, <1>o, HoldingsKept
    <3>2. HeldAt("mark")' = HeldAt("mark")
      BY <2>1, <1>o, HoldingsKept
    <3>3. QED BY <3>1, <3>2
  <2>2. CASE pc'[r] \notin {"send", "mark"}
    BY <2>2, <1>o, HoldingLeft
  <2>3. QED BY <1>1, <2>1, <2>2
<1>4. Delivery!Fail(r)
  BY <1>1, <1>2, <1>3 DEF Delivery!Fail
<1>5. QED BY <1>4 DEF Delivery!Next

LEMMA StepMaps == TypeInv /\ [Next]_vars => [Delivery!Next]_(Delivery!vars)
<1> SUFFICES ASSUME TypeInv, [Next]_vars
             PROVE  [Delivery!Next]_(Delivery!vars)
  OBVIOUS
<1>1. ASSUME NEW r \in Runners, Progress(r) PROVE [Delivery!Next]_(Delivery!vars)
  <2>1. CASE Elsewhere(r)
    BY <2>1, ElsewhereMaps
  <2>2. CASE CheckDelivered(r)
    BY <2>2, CheckMaps
  <2>3. CASE Send(r)
    BY <2>3, SendMaps
  <2>4. CASE MarkDelivered(r)
    BY <2>4, MarkMaps
  <2>5. CASE Refuse(r)
    BY <2>5, RefuseMaps
  <2>6. QED BY <1>1, <2>1, <2>2, <2>3, <2>4, <2>5 DEF Progress, Elsewhere
<1>2. ASSUME NEW r \in Runners, Failure(r) PROVE Delivery!Next
  BY <1>2, FailureMaps
<1>3. CASE Publish \/ Tick \/ UNCHANGED vars
  BY <1>3 DEF Publish, Tick, vars, world, stores, locals, Delivery!vars, HeldAt, Key
<1>4. QED BY <1>1, <1>2, <1>3 DEF Next

\* Every behaviour of the collector, with any number of overlapping runs and
\* failures, is a behaviour of the delivery protocol.
THEOREM CollectorDelivers == Spec => ImplementsDelivery
<1>1. Init => Delivery!Init
  BY DEF Init, Delivery!Init, HeldAt
<1>2. Spec => []TypeInv
  BY TypeInvInit, TypeInvStep, PTL DEF Spec
<1>3. QED BY <1>1, <1>2, StepMaps, PTL DEF Spec, ImplementsDelivery, Delivery!Spec

-----------------------------------------------------------------------------
(* What the protocol promises holds of the collector *)

Protocol == INSTANCE DeliveryProtocolProofs WITH
              Workers <- Runners,
              claimed <- HeldAt("send"),
              announced <- HeldAt("mark")

\* Extra messages need a failure or a second run.
THEOREM DuplicatesExplained == Spec => []PostsExplained
<1>1. Protocol!ProtocolAssumption
  BY RefinementAssumption, SettingsAssumption
  DEF Protocol!ProtocolAssumption, Protocol!IsFiniteSet, IsFiniteSet
<1>2. Protocol!Spec => []Protocol!PostsExplained
  BY <1>1, Protocol!ProtocolBounded, PTL
<1>3. Delivery!Init <=> Protocol!Init
  BY DEF Delivery!Init, Protocol!Init
<1>4. [Delivery!Next]_(Delivery!vars) <=> [Protocol!Next]_(Protocol!vars)
  BY DEF Delivery!Next, Delivery!Claim, Delivery!Announce, Delivery!Record,
         Delivery!GiveUp, Delivery!Fail, Delivery!Post, Delivery!vars,
         Protocol!Next, Protocol!Claim, Protocol!Announce, Protocol!Record,
         Protocol!GiveUp, Protocol!Fail, Protocol!Post, Protocol!vars
<1>5. Protocol!PostsExplained => PostsExplained
  BY DEF Protocol!PostsExplained, PostsExplained, Protocol!Cardinality,
         Cardinality, Protocol!IsFiniteSet, IsFiniteSet
<1>6. QED
  BY <1>2, <1>3, <1>4, <1>5, CollectorDelivers, PTL
  DEF ImplementsDelivery, Delivery!Spec, Protocol!Spec

-----------------------------------------------------------------------------
(***************************************************************************)
(* Headway, the step from one run to the next of EventuallySettled.  Two   *)
(* history variables say of each run where it began: the cursor it read    *)
(* and how many records there were.  No step depends on them.              *)
(***************************************************************************)
VARIABLES began, held

history == <<began, held>>

Remember ==
  /\ began' = [r \in Runners |-> IF pc[r] = "idle" THEN lastRow.token ELSE began[r]]
  /\ held' = [r \in Runners |-> IF pc[r] = "idle" THEN feed ELSE held[r]]

HistoryInit == Init /\ began = Zero /\ held = Zero
HistoryNext == Next /\ Remember
HistorySpec == HistoryInit /\ [][HistoryNext]_<<vars, history>>

\* The token of a run is a page beyond the cursor it began with.
Further(r) == began[r] + PageSize <= token[r]

\* All there was when the run began is settled.
AllSettled(r) == \A d \in 1..held[r] : Settled(d)

\* In its first page a run has processed records of that page only, so a
\* limit of a page is not reached, and a last page is not short of anything
\* there was when it began.
FirstPage(r) ==
  /\ processed[r] < pos[r] - token[r] + InHand(r)
  /\ last[r] <= token[r] + PageSize
  /\ next[r] = 0 => held[r] <= last[r]

OnItsWay(r) ==
  pc[r] \notin {"idle", "failed"} =>
    /\ began[r] <= token[r]
    /\ pages[r] = 0 => pc[r] \in {"fetch", "finish"} /\ processed[r] = 0
    /\ pages[r] > 1 => Further(r)
    /\ pages[r] = 1 /\ pc[r] \in {"fetch", "cursor"} => Further(r)
    /\ pages[r] = 1 /\ pc[r] \in Paging => FirstPage(r)
    /\ pages[r] = 1 /\ pc[r] = "finish" /\ limit[r] >= PageSize => Further(r) \/ AllSettled(r)
    /\ pc[r] \in Paging /\ next[r] # 0 => next[r] = token[r] + PageSize

HistoryInv ==
  /\ SafeInv
  /\ TallyInv
  /\ began \in [Runners -> Nat]
  /\ held \in [Runners -> 0..feed]
  /\ \A r \in Runners : OnItsWay(r)

\* A run that ends without a failure, and whose limit was at least a page, has
\* moved the stored cursor on by a page at least, from where it began, unless
\* all there was when it began is settled.
RunsMakeHeadway ==
  [][\A r \in Runners :
       SaveSuccess(r) /\ pages[r] > 0 /\ limit[r] >= PageSize =>
         \/ began[r] + PageSize <= lastRow'.token
         \/ \A d \in 1..held[r] : Settled(d)]_<<vars, history>>

\* The facts of one run that the steps below use.
LEMMA FactsOfARun ==
  ASSUME HistoryInv, NEW r \in Runners
  PROVE  /\ token \in [Runners -> Nat] /\ last \in [Runners -> Nat]
         /\ next \in [Runners -> Nat] /\ pos \in [Runners -> Nat]
         /\ pages \in [Runners -> Nat] /\ processed \in [Runners -> Nat]
         /\ limit \in [Runners -> Nat] /\ pc \in [Runners -> Places]
         /\ began \in [Runners -> Nat] /\ held \in [Runners -> Nat] /\ held[r] <= feed
         /\ feed \in Nat /\ feed <= FeedSize /\ FeedSize \in Nat
         /\ PageSize \in Nat /\ PageSize > 0 /\ lastRow.token \in Nat
         /\ InHand(r) \in 0..1
         /\ TypeInv /\ Placed(r) /\ ScanSafe(r) /\ Tallied(r) /\ OnItsWay(r)
<1>1. TypeOK /\ TypeInv /\ Placed(r) /\ ScanSafe(r) /\ Tallied(r) /\ OnItsWay(r)
  BY DEF HistoryInv, SafeInv, TallyInv, TypeInv
<1>2. /\ token \in [Runners -> Nat] /\ last \in [Runners -> Nat]
      /\ next \in [Runners -> Nat] /\ pos \in [Runners -> Nat]
      /\ pages \in [Runners -> Nat] /\ processed \in [Runners -> Nat]
      /\ limit \in [Runners -> Nat] /\ pc \in [Runners -> Places]
      /\ feed \in Nat /\ feed <= FeedSize /\ FeedSize \in Nat
      /\ PageSize \in Nat /\ PageSize > 0 /\ lastRow.token \in Nat
  BY <1>1, FeedAssumption, SettingsAssumption DEF TypeOK, Row
<1>3. /\ began \in [Runners -> Nat] /\ held \in [Runners -> Nat] /\ held[r] <= feed
  BY <1>2 DEF HistoryInv
<1>4. QED BY <1>1, <1>2, <1>3 DEF InHand

\* A run that is not about to begin forgets nothing.
LEMMA HistoryStays ==
  ASSUME HistoryInv, Remember, NEW r \in Runners, pc[r] # "idle"
  PROVE  began'[r] = began[r] /\ held'[r] = held[r]
BY DEF Remember

LEMMA AllStaySettled ==
  ASSUME HistoryInv, TypeInv', Grows, Remember, NEW r \in Runners, pc[r] # "idle",
         AllSettled(r)
  PROVE  AllSettled(r)'
<1>1. held[r] \in Int /\ held[r] <= FeedSize /\ TypeInv
  BY FactsOfARun
<1>2. \A d \in 1..held[r] : Settled(d)'
  BY <1>1, PrefixStays DEF AllSettled
<1>3. QED BY <1>2, HistoryStays DEF AllSettled

\* Between two records of its page, or handling one, a run processes at most one
\* record for each it passes.
LEMMA PageStep ==
  ASSUME HistoryInv, NEW r \in Runners,
         \/ SkipOld(r) \/ Admit(r) \/ CheckDelivered(r) \/ Send(r) \/ MarkDelivered(r)
         \/ Refuse(r) \/ SendFails(r)
  PROVE  /\ pc[r] \in Paging /\ pc'[r] \in Paging \cup {"failed"}
         /\ UNCHANGED <<token, page>>
         /\ pc'[r] # "failed" =>
              processed'[r] - pos'[r] - InHand(r)' <= processed[r] - pos[r] - InHand(r)
<1>t. /\ pos \in [Runners -> Nat] /\ processed \in [Runners -> Nat]
      /\ pc \in [Runners -> Places]
  BY FactsOfARun
<1> USE <1>t DEF InHand, GoTo, Count, NextRecord, Paging, Handling
<1>1. CASE SkipOld(r)
  BY <1>1 DEF SkipOld, InPage
<1>2. CASE Admit(r)
  <2>1. CASE MeetsThreshold(pos[r])
    BY <1>2, <2>1 DEF Admit, InPage
  <2>2. CASE ~MeetsThreshold(pos[r])
    BY <1>2, <2>2 DEF Admit, InPage
  <2>3. QED BY <2>1, <2>2
<1>3. CASE CheckDelivered(r)
  <2>1. CASE Key(r) \in delivered
    BY <1>3, <2>1 DEF CheckDelivered
  <2>2. CASE Key(r) \notin delivered
    BY <1>3, <2>2 DEF CheckDelivered, counters
  <2>3. QED BY <2>1, <2>2
<1>4. CASE MarkDelivered(r)
  BY <1>4 DEF MarkDelivered
<1>5. CASE Send(r) \/ Refuse(r) \/ SendFails(r)
  BY <1>5 DEF Send, Refuse, SendFails, counters
<1>6. QED BY <1>1, <1>2, <1>3, <1>4, <1>5

LEMMA WayStep ==
  ASSUME HistoryInv, TypeInv', Grows, Remember, NEW r \in Runners,
         Progress(r) \/ Failure(r)
  PROVE  OnItsWay(r)'
<1>t. /\ token \in [Runners -> Nat] /\ last \in [Runners -> Nat]
      /\ next \in [Runners -> Nat] /\ pos \in [Runners -> Nat]
      /\ pages \in [Runners -> Nat] /\ processed \in [Runners -> Nat]
      /\ limit \in [Runners -> Nat] /\ pc \in [Runners -> Places]
      /\ began \in [Runners -> Nat] /\ held \in [Runners -> Nat] /\ held[r] <= feed
      /\ feed \in Nat /\ PageSize \in Nat /\ PageSize > 0 /\ lastRow.token \in Nat
      /\ InHand(r) \in 0..1
      /\ Placed(r) /\ ScanSafe(r) /\ Tallied(r) /\ OnItsWay(r)
  BY FactsOfARun
<1>1. CASE Start(r)
  <2>1. /\ pc[r] = "idle" /\ pc'[r] \in {"fetch", "finish"} /\ token'[r] = lastRow.token
        /\ pages'[r] = 0 /\ processed'[r] = 0
    BY <1>1, <1>t DEF Start, GoTo, Placed, Tallied, page, counters
  <2>2. began'[r] = lastRow.token
    BY <2>1 DEF Remember
  <2>3. QED BY <2>1, <2>2, <1>t DEF OnItsWay, Paging, Handling
<1>2. CASE FetchPage(r)
  <2>1. /\ pc[r] = "fetch" /\ pc'[r] = "scan" /\ pages'[r] = pages[r] + 1
        /\ pos'[r] = token[r] + 1 /\ last'[r] = PageEnd(token[r])
        /\ next'[r] = NextToken(token[r]) /\ token'[r] = token[r]
        /\ processed'[r] = processed[r]
    BY <1>2, <1>t DEF FetchPage, GoTo, Count, counters
  <2>2. began'[r] = began[r] /\ held'[r] = held[r]
    BY <2>1, HistoryStays
  <2>3. /\ PageEnd(token[r]) <= token[r] + PageSize
        /\ NextToken(token[r]) = 0 => held[r] <= PageEnd(token[r])
        /\ NextToken(token[r]) # 0 => NextToken(token[r]) = token[r] + PageSize
    BY <1>t DEF PageEnd, NextToken
  <2>4. pages[r] = 0 => FirstPage(r)'
    BY <2>1, <2>2, <2>3, <1>t DEF OnItsWay, FirstPage, InHand
  <2>5. pages[r] > 0 => Further(r)'
    BY <2>1, <2>2, <1>t DEF OnItsWay, Further
  <2>6. QED BY <2>1, <2>2, <2>3, <2>4, <2>5, <1>t DEF OnItsWay
<1>3. CASE \/ SkipOld(r) \/ Admit(r) \/ CheckDelivered(r) \/ Send(r) \/ MarkDelivered(r)
           \/ Refuse(r) \/ SendFails(r)
  <2>1. /\ pc[r] \in Paging /\ pc'[r] \in Paging \cup {"failed"}
        /\ UNCHANGED <<token, page>>
        /\ pc'[r] # "failed" =>
             processed'[r] - pos'[r] - InHand(r)' <= processed[r] - pos[r] - InHand(r)
    BY <1>3, PageStep
  <2>2. began'[r] = began[r] /\ held'[r] = held[r]
    BY <2>1, HistoryStays DEF Paging, Handling
  <2>3. pos'[r] \in Nat /\ processed'[r] \in Nat /\ InHand(r)' \in 0..1
    BY DEF TypeInv, TypeOK, InHand
  <2>4. pc'[r] # "failed" /\ FirstPage(r) => FirstPage(r)'
    BY <2>1, <2>2, <2>3, <1>t DEF FirstPage, page
  <2>5. QED
    BY <2>1, <2>2, <2>4, <1>t DEF OnItsWay, Further, Paging, Handling, page
\* The limit is not reached in the first page.
<1>4. CASE StopAtLimit(r)
  <2>1. /\ pc[r] = "scan" /\ pc'[r] = "finish" /\ pos[r] <= last[r]
        /\ processed[r] >= limit[r]
        /\ UNCHANGED <<token, page, limit, processed>>
    BY <1>4, <1>t DEF StopAtLimit, InPage, GoTo, given
  <2>2. began'[r] = began[r] /\ held'[r] = held[r]
    BY <2>1, HistoryStays
  <2>3. pages[r] = 1 => limit[r] < PageSize
    BY <2>1, <1>t DEF OnItsWay, FirstPage, InHand, Paging
  <2>4. pages[r] # 0
    BY <2>1, <1>t DEF OnItsWay
  <2>5. QED
    BY <2>1, <2>2, <2>3, <2>4, <1>t DEF OnItsWay, Further, Paging, Handling, page
<1>5. CASE EndPage(r)
  <2>1. /\ pc[r] = "scan" /\ last[r] < pos[r]
        /\ UNCHANGED <<page, limit, processed>>
        /\ \/ next[r] # 0 /\ token'[r] = next[r] /\ pc'[r] = "cursor"
           \/ next[r] = 0 /\ token'[r] = token[r] /\ pc'[r] = "finish"
    BY <1>5, <1>t DEF EndPage, PageDone, GoTo, given, counters
  <2>2. began'[r] = began[r] /\ held'[r] = held[r]
    BY <2>1, HistoryStays
  <2>3. pages[r] # 0 /\ began[r] <= token[r]
    BY <2>1, <1>t DEF OnItsWay
  <2>4. CASE next[r] # 0
    <3>1. token'[r] = token[r] + PageSize
      BY <2>1, <2>4, <1>t DEF OnItsWay, Paging
    <3>2. Further(r)' /\ began'[r] <= token'[r]
      BY <3>1, <2>2, <2>3, <1>t DEF Further
    <3>3. QED
      BY <2>1, <2>3, <2>4, <3>2 DEF OnItsWay, Paging, Handling, page
  <2>5. CASE next[r] = 0
    <3>1. pages[r] = 1 => AllSettled(r)
      <4>1. pages[r] = 1 => held[r] <= last[r]
        BY <2>1, <2>5, <1>t DEF OnItsWay, FirstPage, Paging
      <4>2. \A d \in 1..pos[r] - 1 : Settled(d)
        BY <2>1, <1>t DEF ScanSafe, Paging
      <4>3. QED BY <4>1, <4>2, <2>1, <1>t DEF AllSettled
    <3>2. pages[r] = 1 => AllSettled(r)'
      BY <3>1, <2>1, AllStaySettled
    <3>3. Further(r) => Further(r)'
      BY <2>1, <2>2, <2>5 DEF Further
    <3>4. QED
      BY <2>1, <2>2, <2>3, <2>5, <3>2, <3>3, <1>t DEF OnItsWay, Paging, Handling, page
  <2>6. QED BY <2>4, <2>5
<1>6. CASE SaveCursor(r)
  <2>1. /\ pc[r] = "cursor" /\ pc'[r] \in {"fetch", "finish"}
        /\ UNCHANGED <<token, page, processed>>
    BY <1>6, <1>t DEF SaveCursor, GoTo, counters
  <2>2. began'[r] = began[r]
    BY <2>1, HistoryStays
  <2>3. pages[r] # 0 /\ Further(r)
    BY <2>1, <1>t DEF OnItsWay
  <2>4. QED
    BY <2>1, <2>2, <2>3, <1>t DEF OnItsWay, Further, Paging, Handling, page
<1>7. CASE \/ SaveSuccess(r) \/ SaveFailure(r) \/ SuppressFailure(r) \/ Crash(r)
           \/ Raise(r)
  BY <1>7, <1>t
  DEF SaveSuccess, SaveFailure, SuppressFailure, Crash, Raise, End, GoTo, OnItsWay
<1>8. QED
  BY <1>1, <1>2, <1>3, <1>4, <1>5, <1>6, <1>7 DEF Progress, Failure

\* A run does not lose its way when nothing of it changes.
LEMMA WayStays ==
  ASSUME HistoryInv, TypeInv', Grows, Remember \/ UNCHANGED history, NEW s \in Runners,
         pc'[s] = pc[s], token'[s] = token[s], pos'[s] = pos[s], limit'[s] = limit[s],
         processed'[s] = processed[s],
         pages'[s] = pages[s], last'[s] = last[s], next'[s] = next[s]
  PROVE  OnItsWay(s)'
<1> SUFFICES ASSUME pc[s] # "idle" PROVE OnItsWay(s)'
  BY DEF OnItsWay
<1>1. began'[s] = began[s] /\ held'[s] = held[s]
  BY HistoryStays DEF history
<1>2. AllSettled(s) => AllSettled(s)'
  <2>1. held[s] \in Int /\ held[s] <= FeedSize /\ TypeInv
    BY FactsOfARun
  <2>2. AllSettled(s) => \A d \in 1..held[s] : Settled(d)'
    BY <2>1, PrefixStays DEF AllSettled
  <2>3. QED BY <2>2, <1>1 DEF AllSettled
<1>3. OnItsWay(s)
  BY FactsOfARun
<1>4. QED BY <1>1, <1>2, <1>3 DEF OnItsWay, Further, FirstPage, InHand

LEMMA OthersRead ==
  ASSUME TypeInv, NEW r \in Runners, Progress(r) \/ Failure(r), NEW s \in Runners, s # r
  PROVE  pages'[s] = pages[s] /\ last'[s] = last[s] /\ next'[s] = next[s]
<1> USE DEF TypeInv, TypeOK, Count, Clear, page
<1>1. CASE Progress(r)
  BY <1>1 DEF Progress, Start, FetchPage, SkipOld, StopAtLimit, Admit,
     CheckDelivered, Send, MarkDelivered, EndPage, SaveCursor, SaveSuccess,
     SaveFailure, Refuse, End
<1>2. CASE Failure(r)
  BY <1>2 DEF Failure, SendFails, Raise, SuppressFailure, Crash, End
<1>3. QED BY <1>1, <1>2

LEMMA HistoryInvInit == HistoryInit => HistoryInv
<1> SUFFICES ASSUME HistoryInit PROVE HistoryInv
  OBVIOUS
<1>1. SafeInv /\ TallyInv
  BY SafeInvInit, TypeInvInit DEF HistoryInit, Init, Zero, TallyInv, Tallied, InHand
<1>2. began \in [Runners -> Nat] /\ held \in [Runners -> 0..feed]
  BY DEF HistoryInit, Init, Zero
<1>3. \A r \in Runners : OnItsWay(r)
  BY DEF HistoryInit, Init, Zero, OnItsWay
<1>4. QED BY <1>1, <1>2, <1>3 DEF HistoryInv

LEMMA HistoryInvStep == HistoryInv /\ [HistoryNext]_<<vars, history>> => HistoryInv'
<1> SUFFICES ASSUME HistoryInv, [HistoryNext]_<<vars, history>> PROVE HistoryInv'
  OBVIOUS
<1>1. [Next]_vars /\ (Remember \/ UNCHANGED history)
  BY DEF HistoryNext
<1>2. SafeInv' /\ TallyInv'
  BY <1>1, SafeInvStep, TallyInvStep DEF HistoryInv
<1>3. TypeInv /\ TypeInv' /\ Grows
  BY <1>1, TypeInvStep, GrowsStep DEF HistoryInv, SafeInv
<1>4. feed <= feed' /\ feed \in Nat /\ feed' \in Nat /\ lastRow.token \in Nat
  <2>1. feed \in Nat /\ feed' \in Nat /\ lastRow.token \in Nat
    BY <1>3, FeedAssumption DEF TypeInv, TypeOK, Row
  <2>2. feed' = feed \/ feed' = feed + 1
    BY <1>1 DEF Next, Progress, Failure, Start, FetchPage, SkipOld, StopAtLimit, Admit,
       CheckDelivered, Send, MarkDelivered, EndPage, SaveCursor, SaveSuccess,
       SaveFailure, Refuse, SendFails, Raise, SuppressFailure, Crash, Publish, Tick,
       vars, world
  <2>3. QED BY <2>1, <2>2
<1>5. began' \in [Runners -> Nat] /\ held' \in [Runners -> 0..feed']
  <2>1. began \in [Runners -> Nat] /\ held \in [Runners -> 0..feed]
    BY DEF HistoryInv
  <2>2. CASE Remember
    BY <2>1, <2>2, <1>4 DEF Remember
  <2>3. CASE UNCHANGED history
    BY <2>1, <2>3, <1>4 DEF history
  <2>4. QED BY <1>1, <2>2, <2>3
<1>6. ASSUME NEW s \in Runners PROVE OnItsWay(s)'
  <2>1. ASSUME HistoryNext, NEW r \in Runners, Progress(r) \/ Failure(r)
        PROVE  OnItsWay(s)'
    <3>1. CASE s = r
      BY <2>1, <3>1, <1>3, WayStep DEF HistoryNext
    <3>2. CASE s # r
      BY <2>1, <3>2, <1>1, <1>3, OthersStay, OthersCount, OthersRead, WayStays
    <3>3. QED BY <3>1, <3>2
  <2>2. CASE Publish \/ Tick \/ UNCHANGED vars
    <3>1. UNCHANGED locals
      BY <2>2 DEF Publish, Tick, vars
    <3>2. QED BY <3>1, <1>1, <1>3, WayStays DEF locals, page, given, counters
  <2>3. QED BY <2>1, <2>2 DEF HistoryNext, Next
<1>7. QED BY <1>2, <1>5, <1>6 DEF HistoryInv

\* Runs get on, for every feed, any settings and any number of overlapping runs,
\* unless the limit is below a page: that is where EventuallySettled fails.
THEOREM RunsGetOn == HistorySpec => RunsMakeHeadway
<1>1. HistoryInv /\ [HistoryNext]_<<vars, history>> =>
        [\A r \in Runners :
           SaveSuccess(r) /\ pages[r] > 0 /\ limit[r] >= PageSize =>
             \/ began[r] + PageSize <= lastRow'.token
             \/ \A d \in 1..held[r] : Settled(d)]_<<vars, history>>
  <2> SUFFICES ASSUME HistoryInv, NEW r \in Runners, SaveSuccess(r), pages[r] > 0,
                      limit[r] >= PageSize
               PROVE  Further(r) \/ AllSettled(r)
    BY DEF SaveSuccess, Further, AllSettled
  <2>1. pc[r] = "finish" /\ pages[r] \in Nat /\ OnItsWay(r)
    BY FactsOfARun DEF SaveSuccess
  <2>2. QED BY <2>1 DEF OnItsWay
<1>2. QED
  BY <1>1, HistoryInvInit, HistoryInvStep, PTL DEF HistorySpec, RunsMakeHeadway

=============================================================================

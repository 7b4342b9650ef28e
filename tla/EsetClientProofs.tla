-------------------------- MODULE EsetClientProofs --------------------------
(***************************************************************************)
(* What is proved about EsetClient: no request arrives with a dead token,  *)
(* and nobody logs in without need.                                        *)
(***************************************************************************)
EXTENDS EsetClient, TLAPS

\* The client overestimates the life of the cached token by the time its
\* login took.
CacheHonest == cached.known => cached.expires <= cached.dies + AuthLag

\* A login under way is in time; only such a login holds an issued token, and
\* that token is fresh.
LoginInTime ==
  \A c \in Callers :
    /\ pc[c] = "auth" => since[c] <= now /\ now <= since[c] + AuthLag
    /\ issued[c] # 0 => pc[c] = "auth" /\ since[c] + TimeToLive <= issued[c]

\* A request under way is in time, and its token outlives the longest one.
RequestInTime ==
  \A c \in Callers : pc[c] = "api" =>
    /\ now <= since[c] + ApiLag
    /\ since[c] + ApiLag < carried[c]

LifeInv == TypeOK /\ CacheHonest /\ LoginInTime /\ RequestInTime

USE DEF Set

-----------------------------------------------------------------------------
\* The client's variables keep their types, and a request that is retried is
\* retried at most Attempts - 1 times.
THEOREM TypeCorrect == Spec => []TypeOK
<1>1. Init => TypeOK
  BY ClientAssumption DEF Init, TypeOK, NoToken
<1>2. TypeOK /\ [Next]_vars => TypeOK'
  <2> SUFFICES ASSUME TypeOK, [Next]_vars PROVE TypeOK'
    OBVIOUS
  <2> USE ClientAssumption DEF TypeOK
  <2>1. CASE Tick
    BY <2>1 DEF Tick
  <2>2. CASE UNCHANGED vars
    BY <2>2 DEF vars
  <2>3. ASSUME NEW c \in Callers, Call(c) PROVE TypeOK'
    BY <2>3 DEF Call
  <2>4. ASSUME NEW c \in Callers, AskToken(c) PROVE TypeOK'
    BY <2>4 DEF AskToken, SendRequest
  <2>5. ASSUME NEW c \in Callers, TakeLock(c) PROVE TypeOK'
    BY <2>5 DEF TakeLock, SendRequest
  <2>6. ASSUME NEW c \in Callers, Issue(c) PROVE TypeOK'
    BY <2>6 DEF Issue
  <2>7. ASSUME NEW c \in Callers, LogIn(c) PROVE TypeOK'
    BY <2>7 DEF LogIn, SendRequest, Release
  <2>8. ASSUME NEW c \in Callers, Answer(c) PROVE TypeOK'
    BY <2>8 DEF Answer, Return
  <2>9. ASSUME NEW c \in Callers, LogInFails(c) PROVE TypeOK'
    BY <2>9 DEF LogInFails, Fault, Release, Return, Retry
  <2>10. ASSUME NEW c \in Callers, RequestFails(c) PROVE TypeOK'
    BY <2>10 DEF RequestFails, Fault, Return, Retry
  <2>11. ASSUME NEW c \in Callers, Cancel(c) PROVE TypeOK'
    BY <2>11 DEF Cancel, Fault, Release, Return
  <2> QED
    BY <2>1, <2>2, <2>3, <2>4, <2>5, <2>6, <2>7, <2>8, <2>9, <2>10, <2>11
       DEF Next, Progress, Failure
<1> QED
  BY <1>1, <1>2, PTL DEF Spec

-----------------------------------------------------------------------------
\* Requests and logins end within their timeouts, in every behaviour.
LEMMA LifeAlways == Spec => []LifeInv
<1>1. Init => LifeInv
  BY ClientAssumption
     DEF Init, LifeInv, TypeOK, CacheHonest, LoginInTime, RequestInTime, NoToken
<1>2. LifeInv /\ TypeOK' /\ [Next]_vars => LifeInv'
  <2> SUFFICES ASSUME LifeInv, TypeOK', [Next]_vars
               PROVE CacheHonest' /\ LoginInTime' /\ RequestInTime'
    BY DEF LifeInv
  <2> USE ClientAssumption, LagAssumption
      DEF LifeInv, TypeOK, CacheHonest, LoginInTime, RequestInTime
  <2>1. CASE Tick
    BY <2>1 DEF Tick
  <2>2. CASE UNCHANGED vars
    BY <2>2 DEF vars
  <2>3. ASSUME NEW c \in Callers, Call(c)
        PROVE CacheHonest' /\ LoginInTime' /\ RequestInTime'
    BY <2>3 DEF Call
  <2>4. ASSUME NEW c \in Callers, AskToken(c)
        PROVE CacheHonest' /\ LoginInTime' /\ RequestInTime'
    BY <2>4 DEF AskToken, SendRequest, Valid
  <2>5. ASSUME NEW c \in Callers, TakeLock(c)
        PROVE CacheHonest' /\ LoginInTime' /\ RequestInTime'
    BY <2>5 DEF TakeLock, SendRequest, Valid
  <2>6. ASSUME NEW c \in Callers, Issue(c)
        PROVE CacheHonest' /\ LoginInTime' /\ RequestInTime'
    BY <2>6 DEF Issue
  <2>7. ASSUME NEW c \in Callers, LogIn(c)
        PROVE CacheHonest' /\ LoginInTime' /\ RequestInTime'
    BY <2>7 DEF LogIn, SendRequest
  <2>8. ASSUME NEW c \in Callers, Answer(c)
        PROVE CacheHonest' /\ LoginInTime' /\ RequestInTime'
    BY <2>8 DEF Answer, Return
  <2>9. ASSUME NEW c \in Callers, LogInFails(c)
        PROVE CacheHonest' /\ LoginInTime' /\ RequestInTime'
    BY <2>9 DEF LogInFails, Return, Retry
  <2>10. ASSUME NEW c \in Callers, RequestFails(c)
         PROVE CacheHonest' /\ LoginInTime' /\ RequestInTime'
    BY <2>10 DEF RequestFails, Return, Retry
  <2>11. ASSUME NEW c \in Callers, Cancel(c)
         PROVE CacheHonest' /\ LoginInTime' /\ RequestInTime'
    BY <2>11 DEF Cancel, Return
  <2> QED
    BY <2>1, <2>2, <2>3, <2>4, <2>5, <2>6, <2>7, <2>8, <2>9, <2>10, <2>11
       DEF Next, Progress, Failure
<1> QED
  BY <1>1, <1>2, TypeCorrect, PTL DEF Spec

\* A request never arrives with a dead token, for every skew that covers the
\* longest login and the longest request together.
THEOREM TokensOutliveRequests == Spec => []TokensLive
<1>1. LifeInv => TokensLive
  BY ClientAssumption DEF LifeInv, RequestInTime, TokensLive, TypeOK
<1> QED
  BY <1>1, LifeAlways, PTL

-----------------------------------------------------------------------------
\* Nobody logs in while the cached token would do.  The invariant is inductive
\* with the types: whoever logs in holds the lock, so nobody else fills the
\* cache meanwhile, and time only takes validity away.
THEOREM LoginsAreNeeded == Spec => []NoNeedlessLogin
<1>1. Init => NoNeedlessLogin
  BY DEF Init, NoNeedlessLogin
<1>2. NoNeedlessLogin /\ TypeOK /\ TypeOK' /\ [Next]_vars => NoNeedlessLogin'
  <2> SUFFICES ASSUME NoNeedlessLogin, TypeOK, TypeOK', [Next]_vars
               PROVE NoNeedlessLogin'
    OBVIOUS
  <2> USE ClientAssumption DEF TypeOK, NoNeedlessLogin, Valid
  <2>1. CASE Tick
    BY <2>1 DEF Tick
  <2>2. CASE UNCHANGED vars
    BY <2>2 DEF vars
  <2>3. ASSUME NEW c \in Callers, Call(c) PROVE NoNeedlessLogin'
    BY <2>3 DEF Call
  <2>4. ASSUME NEW c \in Callers, AskToken(c) PROVE NoNeedlessLogin'
    BY <2>4 DEF AskToken, SendRequest
  <2>5. ASSUME NEW c \in Callers, TakeLock(c) PROVE NoNeedlessLogin'
    BY <2>5 DEF TakeLock, SendRequest
  <2>6. ASSUME NEW c \in Callers, Issue(c) PROVE NoNeedlessLogin'
    BY <2>6 DEF Issue
  <2>7. ASSUME NEW c \in Callers, LogIn(c) PROVE NoNeedlessLogin'
    BY <2>7 DEF LogIn, SendRequest, Release
  <2>8. ASSUME NEW c \in Callers, Answer(c) PROVE NoNeedlessLogin'
    BY <2>8 DEF Answer, Return
  <2>9. ASSUME NEW c \in Callers, LogInFails(c) PROVE NoNeedlessLogin'
    BY <2>9 DEF LogInFails, Release, Return, Retry
  <2>10. ASSUME NEW c \in Callers, RequestFails(c) PROVE NoNeedlessLogin'
    BY <2>10 DEF RequestFails, Return, Retry
  <2>11. ASSUME NEW c \in Callers, Cancel(c) PROVE NoNeedlessLogin'
    BY <2>11 DEF Cancel, Release, Return
  <2> QED
    BY <2>1, <2>2, <2>3, <2>4, <2>5, <2>6, <2>7, <2>8, <2>9, <2>10, <2>11
       DEF Next, Progress, Failure
<1>3. Spec => []TypeOK
  BY TypeCorrect
<1> QED
  BY <1>1, <1>2, <1>3, PTL DEF Spec

-----------------------------------------------------------------------------
\* The lock belongs to whoever is logging in and to nobody else: no answer, failure
\* or cancellation leaves it taken, so that those who wait find it free or held by
\* a login that is under way.  It is what CallsReturn rests on.
THEOREM LockFollowsLogin == Spec => [](\A c \in Callers : holder = c <=> pc[c] = "auth")
<1> DEFINE Owned == \A c \in Callers : holder = c <=> pc[c] = "auth"
<1>1. Init => Owned
  BY ClientAssumption DEF Init
<1>2. Owned /\ TypeOK /\ [Next]_vars => Owned'
  <2> SUFFICES ASSUME Owned, TypeOK, [Next]_vars PROVE Owned'
    OBVIOUS
  <2> USE ClientAssumption DEF TypeOK
  <2>1. CASE Tick \/ UNCHANGED vars
    BY <2>1 DEF Tick, vars
  <2>2. ASSUME NEW c \in Callers, Call(c) PROVE Owned'
    BY <2>2 DEF Call
  <2>3. ASSUME NEW c \in Callers, AskToken(c) PROVE Owned'
    BY <2>3 DEF AskToken, SendRequest
  <2>4. ASSUME NEW c \in Callers, TakeLock(c) PROVE Owned'
    BY <2>4 DEF TakeLock, SendRequest
  <2>5. ASSUME NEW c \in Callers, Issue(c) PROVE Owned'
    BY <2>5 DEF Issue
  <2>6. ASSUME NEW c \in Callers, LogIn(c) PROVE Owned'
    BY <2>6 DEF LogIn, SendRequest, Release
  <2>7. ASSUME NEW c \in Callers, Answer(c) PROVE Owned'
    BY <2>7 DEF Answer, Return
  <2>8. ASSUME NEW c \in Callers, LogInFails(c) PROVE Owned'
    BY <2>8 DEF LogInFails, Release, Return, Retry
  <2>9. ASSUME NEW c \in Callers, RequestFails(c) PROVE Owned'
    BY <2>9 DEF RequestFails, Return, Retry
  <2>10. ASSUME NEW c \in Callers, Cancel(c) PROVE Owned'
    BY <2>10 DEF Cancel, Release, Return
  <2> QED
    BY <2>1, <2>2, <2>3, <2>4, <2>5, <2>6, <2>7, <2>8, <2>9, <2>10
       DEF Next, Progress, Failure
<1> HIDE DEF Owned
<1>3. Spec => []Owned
  BY <1>1, <1>2, TypeCorrect, PTL DEF Spec
<1> QED
  BY <1>3 DEF Owned

-----------------------------------------------------------------------------
\* Every token was issued by now, and the cached one before the login under way
\* was sent: that login was sent under the lock, after the last had been cached.
CacheOlder ==
  /\ cached.dies <= now + TimeToLive
  /\ \A c \in Callers :
       /\ issued[c] # 0 => issued[c] <= now + TimeToLive
       /\ pc[c] = "auth" => holder = c /\ cached.dies <= since[c] + TimeToLive

\* The cache never goes back to an older token, whoever logs in, is cancelled or
\* fails in between.
THEOREM CacheGetsFresher == Spec => [][cached'.dies >= cached.dies]_cached
<1>1. Init => CacheOlder
  BY ClientAssumption DEF Init, CacheOlder, NoToken
<1>2. CacheOlder /\ LifeInv /\ TypeOK' /\ [Next]_vars => CacheOlder'
  <2> SUFFICES ASSUME CacheOlder, LifeInv, TypeOK', [Next]_vars PROVE CacheOlder'
    OBVIOUS
  <2> USE ClientAssumption DEF LifeInv, TypeOK, CacheOlder
  <2>1. CASE Tick
    BY <2>1 DEF Tick
  <2>2. CASE UNCHANGED vars
    BY <2>2 DEF vars
  <2>3. ASSUME NEW c \in Callers, Call(c) PROVE CacheOlder'
    BY <2>3 DEF Call
  <2>4. ASSUME NEW c \in Callers, AskToken(c) PROVE CacheOlder'
    BY <2>4 DEF AskToken, SendRequest
  <2>5. ASSUME NEW c \in Callers, TakeLock(c) PROVE CacheOlder'
    BY <2>5 DEF TakeLock, SendRequest
  <2>6. ASSUME NEW c \in Callers, Issue(c) PROVE CacheOlder'
    BY <2>6 DEF Issue
  <2>7. ASSUME NEW c \in Callers, LogIn(c) PROVE CacheOlder'
    BY <2>7 DEF LogIn, SendRequest, Release
  <2>8. ASSUME NEW c \in Callers, Answer(c) PROVE CacheOlder'
    BY <2>8 DEF Answer, Return
  <2>9. ASSUME NEW c \in Callers, LogInFails(c) PROVE CacheOlder'
    BY <2>9 DEF LogInFails, Release, Return, Retry
  <2>10. ASSUME NEW c \in Callers, RequestFails(c) PROVE CacheOlder'
    BY <2>10 DEF RequestFails, Return, Retry
  <2>11. ASSUME NEW c \in Callers, Cancel(c) PROVE CacheOlder'
    BY <2>11 DEF Cancel, Release, Return
  <2> QED
    BY <2>1, <2>2, <2>3, <2>4, <2>5, <2>6, <2>7, <2>8, <2>9, <2>10, <2>11
       DEF Next, Progress, Failure
<1>3. CacheOlder /\ LifeInv /\ [Next]_vars => [cached'.dies >= cached.dies]_cached
  <2> SUFFICES ASSUME CacheOlder, LifeInv, [Next]_vars, cached' # cached
               PROVE  cached'.dies >= cached.dies
    OBVIOUS
  <2>1. PICK c \in Callers : LogIn(c)
    BY DEF Next, Progress, Failure, Call, AskToken, TakeLock, Issue, Answer, LogInFails,
           RequestFails, Cancel, Tick, vars
  <2>2. /\ pc[c] = "auth" /\ issued[c] # 0 /\ cached'.dies = issued[c]
        /\ cached.dies <= since[c] + TimeToLive /\ since[c] + TimeToLive <= issued[c]
    BY <2>1 DEF LogIn, CacheOlder, LifeInv, LoginInTime
  <2>3. cached.dies \in Nat /\ since[c] \in Nat /\ issued[c] \in Nat /\ TimeToLive \in Nat
    BY ClientAssumption DEF LifeInv, TypeOK
  <2> QED BY <2>2, <2>3
<1> QED
  BY <1>1, <1>2, <1>3, LifeAlways, TypeCorrect, PTL DEF Spec

=============================================================================

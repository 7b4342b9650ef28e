----------------------------- MODULE EsetClient -----------------------------
(***************************************************************************)
(* EsetAuthClient and the requests of the detection and incident clients.  *)
(* Callers share one auth client, which the class is written for; today    *)
(* api/dependencies.py builds one for every use case, whose requests come  *)
(* one after the other.  A request takes the cached token if it is valid   *)
(* for Skew longer; otherwise it logs in under the lock, where it looks at *)
(* the cache again.  Temporary failures are retried, from the token on.    *)
(* The auth server starts the life of a token when it issues it, the       *)
(* client when it has the answer in hand, so the client believes a token   *)
(* lives longer than it does: the skew has to cover that and the time the  *)
(* request takes.  AuthLag and ApiLag bound the two hops.                  *)
(***************************************************************************)
EXTENDS Naturals, FiniteSets

CONSTANTS
  Callers,
  Nobody,
  TimeToLive,  \* expires_in of every token
  Skew,        \* skew_seconds of is_valid
  AuthLag,     \* the longest a login is under way
  ApiLag,      \* the longest an API request is under way
  Attempts,    \* attempts of a request
  MaxTime,     \* bound of the clock
  MaxFaults    \* bound of the number of failures

ASSUME ClientAssumption ==
  /\ Nobody \notin Callers
  /\ TimeToLive \in Nat
  /\ Skew \in Nat
  /\ AuthLag \in Nat
  /\ ApiLag \in Nat
  /\ Attempts \in Nat \ {0}
  /\ MaxTime \in Nat
  /\ MaxFaults \in Nat

\* What the skew of 60 seconds is for.
ASSUME LagAssumption ==
  /\ AuthLag + ApiLag <= Skew
  /\ AuthLag + ApiLag < TimeToLive

VARIABLES
  now,
  faults,     \* failures so far
  cached,     \* _token: known is FALSE for None; the client thinks it expires
              \* at expires, the server lets it die at dies
  holder,     \* who holds _lock
  pc,         \* "ask" for a token, "wait" for the lock, "auth" and "api"
              \* while a login or a request is under way
  since,      \* when that login or request was sent
  issued,     \* when the token of that login dies, 0 before it is issued
  carried,    \* when the token of that request dies
  failures    \* failed attempts of the request

vars == <<now, faults, cached, holder, pc, since, issued, carried, failures>>

NoToken == [known |-> FALSE, expires |-> 0, dies |-> 0]

TypeOK ==
  /\ now \in 0..MaxTime
  /\ faults \in 0..MaxFaults
  /\ cached \in [known : BOOLEAN, expires : Nat, dies : Nat]
  /\ holder \in Callers \cup {Nobody}
  /\ pc \in [Callers -> {"idle", "ask", "wait", "auth", "api"}]
  /\ since \in [Callers -> 0..MaxTime]
  /\ issued \in [Callers -> Nat]
  /\ carried \in [Callers -> Nat]
  /\ failures \in [Callers -> 0..Attempts - 1]

\* A client without a static access token.
Init ==
  /\ now = 0
  /\ faults = 0
  /\ cached = NoToken
  /\ holder = Nobody
  /\ pc = [c \in Callers |-> "idle"]
  /\ since = [c \in Callers |-> 0]
  /\ issued = [c \in Callers |-> 0]
  /\ carried = [c \in Callers |-> 0]
  /\ failures = [c \in Callers |-> 0]

-----------------------------------------------------------------------------
\* Bug: a token is used up to the second it expires.
BugValid == cached.known /\ now < cached.expires

Valid == cached.known /\ now + Skew < cached.expires

Set(local, c, value) == [local EXCEPT ![c] = value]
Fault == faults < MaxFaults /\ faults' = faults + 1
Release(c) == holder' = IF holder = c THEN Nobody ELSE holder

\* The request is over, with an answer or an exception.
Return(c) ==
  /\ pc' = Set(pc, c, "idle")
  /\ since' = Set(since, c, 0)
  /\ issued' = Set(issued, c, 0)
  /\ carried' = Set(carried, c, 0)
  /\ failures' = Set(failures, c, 0)

\* The request is sent with a token that dies at the given time.
SendRequest(c, dies) ==
  /\ pc' = Set(pc, c, "api")
  /\ since' = Set(since, c, now)
  /\ issued' = Set(issued, c, 0)
  /\ carried' = Set(carried, c, dies)
  /\ UNCHANGED failures

\* @retry: once more from the token on, or give up.
Retry(c) ==
  \/ /\ failures[c] + 1 < Attempts
     /\ pc' = Set(pc, c, "ask")
     /\ since' = Set(since, c, 0)
     /\ issued' = Set(issued, c, 0)
     /\ carried' = Set(carried, c, 0)
     /\ failures' = Set(failures, c, failures[c] + 1)
  \/ /\ failures[c] + 1 >= Attempts
     /\ Return(c)

-----------------------------------------------------------------------------
Call(c) ==
  /\ pc[c] = "idle"
  /\ pc' = Set(pc, c, "ask")
  /\ UNCHANGED <<now, faults, cached, holder, since, issued, carried, failures>>

\* get_access_token: the look at the cache before the lock.
AskToken(c) ==
  /\ pc[c] = "ask"
  /\ \/ /\ Valid
        /\ SendRequest(c, cached.dies)
     \/ /\ ~Valid
        /\ pc' = Set(pc, c, "wait")
        /\ UNCHANGED <<since, issued, carried, failures>>
  /\ UNCHANGED <<now, faults, cached, holder>>

\* Bug: the cache is not looked at again.
BugTakeLock(c) ==
  /\ pc[c] = "wait"
  /\ holder = Nobody
  /\ holder' = c
  /\ pc' = Set(pc, c, "auth")
  /\ since' = Set(since, c, now)
  /\ UNCHANGED <<now, faults, cached, issued, carried, failures>>

\* Under the lock: the second look, then the login.
TakeLock(c) ==
  /\ pc[c] = "wait"
  /\ holder = Nobody
  /\ \/ /\ Valid
        /\ SendRequest(c, cached.dies)
        /\ UNCHANGED holder
     \/ /\ ~Valid
        /\ holder' = c
        /\ pc' = Set(pc, c, "auth")
        /\ since' = Set(since, c, now)
        /\ UNCHANGED <<issued, carried, failures>>
  /\ UNCHANGED <<now, faults, cached>>

\* The auth server issues a token.
Issue(c) ==
  /\ pc[c] = "auth"
  /\ issued[c] = 0
  /\ issued' = Set(issued, c, now + TimeToLive)
  /\ UNCHANGED <<now, faults, cached, holder, pc, since, carried, failures>>

\* Its answer arrives: the token is cached and used, without a look at its
\* validity.
LogIn(c) ==
  /\ pc[c] = "auth"
  /\ issued[c] # 0
  /\ cached' = [known |-> TRUE, expires |-> now + TimeToLive, dies |-> issued[c]]
  /\ Release(c)
  /\ SendRequest(c, issued[c])
  /\ UNCHANGED <<now, faults>>

\* The API answers; a dead token is a 401, an exception that is not retried.
Answer(c) ==
  /\ pc[c] = "api"
  /\ Return(c)
  /\ UNCHANGED <<now, faults, cached, holder>>

-----------------------------------------------------------------------------
\* Bug: the lock is kept when the login fails.
BugLogInFails(c) ==
  /\ pc[c] = "auth"
  /\ Fault
  /\ Return(c) \/ Retry(c)
  /\ UNCHANGED <<now, cached, holder>>

\* The login is refused or breaks (raised), or times out (retried).
LogInFails(c) ==
  /\ pc[c] = "auth"
  /\ Fault
  /\ Release(c)
  /\ Return(c) \/ Retry(c)
  /\ UNCHANGED <<now, cached>>

\* 429, 5xx or a timeout is retried, anything else raised.
RequestFails(c) ==
  /\ pc[c] = "api"
  /\ Fault
  /\ Return(c) \/ Retry(c)
  /\ UNCHANGED <<now, cached, holder>>

\* The caller is cancelled, wherever it waits.
Cancel(c) ==
  /\ pc[c] # "idle"
  /\ Fault
  /\ Release(c)
  /\ Return(c)
  /\ UNCHANGED <<now, cached>>

\* Time passes, but no hop takes longer than its bound.
Tick ==
  /\ now < MaxTime
  /\ \A c \in Callers : /\ pc[c] = "auth" => now < since[c] + AuthLag
                        /\ pc[c] = "api" => now < since[c] + ApiLag
  /\ now' = now + 1
  /\ UNCHANGED <<faults, cached, holder, pc, since, issued, carried, failures>>

-----------------------------------------------------------------------------
Progress(c) ==
  AskToken(c) \/ TakeLock(c) \/ Issue(c) \/ LogIn(c) \/ Answer(c)

Failure(c) == LogInFails(c) \/ RequestFails(c) \/ Cancel(c)

Next ==
  \/ \E c \in Callers : Call(c) \/ Progress(c) \/ Failure(c)
  \/ Tick

Spec == Init /\ [][Next]_vars

\* Awaits return, and asyncio.Lock serves those who wait in turn: a caller
\* that can take the lock again and again takes it.
FairSpec ==
  Spec /\ \A c \in Callers : WF_vars(Progress(c)) /\ SF_vars(TakeLock(c))

-----------------------------------------------------------------------------
\* A request never arrives with a dead token, whether it was cached, seen
\* under the lock or fresh.
TokensLive == \A c \in Callers : pc[c] = "api" => now < carried[c]

\* Nobody logs in while the cached token would do: callers that queued up for
\* the lock use what the first of them obtained.
NoNeedlessLogin ==
  \A c \in Callers : pc[c] = "auth" => holder = c /\ (cached.known => ~Valid)

\* A failed or cancelled login keeps nobody else waiting: every call ends.
CallsReturn == \A c \in Callers : (pc[c] # "idle") ~> (pc[c] = "idle")

=============================================================================

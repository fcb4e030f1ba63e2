------------------------------ MODULE AuthCache ------------------------------
(***************************************************************************)
(* The token cache of a SetuClient (internal/setu/auth.go) and the         *)
(* requests that use it (makeVerificationRequest in internal/setu/kyc.go,  *)
(* through which every call to Setu goes).                                 *)
(*                                                                         *)
(* Handlers and pipeline goroutines share one cache.  GetToken holds its   *)
(* mutex while it logs in, so that those who come meanwhile wait and find  *)
(* the new token; it reads the clock after it has the mutex and before it  *)
(* logs in, and counts the life of the token from there.  Time is in whole *)
(* units; the code's clock and Setu's run at the same rate, and only       *)
(* durations are compared.                                                 *)
(***************************************************************************)
EXTENDS Integers

CONSTANTS
    Callers,       \* the calls of makeVerificationRequest
    Free,          \* nobody: the mutex is unlocked
    Lives,         \* how long the tokens Setu issues are valid
    DefaultLife,   \* auth.go:101, 121: expiresIn when the answer states none
    Grace,         \* auth.go:150: the safety buffer
    LoginTimeout,  \* client.go:24, for the login
    Reach,         \* how long after GetToken has looked at the clock or got its
                   \* token the request that carries it may reach Setu; the
                   \* timeout of client.go:24 covers the request and its answer
    MaxClock       \* bound: when time stops, unless a request is under way

\* Grace is as long as Reach (both come from 15 s), and Setu states the life of
\* a token that is valid for less than DefaultLife.
ASSUME CacheAssumption ==
    /\ Free \notin Callers
    /\ Lives \subseteq Nat \ {0}
    /\ DefaultLife \in Nat \ {0}
    /\ Grace \in Nat
    /\ LoginTimeout \in Nat
    /\ Reach \in Nat
    /\ Reach <= Grace
    /\ MaxClock \in Nat

VARIABLES
    clock,
    mutex,      \* AuthCache.mu
    token,      \* AuthCache.token: until when Setu accepts it, 0 for ""
    expiresAt,  \* AuthCache.expiresAt
    pc,         \* where a call is
    since,      \* when it looked at the clock in GetToken, or got its token
    answer,     \* the token a call holds or Setu has issued to it: until when
                \* and for how long it is valid, and the expiresIn that came with it
    cached,     \* history: it found its token in the cache
    outcome     \* how the request ended

cacheVars == <<token, expiresAt>>
vars      == <<clock, mutex, token, expiresAt, pc, since, answer, cached, outcome>>

InLogin  == {"login", "issued"}
InMutex  == {"locked"} \cup InLogin
NoAnswer == [until |-> 0, life |-> 0, expiresIn |-> 1]

-----------------------------------------------------------------------------
\* auth.go:138: the cached token may be used at time t.
Usable(t) == token # 0 /\ t < expiresAt

\* Mutant of ExpiresIn: an answer without expiresIn is taken as it is.
StatedLife(life, stated) == IF stated THEN life ELSE 0

\* auth.go:98-124: the life the code counts with.
ExpiresIn(life, stated) == IF stated THEN life ELSE DefaultLife

Init ==
    /\ clock     = 0
    /\ mutex     = Free
    /\ token     = 0
    /\ expiresAt = 0
    /\ pc        = [c \in Callers |-> "idle"]
    /\ since     = [c \in Callers |-> 0]
    /\ answer    = [c \in Callers |-> NoAnswer]
    /\ cached    = [c \in Callers |-> FALSE]
    /\ outcome   = [c \in Callers |-> "none"]

\* kyc.go:46.
GetToken(c) ==
    /\ pc[c] = "idle"
    /\ pc' = [pc EXCEPT ![c] = "wait"]
    /\ UNCHANGED <<clock, mutex, cacheVars, since, answer, cached, outcome>>

\* Mutant of Lock: the mutex does not exclude.
LockShared(c) ==
    /\ pc[c] = "wait"
    /\ mutex' = c
    /\ pc'    = [pc EXCEPT ![c] = "locked"]
    /\ UNCHANGED <<clock, cacheVars, since, answer, cached, outcome>>

\* auth.go:133.
Lock(c) ==
    /\ pc[c] = "wait"
    /\ mutex = Free
    /\ mutex' = c
    /\ pc'    = [pc EXCEPT ![c] = "locked"]
    /\ UNCHANGED <<clock, cacheVars, since, answer, cached, outcome>>

\* auth.go:136-140, kyc.go:51-57: the cached token goes out with a request.
UseCached(c) ==
    /\ pc[c] = "locked"
    /\ Usable(clock)
    /\ mutex'  = Free
    /\ pc'     = [pc EXCEPT ![c] = "request"]
    /\ since'  = [since EXCEPT ![c] = clock]
    /\ answer' = [answer EXCEPT ![c].until = token]
    /\ cached' = [cached EXCEPT ![c] = TRUE]
    /\ UNCHANGED <<clock, cacheVars, outcome>>

\* auth.go:136-143, 56-81.
StartLogin(c) ==
    /\ pc[c] = "locked"
    /\ ~Usable(clock)
    /\ pc'    = [pc EXCEPT ![c] = "login"]
    /\ since' = [since EXCEPT ![c] = clock]
    /\ UNCHANGED <<clock, mutex, cacheVars, answer, cached, outcome>>

\* Setu issues a token, and states its life or not.
IssueToken(c) ==
    /\ pc[c] = "login"
    /\ pc' = [pc EXCEPT ![c] = "issued"]
    /\ \E life \in Lives, stated \in BOOLEAN :
        /\ ~stated => life >= DefaultLife
        /\ answer' = [answer EXCEPT ![c] =
              [until |-> clock + life, life |-> life, expiresIn |-> ExpiresIn(life, stated)]]
    /\ UNCHANGED <<clock, mutex, cacheVars, since, cached, outcome>>

\* Mutant of StoreToken: the life is counted from when the answer came.
StoreTokenLate(c) ==
    /\ pc[c] = "issued"
    /\ mutex'     = Free
    /\ token'     = answer[c].until
    /\ expiresAt' = clock + answer[c].expiresIn - Grace
    /\ pc'        = [pc EXCEPT ![c] = "request"]
    /\ since'     = [since EXCEPT ![c] = clock]
    /\ UNCHANGED <<clock, answer, cached, outcome>>

\* auth.go:87-124, 148-153: the answer has come, the token is kept and goes out.
StoreToken(c) ==
    /\ pc[c] = "issued"
    /\ mutex'     = Free
    /\ token'     = answer[c].until
    /\ expiresAt' = since[c] + answer[c].expiresIn - Grace
    /\ pc'        = [pc EXCEPT ![c] = "request"]
    /\ since'     = [since EXCEPT ![c] = clock]
    /\ UNCHANGED <<clock, answer, cached, outcome>>

\* Mutant of LoginFails: the mutex is unlocked on the way of success only.
LoginFailsLocked(c) ==
    /\ pc[c] \in InLogin
    /\ pc'      = [pc EXCEPT ![c] = "done"]
    /\ outcome' = [outcome EXCEPT ![c] = "failed"]
    /\ UNCHANGED <<clock, mutex, cacheVars, since, answer, cached>>

\* auth.go:82-94, 127, 144-146: no answer in time, none at all, or one without a
\* token.  The cache stays as it was.
LoginFails(c) ==
    /\ pc[c] \in InLogin
    /\ mutex'   = Free
    /\ pc'      = [pc EXCEPT ![c] = "done"]
    /\ outcome' = [outcome EXCEPT ![c] = "failed"]
    /\ UNCHANGED <<clock, cacheVars, since, answer, cached>>

\* kyc.go:57-70: the request reaches Setu, which looks at the token.
Arrive(c) ==
    /\ pc[c] = "request"
    /\ pc'      = [pc EXCEPT ![c] = "done"]
    /\ outcome' = [outcome EXCEPT ![c] = IF clock < answer[c].until THEN "accepted" ELSE "rejected"]
    /\ UNCHANGED <<clock, mutex, cacheVars, since, answer, cached>>

\* kyc.go:58: it does not.
RequestFails(c) ==
    /\ pc[c] = "request"
    /\ pc'      = [pc EXCEPT ![c] = "done"]
    /\ outcome' = [outcome EXCEPT ![c] = "failed"]
    /\ UNCHANGED <<clock, mutex, cacheVars, since, answer, cached>>

\* client.go:24: the HTTP client gives up an exchange that takes too long.
TimeIsUp(c) ==
    \/ pc[c] \in InLogin   /\ clock >= since[c] + LoginTimeout
    \/ pc[c] = "request" /\ clock >= since[c] + Reach

\* Time passes, but not beyond what the HTTP client waits for.
Tick ==
    /\ \A c \in Callers : ~TimeIsUp(c)
    /\ clock < MaxClock \/ \E c \in Callers : pc[c] \in InLogin \cup {"request"}
    /\ clock' = clock + 1
    /\ UNCHANGED <<mutex, cacheVars, pc, since, answer, cached, outcome>>

Quiesced ==
    /\ clock >= MaxClock
    /\ \A c \in Callers : pc[c] = "done"
    /\ UNCHANGED vars

Next ==
    \/ \E c \in Callers : GetToken(c) \/ Lock(c) \/ UseCached(c) \/ StartLogin(c)
    \/ \E c \in Callers : IssueToken(c) \/ StoreToken(c) \/ LoginFails(c)
    \/ \E c \in Callers : Arrive(c) \/ RequestFails(c)
    \/ Tick
    \/ Quiesced

Spec == Init /\ [][Next]_vars

\* Time passes, goroutines run (sync.Mutex starves none of them), and the HTTP
\* client ends an exchange when its time is up.  Setu need not answer.
Fairness ==
    /\ WF_vars(Tick)
    /\ \A c \in Callers :
        /\ SF_vars(Lock(c))
        /\ WF_vars(UseCached(c) \/ StartLogin(c))
        /\ WF_vars(TimeIsUp(c) /\ (LoginFails(c) \/ RequestFails(c)))

FairSpec == Spec /\ Fairness

-----------------------------------------------------------------------------
\* Every variable has its type.
TypeOK ==
    /\ clock \in Nat
    /\ mutex \in Callers \cup {Free}
    /\ token \in Nat
    /\ expiresAt \in Int
    /\ pc \in [Callers -> {"idle", "wait", "request", "done"} \cup InMutex]
    /\ since \in [Callers -> Nat]
    /\ answer \in [Callers -> [until : Nat, life : Nat, expiresIn : Nat \ {0}]]
    /\ cached \in [Callers -> BOOLEAN]
    /\ outcome \in [Callers -> {"none", "failed", "accepted", "rejected"}]

\* auth.go:137, "to prevent boundary failures": Setu never rejects a token taken
\* from the cache, however late the request that carries it arrives, and a new
\* one only if it was issued for less than a login and a request may take.
RejectedOnlyIfShortLived ==
    \A c \in Callers : outcome[c] = "rejected" =>
        /\ ~cached[c]
        /\ answer[c].life <= LoginTimeout + Reach

\* While a call logs in, the cache holds no token it could have used: those who
\* waited for a login that succeeded do not log in again.
LoginIsNeeded == \A c \in Callers : pc[c] \in InLogin => ~Usable(clock)

\* Every call ends, though the mutex is held during logins that may not be
\* answered: a failed one lets the next call in.
CallsEnd == \A c \in Callers : pc[c] = "wait" ~> pc[c] = "done"
=============================================================================

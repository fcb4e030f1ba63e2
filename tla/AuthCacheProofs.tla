--------------------------- MODULE AuthCacheProofs ---------------------------
(***************************************************************************)
(* Proofs about AuthCache, for any number of calls and any lives, buffer   *)
(* and time-outs that satisfy CacheAssumption.                             *)
(*                                                                         *)
(* The argument is one of bookkeeping in time.  expiresAt is Grace short   *)
(* of the end of the cached token, because it was counted from before the  *)
(* login.  A call that holds a token knows how much of it is left since it *)
(* got it: more than Grace from the cache, its whole life less the time of *)
(* the login when it is new.  The request may take Reach, no more.         *)
(***************************************************************************)
EXTENDS AuthCache, TLAPS

\* The mutex is held by the call that is between Lock and unlock.
MutexOk == \A c \in Callers : mutex = c <=> pc[c] \in InMutex

\* The code stops using a token Grace before Setu does.
CacheOk == token # 0 => expiresAt + Grace <= token

\* A login started when the cache held nothing usable, and is not overdue.
LoginOk ==
    \A c \in Callers : pc[c] \in InLogin =>
        /\ since[c] <= clock
        /\ clock <= since[c] + LoginTimeout
        /\ ~Usable(since[c])

\* A token issued is good for its life, and for expiresIn, from the login on.
IssuedOk ==
    \A c \in Callers : pc[c] = "issued" =>
        /\ since[c] + answer[c].life <= answer[c].until
        /\ since[c] + answer[c].expiresIn <= answer[c].until

\* What is left of the token of a request, and how late the request may be.
RequestOk ==
    \A c \in Callers : pc[c] = "request" =>
        /\ clock <= since[c] + Reach
        /\ cached[c] => since[c] + Grace < answer[c].until
        /\ ~cached[c] => since[c] + answer[c].life <= answer[c].until + LoginTimeout

\* Only a request that was sent took a token from the cache, and only one that
\* has ended was rejected.
HistoryOk ==
    \A c \in Callers :
        /\ cached[c] => pc[c] \in {"request", "done"}
        /\ outcome[c] = "rejected" => pc[c] = "done"

IInv ==
    /\ TypeOK
    /\ MutexOk
    /\ CacheOk
    /\ LoginOk
    /\ IssuedOk
    /\ RequestOk
    /\ HistoryOk
    /\ RejectedOnlyIfShortLived

\* The initial state satisfies the invariant.
LEMMA InitIInv == Init => IInv
BY CacheAssumption
   DEF Init, IInv, TypeOK, MutexOk, CacheOk, LoginOk, IssuedOk, RequestOk, HistoryOk,
       RejectedOnlyIfShortLived, NoAnswer, InLogin, InMutex

\* Asking for a token and taking the mutex change no token.
LEMMA EnterIInv ==
    ASSUME IInv, NEW c \in Callers, GetToken(c) \/ Lock(c)
    PROVE  IInv'
BY CacheAssumption
   DEF GetToken, Lock, IInv, TypeOK, MutexOk, CacheOk, LoginOk, IssuedOk, RequestOk, HistoryOk,
       RejectedOnlyIfShortLived, Usable, InLogin, InMutex, cacheVars

\* A cached token has more than Grace left when it goes out.
LEMMA UseCachedIInv ==
    ASSUME IInv, NEW c \in Callers, UseCached(c)
    PROVE  IInv'
<1>1. clock < expiresAt /\ expiresAt + Grace <= token
  BY DEF IInv, CacheOk, UseCached, Usable
<1>2. clock + Grace < token
  BY <1>1, CacheAssumption DEF IInv, TypeOK
<1>3. TypeOK'
  BY DEF IInv, TypeOK, UseCached, cacheVars
<1>4. answer'[c].until = token /\ \A d \in Callers \ {c} : answer'[d] = answer[d]
  BY DEF IInv, TypeOK, UseCached
<1>5. MutexOk'
  BY CacheAssumption DEF IInv, TypeOK, MutexOk, UseCached, InMutex, InLogin
<1>6. CacheOk' /\ LoginOk' /\ IssuedOk'
  BY <1>4 DEF IInv, TypeOK, CacheOk, LoginOk, IssuedOk, UseCached, Usable, InLogin, cacheVars
<1>7. RequestOk'
  BY <1>2, <1>4, CacheAssumption DEF IInv, TypeOK, RequestOk, UseCached
<1>8. HistoryOk' /\ RejectedOnlyIfShortLived'
  BY <1>4 DEF IInv, TypeOK, HistoryOk, RejectedOnlyIfShortLived, UseCached
<1> QED
  BY <1>3, <1>5, <1>6, <1>7, <1>8 DEF IInv

\* A login starts from a cache without a usable token.
LEMMA StartLoginIInv ==
    ASSUME IInv, NEW c \in Callers, StartLogin(c)
    PROVE  IInv'
BY CacheAssumption
   DEF StartLogin, IInv, TypeOK, MutexOk, CacheOk, LoginOk, IssuedOk, RequestOk, HistoryOk,
       RejectedOnlyIfShortLived, Usable, InLogin, InMutex, cacheVars

\* The life the code counts with is not longer than the real one.
LEMMA IssueTokenIInv ==
    ASSUME IInv, NEW c \in Callers, IssueToken(c)
    PROVE  IInv'
<1>1. PICK life \in Lives, stated \in BOOLEAN :
        /\ ~stated => life >= DefaultLife
        /\ answer' = [answer EXCEPT ![c] =
              [until |-> clock + life, life |-> life, expiresIn |-> ExpiresIn(life, stated)]]
  BY DEF IssueToken
<1>2. life \in Nat \ {0} /\ ExpiresIn(life, stated) \in Nat \ {0} /\ ExpiresIn(life, stated) <= life
  BY <1>1, CacheAssumption DEF ExpiresIn
<1>3. TypeOK'
  BY <1>1, <1>2 DEF IInv, TypeOK, IssueToken, InMutex, InLogin, cacheVars
<1>4. /\ answer'[c].until = clock + life
      /\ answer'[c].life = life
      /\ answer'[c].expiresIn = ExpiresIn(life, stated)
      /\ \A d \in Callers \ {c} : answer'[d] = answer[d]
  BY <1>1 DEF IInv, TypeOK
<1>5. MutexOk' /\ CacheOk' /\ LoginOk'
  BY DEF IInv, TypeOK, MutexOk, CacheOk, LoginOk, IssueToken, Usable, InLogin, InMutex, cacheVars
<1>6. IssuedOk'
  <2>1. since[c] <= clock
    BY DEF IInv, LoginOk, IssueToken, InLogin
  <2> QED
    BY <2>1, <1>2, <1>4 DEF IInv, TypeOK, IssuedOk, IssueToken
<1>7. RequestOk' /\ HistoryOk' /\ RejectedOnlyIfShortLived'
  BY <1>4 DEF IInv, TypeOK, RequestOk, HistoryOk, RejectedOnlyIfShortLived, IssueToken
<1> QED
  BY <1>3, <1>5, <1>6, <1>7 DEF IInv

\* A token that is kept has Grace taken off its end; no other call logs in.
LEMMA StoreTokenIInv ==
    ASSUME IInv, NEW c \in Callers, StoreToken(c)
    PROVE  IInv'
<1>1. TypeOK'
  BY CacheAssumption DEF IInv, TypeOK, StoreToken
<1>2. MutexOk' /\ \A d \in Callers \ {c} : pc[d] \notin InMutex
  BY CacheAssumption DEF IInv, TypeOK, MutexOk, StoreToken, InMutex, InLogin
<1>3. /\ since[c] <= clock
      /\ clock <= since[c] + LoginTimeout
      /\ since[c] + answer[c].life <= answer[c].until
      /\ since[c] + answer[c].expiresIn <= answer[c].until
  BY DEF IInv, LoginOk, IssuedOk, StoreToken, InLogin
<1>4. CacheOk'
  BY <1>3, CacheAssumption DEF IInv, TypeOK, CacheOk, StoreToken
<1>5. LoginOk' /\ IssuedOk'
  BY <1>2 DEF IInv, TypeOK, LoginOk, IssuedOk, StoreToken, InLogin, InMutex
<1>6. RequestOk'
  <2>1. ~cached[c]
    BY DEF IInv, HistoryOk, StoreToken
  <2> QED
    BY <2>1, <1>3, CacheAssumption DEF IInv, TypeOK, RequestOk, StoreToken
<1>7. HistoryOk' /\ RejectedOnlyIfShortLived'
  BY DEF IInv, TypeOK, HistoryOk, RejectedOnlyIfShortLived, StoreToken
<1> QED
  BY <1>1, <1>2, <1>4, <1>5, <1>6, <1>7 DEF IInv

\* A call that fails changes no token and leaves the mutex.
LEMMA FailIInv ==
    ASSUME IInv, NEW c \in Callers, LoginFails(c) \/ RequestFails(c)
    PROVE  IInv'
<1>1. UNCHANGED <<clock, token, expiresAt, since, answer, cached>>
  BY DEF LoginFails, RequestFails, cacheVars
<1>2. /\ pc' = [pc EXCEPT ![c] = "done"]
      /\ outcome' = [outcome EXCEPT ![c] = "failed"]
  BY DEF LoginFails, RequestFails
<1>3. TypeOK' /\ MutexOk'
  BY CacheAssumption
     DEF LoginFails, RequestFails, IInv, TypeOK, MutexOk, InLogin, InMutex, cacheVars
<1>4. CacheOk' /\ LoginOk' /\ IssuedOk' /\ RequestOk'
  BY <1>1, <1>2 DEF IInv, TypeOK, CacheOk, LoginOk, IssuedOk, RequestOk, Usable, InLogin
<1>5. HistoryOk' /\ RejectedOnlyIfShortLived'
  <2>1. pc[c] # "done"
    BY DEF LoginFails, RequestFails, InLogin
  <2> QED
    BY <1>1, <1>2, <2>1 DEF IInv, TypeOK, HistoryOk, RejectedOnlyIfShortLived
<1> QED
  BY <1>3, <1>4, <1>5 DEF IInv

\* Setu rejects a request only for a new token that was too short-lived.
LEMMA ArriveIInv ==
    ASSUME IInv, NEW c \in Callers, Arrive(c)
    PROVE  IInv'
<1>1. /\ TypeOK' /\ MutexOk' /\ CacheOk' /\ LoginOk' /\ IssuedOk' /\ RequestOk' /\ HistoryOk'
  BY DEF Arrive, IInv, TypeOK, MutexOk, CacheOk, LoginOk, IssuedOk, RequestOk, HistoryOk,
         Usable, InLogin, InMutex, cacheVars
<1>2. ASSUME clock >= answer[c].until
      PROVE  ~cached[c] /\ answer[c].life <= LoginTimeout + Reach
  <2>1. /\ clock <= since[c] + Reach
        /\ cached[c] => since[c] + Grace < answer[c].until
        /\ ~cached[c] => since[c] + answer[c].life <= answer[c].until + LoginTimeout
    BY DEF IInv, RequestOk, Arrive
  <2>2. clock \in Nat /\ since[c] \in Nat /\ answer[c].until \in Nat /\ answer[c].life \in Nat
        /\ cached[c] \in BOOLEAN
    BY DEF IInv, TypeOK
  <2> QED
    BY <1>2, <2>1, <2>2, CacheAssumption
<1>3. RejectedOnlyIfShortLived'
  BY <1>2 DEF IInv, TypeOK, RejectedOnlyIfShortLived, Arrive
<1> QED
  BY <1>1, <1>3 DEF IInv

\* Time passes only while nothing is overdue.
LEMMA TickIInv ==
    ASSUME IInv, Tick
    PROVE  IInv'
<1>1. TypeOK' /\ MutexOk' /\ CacheOk' /\ IssuedOk' /\ HistoryOk' /\ RejectedOnlyIfShortLived'
  BY DEF Tick, IInv, TypeOK, MutexOk, CacheOk, IssuedOk, HistoryOk, RejectedOnlyIfShortLived, cacheVars
<1>2. LoginOk' /\ RequestOk'
  BY CacheAssumption
     DEF Tick, TimeIsUp, IInv, TypeOK, LoginOk, RequestOk, Usable, InLogin, cacheVars
<1> QED
  BY <1>1, <1>2 DEF IInv

\* Every step preserves the invariant.
LEMMA NextIInv == IInv /\ [Next]_vars => IInv'
<1> SUFFICES ASSUME IInv, [Next]_vars
             PROVE  IInv'
  OBVIOUS
<1>1. ASSUME NEW c \in Callers, GetToken(c) \/ Lock(c) \/ UseCached(c) \/ StartLogin(c)
      PROVE  IInv'
  BY <1>1, EnterIInv, UseCachedIInv, StartLoginIInv
<1>2. ASSUME NEW c \in Callers, IssueToken(c) \/ StoreToken(c) \/ LoginFails(c)
      PROVE  IInv'
  BY <1>2, IssueTokenIInv, StoreTokenIInv, FailIInv
<1>3. ASSUME NEW c \in Callers, Arrive(c) \/ RequestFails(c)
      PROVE  IInv'
  BY <1>3, ArriveIInv, FailIInv
<1>4. CASE Tick
  BY <1>4, TickIInv
<1>5. CASE UNCHANGED vars
  BY <1>5
     DEF vars, IInv, TypeOK, MutexOk, CacheOk, LoginOk, IssuedOk, RequestOk, HistoryOk,
         RejectedOnlyIfShortLived, Usable
<1> QED
  BY <1>1, <1>2, <1>3, <1>4, <1>5 DEF Next, Quiesced

\* The invariant holds of the token cache.
LEMMA Invariance == Spec => []IInv
BY InitIInv, NextIInv, PTL DEF Spec

\* Every reachable state of the token cache is well typed.
THEOREM TypeCorrect == Spec => []TypeOK
<1>1. IInv => TypeOK
  BY DEF IInv
<1> QED
  BY <1>1, Invariance, PTL

\* A token from the cache is never too old when its request arrives.
THEOREM CachedTokenIsAccepted == Spec => []RejectedOnlyIfShortLived
<1>1. IInv => RejectedOnlyIfShortLived
  BY DEF IInv
<1> QED
  BY <1>1, Invariance, PTL

\* No call logs in while the cache holds a token it could use.
THEOREM NoNeedlessLogin == Spec => []LoginIsNeeded
<1>1. IInv => LoginIsNeeded
  BY DEF IInv, TypeOK, LoginOk, LoginIsNeeded, Usable
<1> QED
  BY <1>1, Invariance, PTL
=============================================================================

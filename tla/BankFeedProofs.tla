--------------------------- MODULE BankFeedProofs ---------------------------
(***************************************************************************)
(* Proofs about BankFeed, for any consents, sessions, transactions and     *)
(* faults, and any number of deliveries of a webhook.                      *)
(*                                                                         *)
(* Everything rests on Setu's telling of nothing that is not so: a webhook *)
(* that is still to come, or has started a goroutine, is about a state the *)
(* session has reached and will not leave (MessagesOk, JobsOk).            *)
(***************************************************************************)
EXTENDS BankFeed, FiniteSetTheorems, TLAPS

\* TypeOK without the bounds on the counters.
Types ==
    /\ consent \in [Consents -> {None, "PENDING", "ACTIVE", "REJECTED", "REVOKED"}]
    /\ consentRow \in [Consents -> {"absent", "PENDING", "ACTIVE"}]
    /\ initiation \in [Consents -> {"idle", "made", "done"}]
    /\ newest \in [Consents -> Nat]
    /\ session \in [Sessions -> {None, "PENDING", "PARTIAL", "COMPLETED", "FAILED"}]
    /\ sessionRow \in [Sessions -> {"absent", "PENDING", "INITIATED", "COMPLETED"}]
    /\ opening \in [Sessions -> {"idle", "chosen", "created", "done"}]
    /\ chosen \in [Sessions -> Consents \cup {None}]
    /\ webhooks \in [Msg -> 0..MaxDeliveries]
    /\ job \in [Job -> {"idle", "fetch", "store", "done"}]
    /\ left \in [Job -> SUBSET Txns]
    /\ stored \in [Txns -> Nat]
    /\ seen \in [Sessions -> SUBSET Txns]

\* A rank is given once, when the row is written.
RanksOk ==
    \A c \in Consents :
        /\ newest[c] <= Cardinality(Consents)
        /\ newest[c] > 0 => initiation[c] = "done"

Approval(c) == <<"CONSENT_STATUS_UPDATE", c, "ACTIVE">>

\* A consent is approved once it has been asked for, and its approval stands.
ConsentsOk ==
    \A c \in Consents :
        /\ initiation[c] = "idle" => consent[c] = None
        /\ webhooks[Approval(c)] > 0 \/ consentRow[c] = "ACTIVE" =>
              consent[c] \in {"ACTIVE", "REVOKED"}

\* What a webhook says of a session has become so.
Backed(m) ==
    \/ m[3] = "PARTIAL"   /\ session[m[2]] \in {"PARTIAL", "COMPLETED"}
    \/ m[3] = "COMPLETED" /\ session[m[2]] = "COMPLETED"
    \/ m[3] = "FAILED"    /\ session[m[2]] = "FAILED"

MessagesOk == \A m \in SessionMsg : webhooks[m] > 0 => Backed(m)

\* A goroutine stands for a delivery that has been made, of such a webhook.
JobsOk ==
    \A j \in Job : job[j] # "idle" =>
        /\ Backed(j[1])
        /\ j[1][3] # "FAILED"
        /\ webhooks[j[1]] < j[2]

\* A session is opened after its consent was chosen; its row is COMPLETED after a
\* webhook said so.
SessionsOk ==
    \A s \in Sessions :
        /\ opening[s] \in {"idle", "chosen"} => session[s] = None
        /\ opening[s] = "chosen" => chosen[s] \in Consents
        /\ sessionRow[s] = "COMPLETED" => session[s] \in {"PARTIAL", "COMPLETED"}

\* A goroutine carries what its session has, and nothing before it has asked.
CarriedOk ==
    \A j \in Job :
        /\ left[j] \subseteq Offered(SessionOf(j))
        /\ job[j] \in {"idle", "fetch"} => left[j] = {}

StoredOk == \A t \in Txns : stored[t] > 0 => \E s \in Sessions : t \in Offered(s)

\* The goroutines that will not store t any more, though its session has it.
Spent(t) ==
    {j \in Job : job[j] \in {"store", "done"} /\ t \in Contents[SessionOf(j)] /\ t \notin left[j]}

CountOk == \A t \in Txns : stored[t] <= Cardinality(Spent(t))

IInv ==
    /\ Types
    /\ RanksOk
    /\ ConsentsOk
    /\ MessagesOk
    /\ JobsOk
    /\ SessionsOk
    /\ CarriedOk
    /\ StoredOk
    /\ CountOk

-----------------------------------------------------------------------------
LEMMA MaxIsPositive == MaxDeliveries \in Nat /\ MaxDeliveries > 0
<1>1. MaxDeliveries \in Nat \ {0}
  BY FeedAssumption, Zenon
<1> QED
  BY <1>1

\* There are finitely many goroutines.
LEMMA JobsAreFinite == IsFiniteSet(Job)
<1>1. IsFiniteSet({"FI_STATUS_UPDATE"}) /\ IsFiniteSet({"PARTIAL", "COMPLETED", "FAILED"})
  <2>1. IsFiniteSet({} \cup {"FI_STATUS_UPDATE"})
    BY FS_EmptySet, FS_AddElement
  <2>2. IsFiniteSet((({} \cup {"PARTIAL"}) \cup {"COMPLETED"}) \cup {"FAILED"})
    BY FS_EmptySet, FS_AddElement
  <2>3. /\ {} \cup {"FI_STATUS_UPDATE"} = {"FI_STATUS_UPDATE"}
        /\ (({} \cup {"PARTIAL"}) \cup {"COMPLETED"}) \cup {"FAILED"}
              = {"PARTIAL", "COMPLETED", "FAILED"}
    OBVIOUS
  <2> QED
    BY <2>1, <2>2, <2>3
<1> DEFINE P == Sessions \X {"PARTIAL", "COMPLETED", "FAILED"}
           f == [p \in P |-> <<"FI_STATUS_UPDATE", p[1], p[2]>>]
<1>2. IsFiniteSet(P)
  BY <1>1, FS_Product, FeedAssumption
<1>3. f \in Surjection(P, SessionMsg)
  <2>1. f \in [P -> SessionMsg]
    BY DEF SessionMsg
  <2>2. ASSUME NEW m \in SessionMsg PROVE \E p \in P : f[p] = m
    <3>1. PICK s \in Sessions, x \in {"PARTIAL", "COMPLETED", "FAILED"} :
             m = <<"FI_STATUS_UPDATE", s, x>>
      BY DEF SessionMsg
    <3>2. <<s, x>> \in P /\ f[<<s, x>>] = m
      BY <3>1
    <3> QED
      BY <3>2
  <2> HIDE DEF P, f
  <2> QED
    BY <2>1, <2>2 DEF Surjection
<1>4. IsFiniteSet(SessionMsg)
  <2> HIDE DEF P, f
  <2> QED
    BY <1>2, <1>3, FS_Surjection
<1>5. IsFiniteSet(1..MaxDeliveries)
  <2>1. 1 \in Int /\ MaxDeliveries \in Int
    BY MaxIsPositive
  <2> QED
    BY <2>1, FS_Interval, Zenon
<1> QED
  BY <1>4, <1>5, FS_Product DEF Job

\* What a session has is what it will have, or part of it.
LEMMA OfferedIsPart ==
    ASSUME NEW s \in Sessions
    PROVE  Offered(s) \subseteq Contents[s] /\ Offered(s) \subseteq Txns
BY FeedAssumption DEF Offered

\* Parts of the set of goroutines can be counted and compared.
LEMMA SpentCounts ==
    ASSUME NEW t
    PROVE  Cardinality(Spent(t)) \in Nat /\ IsFiniteSet(Spent(t))
<1>1. Spent(t) \in SUBSET Job
  BY DEF Spent
<1> QED
  BY <1>1, JobsAreFinite, FS_Subset, FS_CardinalityType

\* A step that stores nothing, and after which no goroutine that is done with a
\* transaction has it again, keeps the count.
LEMMA CountKept ==
    ASSUME CountOk, Types, UNCHANGED stored,
           \A t \in Txns : Spent(t) \subseteq Spent(t)'
    PROVE  CountOk'
<1> SUFFICES ASSUME NEW t \in Txns PROVE stored[t] <= Cardinality(Spent(t)')
  BY DEF CountOk
<1>1. Spent(t)' \in SUBSET Job
  BY DEF Spent
<1>2. IsFiniteSet(Spent(t)') /\ Cardinality(Spent(t)') \in Nat
  BY <1>1, JobsAreFinite, FS_Subset, FS_CardinalityType
<1>3. Cardinality(Spent(t)) <= Cardinality(Spent(t)')
  BY <1>2, FS_Subset
<1> QED
  BY <1>2, <1>3, SpentCounts DEF CountOk, Types

\* What a session has it keeps.
LEMMA OfferedKept ==
    ASSUME NEW s \in Sessions,
           \/ session'[s] = session[s]
           \/ session[s] \notin {"PARTIAL", "COMPLETED"}
           \/ session[s] = "PARTIAL" /\ session'[s] = "COMPLETED"
    PROVE  Offered(s) \subseteq Offered(s)'
BY FeedAssumption DEF Offered

LEMMA InitIInv == Init => IInv
<1> SUFFICES ASSUME Init PROVE IInv
  OBVIOUS
<1>1. Cardinality(Consents) \in Nat
  BY FS_CardinalityType, FeedAssumption
<1>2. Types
  BY MaxIsPositive DEF Init, Types, None
<1>3. RanksOk
  BY <1>1 DEF Init, RanksOk
<1>4. ConsentsOk /\ MessagesOk
  BY DEF Init, ConsentsOk, MessagesOk, Msg, ConsentMsg, Approval
<1>5. JobsOk /\ SessionsOk /\ CarriedOk /\ StoredOk
  BY DEF Init, JobsOk, SessionsOk, CarriedOk, StoredOk
<1>6. CountOk
  BY SpentCounts DEF Init, CountOk
<1> QED
  BY <1>2, <1>3, <1>4, <1>5, <1>6 DEF IInv

-----------------------------------------------------------------------------
\* A step of the consents' alone: sessions and goroutines are as they were.
LEMMA ConsentStep ==
    ASSUME IInv, UNCHANGED <<sessionVars, jobVars>>,
           \A m \in SessionMsg : webhooks'[m] = webhooks[m],
           Types', RanksOk', ConsentsOk'
    PROVE  IInv'
<1>1. MessagesOk'
  BY DEF IInv, MessagesOk, Backed, sessionVars
<1>2. JobsOk'
  BY DEF IInv, JobsOk, Backed, sessionVars, jobVars, Job
<1>3. SessionsOk'
  BY DEF IInv, SessionsOk, sessionVars
<1>4. CarriedOk' /\ StoredOk'
  BY DEF IInv, CarriedOk, StoredOk, Offered, sessionVars, jobVars
<1>5. CountOk'
  BY CountKept DEF IInv, Spent, jobVars
<1> QED
  BY <1>1, <1>2, <1>3, <1>4, <1>5 DEF IInv

LEMMA InitiateIInv ==
    ASSUME IInv, NEW c \in Consents, InitiateConsent(c)
    PROVE  IInv'
<1>1. Types'
  BY DEF IInv, Types, InitiateConsent, sessionVars, jobVars
<1>2. RanksOk'
  BY DEF IInv, Types, RanksOk, InitiateConsent
<1>3. ConsentsOk'
  <2>1. /\ \A d \in Consents \ {c} : consent'[d] = consent[d] /\ initiation'[d] = initiation[d]
        /\ initiation'[c] \in {"made", "done"}
    <3>1. consent \in [Consents -> {None, "PENDING", "ACTIVE", "REJECTED", "REVOKED"}]
      BY DEF IInv, Types
    <3>2. initiation \in [Consents -> {"idle", "made", "done"}]
      BY DEF IInv, Types
    <3> QED
      BY <3>1, <3>2 DEF InitiateConsent
  <2>2. initiation[c] = "idle" /\ webhooks' = webhooks /\ consentRow' = consentRow
    BY DEF InitiateConsent
  <2>3. ~(webhooks[Approval(c)] > 0) /\ consentRow[c] # "ACTIVE"
    BY <2>2 DEF IInv, ConsentsOk, None
  <2> QED
    BY <2>1, <2>2, <2>3 DEF IInv, ConsentsOk
<1> QED
  BY <1>1, <1>2, <1>3, ConsentStep DEF InitiateConsent

\* There are fewer ranks than consents before one is given.
LEMMA SaveIInv ==
    ASSUME IInv, NEW c \in Consents, SaveConsent(c)
    PROVE  IInv'
<1> DEFINE Ranked == {d \in Consents : newest[d] > 0}
<1>1. Cardinality(Ranked) \in Nat /\ 1 + Cardinality(Ranked) <= Cardinality(Consents)
  <2>1. c \notin Ranked
    BY DEF IInv, Types, RanksOk, SaveConsent
  <2>2. Ranked \cup {c} \in SUBSET Consents /\ Ranked \in SUBSET Consents
    OBVIOUS
  <2>3. IsFiniteSet(Ranked) /\ Cardinality(Ranked) \in Nat
    BY <2>2, FS_Subset, FS_CardinalityType, FeedAssumption
  <2>4. Cardinality(Ranked \cup {c}) = Cardinality(Ranked) + 1
    BY <2>1, <2>3, FS_AddElement
  <2>5. Cardinality(Ranked \cup {c}) <= Cardinality(Consents)
    BY <2>2, FS_Subset, FeedAssumption
  <2> HIDE DEF Ranked
  <2> QED
    BY <2>3, <2>4, <2>5
<1>2. /\ newest' = [newest EXCEPT ![c] = 1 + Cardinality(Ranked)] \/ newest' = newest
      /\ initiation' = [initiation EXCEPT ![c] = "done"]
  BY DEF SaveConsent
<1> HIDE DEF Ranked
<1>3. Types'
  <2>1. newest' \in [Consents -> Nat]
    BY <1>1, <1>2 DEF IInv, Types
  <2>2. /\ initiation' \in [Consents -> {"idle", "made", "done"}]
        /\ consentRow' \in [Consents -> {"absent", "PENDING", "ACTIVE"}]
    BY DEF IInv, Types, SaveConsent
  <2> QED
    BY <2>1, <2>2 DEF IInv, Types, SaveConsent, sessionVars, jobVars
<1>4. RanksOk'
  <2> SUFFICES ASSUME NEW d \in Consents
               PROVE  /\ newest'[d] <= Cardinality(Consents)
                      /\ newest'[d] > 0 => initiation'[d] = "done"
    BY DEF RanksOk
  <2>1. \/ newest'[d] = newest[d]
        \/ d = c /\ newest'[d] = 1 + Cardinality(Ranked)
    BY <1>2 DEF IInv, Types
  <2>2. initiation'[d] = initiation[d] \/ initiation'[d] = "done"
    BY <1>2 DEF IInv, Types
  <2>3. d = c => initiation'[d] = "done"
    BY <1>2 DEF IInv, Types
  <2> QED
    BY <1>1, <2>1, <2>2, <2>3 DEF IInv, RanksOk
<1>5. ConsentsOk'
  <2>1. /\ UNCHANGED <<consent, webhooks>>
        /\ \A d \in Consents : initiation'[d] = "idle" => initiation[d] = "idle"
        /\ \A d \in Consents : consentRow'[d] = "ACTIVE" => consentRow[d] = "ACTIVE"
    BY DEF IInv, Types, SaveConsent
  <2> QED
    BY <2>1 DEF IInv, ConsentsOk
<1> QED
  BY <1>3, <1>4, <1>5, ConsentStep DEF SaveConsent

\* The merchant decides; Setu tells of it when it is so.
LEMMA DecideIInv ==
    ASSUME IInv, NEW c \in Consents, NEW from, NEW to, Decide(c, from, to),
           \/ from = "PENDING" /\ to \in {"ACTIVE", "REJECTED"}
           \/ from = "ACTIVE" /\ to = "REVOKED"
    PROVE  IInv'
<1> DEFINE m == <<"CONSENT_STATUS_UPDATE", c, to>>
<1>1. PICK n \in 1..MaxDeliveries : webhooks' = [webhooks EXCEPT ![m] = n]
  BY DEF Decide, Announce
<1>2. m \in ConsentMsg /\ m \in Msg /\ m \notin SessionMsg
  BY DEF ConsentMsg, SessionMsg, Msg
<1>3. webhooks' \in [Msg -> 0..MaxDeliveries]
  BY <1>1, <1>2, MaxIsPositive DEF IInv, Types
<1>4. \A x \in SessionMsg : webhooks'[x] = webhooks[x]
  BY <1>1, <1>2 DEF IInv, Types, Msg
<1>5. \A d \in Consents : d # c =>
          webhooks'[Approval(d)]
        = webhooks[Approval(d)]
  BY <1>1 DEF IInv, Types, Msg, ConsentMsg, Approval
<1>6. to # "ACTIVE" =>
          webhooks'[Approval(c)]
        = webhooks[Approval(c)]
  BY <1>1 DEF IInv, Types, Msg, ConsentMsg, Approval
<1> HIDE DEF m
<1>7. Types'
  BY <1>3 DEF IInv, Types, Decide, sessionVars, jobVars
<1>8. RanksOk'
  BY DEF IInv, RanksOk, Decide
<1>9. ConsentsOk'
  BY <1>5, <1>6 DEF IInv, Types, ConsentsOk, Decide, None
<1> QED
  BY <1>4, <1>7, <1>8, <1>9, ConsentStep DEF Decide

LEMMA ConsentUpdateIInv ==
    ASSUME IInv, NEW m \in Msg, HandleConsentUpdate(m)
    PROVE  IInv'
<1>1. m \in ConsentMsg /\ m \notin SessionMsg
  BY DEF HandleConsentUpdate, ConsentMsg, SessionMsg
<1>2. webhooks[m] \in 1..MaxDeliveries /\ webhooks' = [webhooks EXCEPT ![m] = @ - 1]
  <2>1. webhooks[m] \in 0..MaxDeliveries
    BY DEF IInv, Types
  <2>2. webhooks[m] > 0 /\ webhooks' = [webhooks EXCEPT ![m] = @ - 1]
    BY DEF HandleConsentUpdate
  <2>3. webhooks[m] \in 1..MaxDeliveries
    BY <2>1, <2>2, MaxIsPositive
  <2> QED
    BY <2>2, <2>3
<1>3. webhooks' \in [Msg -> 0..MaxDeliveries]
  BY <1>2, MaxIsPositive DEF IInv, Types
<1>4. \A x \in SessionMsg : webhooks'[x] = webhooks[x]
  BY <1>1, <1>2 DEF IInv, Types, Msg
<1>5. \A x \in ConsentMsg : webhooks'[x] > 0 => webhooks[x] > 0
  BY <1>2 DEF IInv, Types, Msg
<1>6. PICK c \in Consents, x \in {"ACTIVE", "REJECTED", "REVOKED"} :
         m = <<"CONSENT_STATUS_UPDATE", c, x>>
  BY <1>1 DEF ConsentMsg
<1>7. consentRow' = [d \in Consents |->
                        IF d = c /\ x = "ACTIVE" /\ consentRow[d] # "absent"
                        THEN "ACTIVE" ELSE consentRow[d]]
      \/ consentRow' = consentRow
  BY <1>6 DEF HandleConsentUpdate
<1>8. Types'
  BY <1>3, <1>7 DEF IInv, Types, HandleConsentUpdate, sessionVars, jobVars
<1>9. RanksOk'
  BY DEF IInv, RanksOk, HandleConsentUpdate
<1>10. ConsentsOk'
  <2>1. \A d \in Consents : Approval(d) \in ConsentMsg
    BY DEF ConsentMsg, Approval
  <2>2. x = "ACTIVE" => consent[c] \in {"ACTIVE", "REVOKED"}
    BY <1>2, <1>6 DEF IInv, ConsentsOk, Approval
  <2> QED
    <3>1. UNCHANGED <<consent, initiation>>
      BY DEF HandleConsentUpdate
    <3>2. \A d \in Consents : consentRow'[d] = "ACTIVE" =>
             consentRow[d] = "ACTIVE" \/ (d = c /\ x = "ACTIVE")
      BY <1>7 DEF IInv, Types
    <3> QED
      BY <1>5, <2>1, <2>2, <3>1, <3>2 DEF IInv, ConsentsOk
<1> QED
  BY <1>4, <1>8, <1>9, <1>10, ConsentStep DEF HandleConsentUpdate

-----------------------------------------------------------------------------
\* A step that leaves the consents alone, and the webhooks about them.
LEMMA ConsentsKept ==
    ASSUME RanksOk, ConsentsOk, UNCHANGED consentVars,
           \A x \in ConsentMsg : webhooks'[x] = webhooks[x]
    PROVE  RanksOk' /\ ConsentsOk'
<1>1. \A c \in Consents : Approval(c) \in ConsentMsg
  BY DEF Approval, ConsentMsg
<1> QED
  BY <1>1 DEF RanksOk, ConsentsOk, consentVars

\* A step that leaves alone what Setu has and tells of the sessions: the opening
\* of one.
LEMMA OpeningStep ==
    ASSUME IInv, UNCHANGED <<consentVars, webhooks, jobVars>>,
           \A s \in Sessions : session'[s] = session[s] \/ session[s] = None,
           Types', SessionsOk'
    PROVE  IInv'
<1>1. RanksOk' /\ ConsentsOk'
  BY ConsentsKept DEF IInv
<1>2. \A m \in SessionMsg : Backed(m) => Backed(m)'
  BY DEF SessionMsg, Backed, None
<1>3. MessagesOk' /\ JobsOk'
  BY <1>2 DEF IInv, MessagesOk, JobsOk, jobVars, Job
<1>4. \A s \in Sessions : Offered(s) \subseteq Offered(s)'
  BY OfferedKept DEF None
<1>5. \A j \in Job : SessionOf(j) \in Sessions
  BY DEF Job, SessionMsg, SessionOf
<1>6. CarriedOk' /\ StoredOk'
  BY <1>4, <1>5 DEF IInv, CarriedOk, StoredOk, jobVars
<1>7. CountOk'
  BY CountKept DEF IInv, Spent, jobVars
<1> QED
  BY <1>1, <1>3, <1>6, <1>7 DEF IInv

LEMMA ChooseIInv ==
    ASSUME IInv, NEW s \in Sessions, ChooseConsent(s)
    PROVE  IInv'
<1>1. PICK c \in Consents : chosen' = [chosen EXCEPT ![s] = c]
  BY DEF ChooseConsent, Eligible, ActiveRows
<1>2. Types'
  BY <1>1 DEF IInv, Types, ChooseConsent, consentVars, jobVars
<1>3. SessionsOk'
  <2>1. /\ UNCHANGED <<session, sessionRow>>
        /\ opening[s] = "idle"
        /\ \A r \in Sessions \ {s} : opening'[r] = opening[r] /\ chosen'[r] = chosen[r]
        /\ chosen'[s] = c
    BY <1>1 DEF IInv, Types, ChooseConsent
  <2> QED
    BY <2>1 DEF IInv, SessionsOk
<1> QED
  BY <1>2, <1>3, OpeningStep DEF ChooseConsent

LEMMA CreateIInv ==
    ASSUME IInv, NEW s \in Sessions, CreateDataSession(s)
    PROVE  IInv'
<1>0. /\ opening[s] = "chosen"
      /\ session' = session \/ session' = [session EXCEPT ![s] = "PENDING"]
      /\ \E x \in {"created", "done"} : opening' = [opening EXCEPT ![s] = x]
      /\ UNCHANGED <<consentVars, sessionRow, chosen, webhooks, jobVars>>
  BY DEF CreateDataSession
<1>1. Types'
  BY <1>0 DEF IInv, Types, consentVars, jobVars
<1>2. /\ UNCHANGED <<sessionRow, chosen>>
      /\ \A r \in Sessions \ {s} : opening'[r] = opening[r] /\ session'[r] = session[r]
      /\ opening'[s] \in {"created", "done"}
      /\ opening[s] = "chosen"
  BY <1>0 DEF IInv, Types
<1>3. session[s] = None
  BY <1>2 DEF IInv, SessionsOk
<1>4. SessionsOk'
  BY <1>2, <1>3 DEF IInv, SessionsOk, None
<1> QED
  BY <1>1, <1>2, <1>3, <1>4, OpeningStep DEF CreateDataSession

LEMMA RecordIInv ==
    ASSUME IInv, NEW s \in Sessions, RecordSession(s)
    PROVE  IInv'
<1>0. /\ opening' = [opening EXCEPT ![s] = "done"]
      /\ \/ sessionRow' = sessionRow
         \/ \E x \in {"PENDING", "INITIATED"} : sessionRow' = [sessionRow EXCEPT ![s] = x]
      /\ UNCHANGED <<consentVars, session, chosen, webhooks, jobVars>>
  BY DEF RecordSession
<1>1. Types'
  BY <1>0 DEF IInv, Types, consentVars, jobVars
<1>2. /\ UNCHANGED <<session, chosen>>
      /\ \A r \in Sessions \ {s} : opening'[r] = opening[r]
      /\ opening'[s] = "done"
      /\ \A r \in Sessions : sessionRow'[r] = "COMPLETED" => sessionRow[r] = "COMPLETED"
  BY <1>0 DEF IInv, Types
<1>3. SessionsOk'
  BY <1>2 DEF IInv, SessionsOk
<1> QED
  BY <1>1, <1>2, <1>3, OpeningStep DEF RecordSession

\* Setu has more of a session than before, and tells of it for the first time.
LEMMA CollectIInv ==
    ASSUME IInv, NEW s \in Sessions, NEW to \in {"PARTIAL", "COMPLETED", "FAILED"}, Collect(s, to)
    PROVE  IInv'
<1> DEFINE m == <<"FI_STATUS_UPDATE", s, to>>
<1>1. PICK n \in 1..MaxDeliveries : webhooks' = [webhooks EXCEPT ![m] = n]
  BY DEF Collect, Announce
<1>2. m \in SessionMsg /\ m \in Msg /\ m \notin ConsentMsg /\ m[2] = s /\ m[3] = to
  BY DEF ConsentMsg, SessionMsg, Msg
<1> HIDE DEF m
<1>3. webhooks' \in [Msg -> 0..MaxDeliveries]
  BY <1>1, <1>2, MaxIsPositive DEF IInv, Types
<1>4. \A x \in Msg : x # m => webhooks'[x] = webhooks[x]
  BY <1>1 DEF IInv, Types
<1>5. /\ \/ session[s] = "PENDING"
         \/ session[s] = "PARTIAL" /\ to = "COMPLETED"
      /\ session'[s] = to
      /\ \A r \in Sessions \ {s} : session'[r] = session[r]
      /\ UNCHANGED <<consentVars, sessionRow, opening, chosen, jobVars>>
  BY DEF IInv, Types, Collect
<1>6. \A x \in SessionMsg : Backed(x) => Backed(x)'
  BY <1>5 DEF SessionMsg, Backed
<1>7. ~Backed(m) /\ Backed(m)'
  BY <1>2, <1>5 DEF Backed
<1>8. Types'
  BY <1>3, <1>5 DEF IInv, Types, Collect, consentVars, jobVars
<1>9. RanksOk' /\ ConsentsOk'
  BY <1>2, <1>4, <1>5, ConsentsKept DEF IInv, Msg
<1>10. MessagesOk'
  BY <1>4, <1>6, <1>7 DEF IInv, MessagesOk, Msg
<1>11. JobsOk'
  BY <1>4, <1>5, <1>6, <1>7 DEF IInv, JobsOk, Msg, Job, jobVars
<1>12. SessionsOk'
  BY <1>5 DEF IInv, SessionsOk, None
<1>13. CarriedOk' /\ StoredOk'
  <2>1. \A r \in Sessions : Offered(r) \subseteq Offered(r)'
    BY <1>5, OfferedKept
  <2>2. \A j \in Job : SessionOf(j) \in Sessions
    BY DEF Job, SessionMsg, SessionOf
  <2> QED
    BY <1>5, <2>1, <2>2 DEF IInv, CarriedOk, StoredOk, jobVars
<1>14. CountOk'
  BY <1>5, CountKept DEF IInv, Spent, jobVars
<1> QED
  BY <1>8, <1>9, <1>10, <1>11, <1>12, <1>13, <1>14 DEF IInv

\* A delivery of which nothing is left to come starts the goroutine of its number.
LEMMA SessionUpdateIInv ==
    ASSUME IInv, NEW m \in Msg, HandleSessionUpdate(m)
    PROVE  IInv'
<1>1. m \in SessionMsg /\ m \notin ConsentMsg
  BY DEF HandleSessionUpdate, ConsentMsg, SessionMsg
<1>2. webhooks[m] \in 1..MaxDeliveries /\ webhooks' = [webhooks EXCEPT ![m] = @ - 1]
  <2>1. webhooks[m] \in 0..MaxDeliveries
    BY DEF IInv, Types
  <2>2. webhooks[m] > 0 /\ webhooks' = [webhooks EXCEPT ![m] = @ - 1]
    BY DEF HandleSessionUpdate
  <2>3. webhooks[m] \in 1..MaxDeliveries
    BY <2>1, <2>2, MaxIsPositive
  <2> QED
    BY <2>2, <2>3
<1> DEFINE k == <<m, webhooks[m]>>
<1>3. k \in Job /\ k[1] = m /\ k[2] = webhooks[m]
  BY <1>1, <1>2 DEF Job
<1>4. job[k] = "idle" /\ Backed(m)
  BY <1>1, <1>2, <1>3, MaxIsPositive DEF IInv, JobsOk, MessagesOk
<1> HIDE DEF k
<1>5. webhooks' \in [Msg -> 0..MaxDeliveries]
  BY <1>2, MaxIsPositive DEF IInv, Types
<1>6. /\ webhooks'[m] = webhooks[m] - 1
      /\ \A x \in Msg : x # m => webhooks'[x] = webhooks[x]
  BY <1>2 DEF IInv, Types
<1>7. /\ UNCHANGED <<consentVars, session, opening, chosen, left, stored, seen>>
      /\ \/ UNCHANGED <<sessionRow, job>>
         \/ /\ m[3] \in {"PARTIAL", "COMPLETED"}
            /\ sessionRow' = [sessionRow EXCEPT ![m[2]] =
                                 IF @ = "absent" THEN "absent" ELSE "COMPLETED"]
            /\ job' = [job EXCEPT ![k] = "fetch"]
  BY DEF HandleSessionUpdate, k
<1>8. /\ \A j \in Job \ {k} : job'[j] = job[j]
      /\ job'[k] # "idle" => job'[k] = "fetch" /\ m[3] # "FAILED"
      /\ job'[k] \in {"idle", "fetch"}
      /\ job' \in [Job -> {"idle", "fetch", "store", "done"}]
  BY <1>3, <1>4, <1>7 DEF IInv, Types
<1>9. \A x \in SessionMsg : Backed(x)' <=> Backed(x)
  BY <1>7 DEF Backed
<1>10. Types'
  <2>1. sessionRow' \in [Sessions -> {"absent", "PENDING", "INITIATED", "COMPLETED"}]
    BY <1>7 DEF IInv, Types
  <2> QED
    BY <1>5, <1>7, <1>8, <2>1 DEF IInv, Types, consentVars
<1>11. RanksOk' /\ ConsentsOk'
  BY <1>1, <1>6, <1>7, ConsentsKept DEF IInv, Msg
<1>12. MessagesOk'
  <2> SUFFICES ASSUME NEW x \in SessionMsg, webhooks'[x] > 0 PROVE Backed(x)
    BY <1>9 DEF MessagesOk
  <2> QED
    BY <1>4, <1>6 DEF IInv, MessagesOk, Msg
<1>13. JobsOk'
  <2> SUFFICES ASSUME NEW j \in Job, job'[j] # "idle"
               PROVE  Backed(j[1]) /\ j[1][3] # "FAILED" /\ webhooks'[j[1]] < j[2]
    BY <1>9 DEF JobsOk, Job
  <2>1. CASE j = k
    BY <1>2, <1>3, <1>4, <1>6, <1>8, <2>1
  <2>2. CASE j # k
    <3>1. Backed(j[1]) /\ j[1][3] # "FAILED" /\ webhooks[j[1]] < j[2]
      BY <1>8, <2>2 DEF IInv, JobsOk
    <3>2. j[1] \in Msg /\ j[2] \in Nat
      BY DEF Job, Msg
    <3> QED
      BY <1>2, <1>6, <3>1, <3>2
  <2> QED
    BY <2>1, <2>2
<1>14. SessionsOk'
  <2>1. ASSUME NEW s \in Sessions, sessionRow'[s] = "COMPLETED"
        PROVE  sessionRow[s] = "COMPLETED" \/ session[s] \in {"PARTIAL", "COMPLETED"}
    BY <1>4, <1>7, <2>1 DEF IInv, Types, Backed
  <2> QED
    BY <1>7, <2>1 DEF IInv, SessionsOk
<1>15. CarriedOk' /\ StoredOk'
  <2>1. \A s : Offered(s)' = Offered(s)
    BY <1>7 DEF Offered
  <2> QED
    BY <1>4, <1>7, <1>8, <2>1 DEF IInv, CarriedOk, StoredOk
<1>16. CountOk'
  BY <1>4, <1>7, <1>8, CountKept DEF IInv, Spent
<1> QED
  BY <1>10, <1>11, <1>12, <1>13, <1>14, <1>15, <1>16 DEF IInv

-----------------------------------------------------------------------------
\* A step of the goroutines: consents, sessions and webhooks are as they were,
\* no goroutine begins, and none has more than before but what its session has.
LEMMA JobStep ==
    ASSUME IInv, UNCHANGED <<consent, consentRow, newest, session, sessionRow, chosen, webhooks>>,
           \A c \in Consents : initiation'[c] = "idle" => initiation[c] = "idle",
           \A c \in Consents : initiation[c] = "done" => initiation'[c] = "done",
           \A s \in Sessions : opening'[s] \in {"idle", "chosen"} => opening'[s] = opening[s],
           \A j \in Job : job'[j] # "idle" => job[j] # "idle",
           Types', CarriedOk', StoredOk', CountOk'
    PROVE  IInv'
<1>1. RanksOk' /\ ConsentsOk'
  BY DEF IInv, RanksOk, ConsentsOk
<1>2. MessagesOk' /\ JobsOk'
  BY DEF IInv, MessagesOk, JobsOk, Backed
<1>3. SessionsOk'
  BY DEF IInv, SessionsOk
<1> QED
  BY <1>1, <1>2, <1>3 DEF IInv

\* What the goroutine gets is what the session has: it was announced.
LEMMA FetchIInv ==
    ASSUME IInv, NEW j \in Job, FetchSessionData(j)
    PROVE  IInv'
<1>1. /\ job[j] = "fetch"
      /\ \/ /\ job'  = [job EXCEPT ![j] = "store"]
            /\ left' = [left EXCEPT ![j] =
                           IF session[SessionOf(j)] = "COMPLETED"
                           THEN Contents[SessionOf(j)] ELSE PartialContents[SessionOf(j)]]
         \/ job' = [job EXCEPT ![j] = "done"] /\ left' = left
      /\ UNCHANGED <<consentVars, sessionVars, webhooks, stored, seen>>
  BY DEF FetchSessionData
<1>2. SessionOf(j) \in Sessions /\ session[SessionOf(j)] \in {"PARTIAL", "COMPLETED"}
  <2>1. Backed(j[1]) /\ j[1][3] # "FAILED"
    BY <1>1 DEF IInv, JobsOk
  <2> QED
    BY <2>1 DEF Backed, SessionOf, Job, SessionMsg
<1>3. /\ left'[j] = Offered(SessionOf(j)) \/ left'[j] = left[j]
      /\ \A i \in Job \ {j} : left'[i] = left[i] /\ job'[i] = job[i]
      /\ job'[j] \in {"store", "done"}
  <2>1. Offered(SessionOf(j)) = IF session[SessionOf(j)] = "COMPLETED"
                                THEN Contents[SessionOf(j)] ELSE PartialContents[SessionOf(j)]
    BY <1>2, FeedAssumption DEF Offered
  <2> QED
    BY <1>1, <2>1 DEF IInv, Types
<1>4. Types'
  <2>1. job' \in [Job -> {"idle", "fetch", "store", "done"}]
    BY <1>1 DEF IInv, Types
  <2>2. Contents[SessionOf(j)] \in SUBSET Txns /\ PartialContents[SessionOf(j)] \in SUBSET Txns
    BY <1>2, FeedAssumption
  <2>3. left' \in [Job -> SUBSET Txns]
    BY <1>1, <2>2 DEF IInv, Types
  <2> QED
    BY <1>1, <2>1, <2>3 DEF IInv, Types, consentVars, sessionVars
<1>5. \A s : Offered(s)' = Offered(s)
  BY <1>1 DEF Offered, sessionVars
<1>6. CarriedOk'
  BY <1>1, <1>3, <1>5 DEF IInv, CarriedOk
<1>7. StoredOk'
  BY <1>1, <1>5 DEF IInv, StoredOk
<1>8. CountOk'
  BY <1>1, <1>3, CountKept DEF IInv, Spent
<1> QED
  BY <1>1, <1>3, <1>4, <1>6, <1>7, <1>8, JobStep DEF consentVars, sessionVars

\* A transaction that is stored is one that the goroutine is done with.
LEMMA StoreIInv ==
    ASSUME IInv, NEW j \in Job, StoreTxn(j)
    PROVE  IInv'
<1>1. PICK t \in left[j] :
         /\ left' = [left EXCEPT ![j] = @ \ {t}]
         /\ stored' = [stored EXCEPT ![t] = @ + 1] \/ stored' = stored
  BY DEF StoreTxn
<1>2. job[j] = "store" /\ UNCHANGED <<consentVars, sessionVars, webhooks, job, seen>>
  BY DEF StoreTxn
<1>3. t \in Txns /\ SessionOf(j) \in Sessions /\ t \in Offered(SessionOf(j))
  BY DEF IInv, Types, CarriedOk, Job, SessionMsg, SessionOf
<1>4. Types'
  <2>1. left' \in [Job -> SUBSET Txns]
    BY <1>1 DEF IInv, Types
  <2>2. stored' \in [Txns -> Nat]
    BY <1>1, <1>3 DEF IInv, Types
  <2> QED
    BY <1>2, <2>1, <2>2 DEF IInv, Types, consentVars, sessionVars
<1>5. \A s : Offered(s)' = Offered(s)
  BY <1>2 DEF Offered, sessionVars
<1>6. /\ left'[j] = left[j] \ {t}
      /\ \A i \in Job \ {j} : left'[i] = left[i]
  BY <1>1 DEF IInv, Types
<1>7. CarriedOk'
  BY <1>2, <1>5, <1>6 DEF IInv, CarriedOk
<1>8. \A x \in Txns : x # t => stored'[x] = stored[x]
  BY <1>1 DEF IInv, Types
<1>9. StoredOk'
  BY <1>3, <1>5, <1>8 DEF IInv, StoredOk
<1>10. CountOk'
  <2> SUFFICES ASSUME NEW x \in Txns PROVE stored'[x] <= Cardinality(Spent(x)')
    BY DEF CountOk
  <2>1. Spent(x) \subseteq Spent(x)'
    BY <1>2, <1>6 DEF Spent
  <2>2. Spent(x)' \in SUBSET Job
    BY DEF Spent
  <2>3. IsFiniteSet(Spent(x)') /\ Cardinality(Spent(x)') \in Nat
    BY <2>2, JobsAreFinite, FS_Subset, FS_CardinalityType
  <2>4. stored[x] \in Nat /\ stored[x] <= Cardinality(Spent(x))
    BY DEF IInv, Types, CountOk
  <2>5. CASE stored'[x] = stored[x]
    <3>1. Cardinality(Spent(x)) <= Cardinality(Spent(x)')
      BY <2>1, <2>3, FS_Subset
    <3> QED
      BY <2>3, <2>4, <2>5, <3>1, SpentCounts
  <2>6. CASE x = t /\ stored'[x] = stored[x] + 1
    <3>1. j \notin Spent(x) /\ j \in Spent(x)'
      BY <1>2, <1>3, <1>6, <2>6, OfferedIsPart DEF Spent
    <3>2. Cardinality(Spent(x) \cup {j}) = Cardinality(Spent(x)) + 1
      BY <3>1, SpentCounts, FS_AddElement
    <3>3. Spent(x) \cup {j} \in SUBSET Spent(x)'
      BY <2>1, <3>1
    <3>4. Cardinality(Spent(x) \cup {j}) <= Cardinality(Spent(x)')
      BY <2>3, <3>3, FS_Subset
    <3> QED
      BY <2>3, <2>4, <2>6, <3>2, <3>4, SpentCounts
  <2> QED
    BY <1>1, <1>8, <2>5, <2>6 DEF IInv, Types
<1> QED
  BY <1>2, <1>4, <1>7, <1>9, <1>10, JobStep DEF consentVars, sessionVars

LEMMA TriggerIInv ==
    ASSUME IInv, NEW j \in Job, TriggerReconciliation(j)
    PROVE  IInv'
<1>1. /\ job[j] = "store"
      /\ job' = [job EXCEPT ![j] = "done"]
      /\ \/ seen' = [seen EXCEPT ![SessionOf(j)] = @ \cup {t \in Txns : stored[t] > 0}]
         \/ seen' = seen
      /\ UNCHANGED <<consentVars, sessionVars, webhooks, left, stored>>
  BY DEF TriggerReconciliation
<1>2. Types'
  <2>1. job' \in [Job -> {"idle", "fetch", "store", "done"}]
    BY <1>1 DEF IInv, Types
  <2>2. seen' \in [Sessions -> SUBSET Txns]
    BY <1>1 DEF IInv, Types
  <2> QED
    BY <1>1, <2>1, <2>2 DEF IInv, Types, consentVars, sessionVars
<1>3. \A i \in Job : job'[i] = job[i] \/ (job[i] = "store" /\ job'[i] = "done")
  <2>1. job \in [Job -> {"idle", "fetch", "store", "done"}]
    BY DEF IInv, Types
  <2>2. job[j] = "store" /\ job' = [job EXCEPT ![j] = "done"]
    BY <1>1
  <2> QED
    BY <2>1, <2>2
<1>4. \A s : Offered(s)' = Offered(s)
  BY <1>1 DEF Offered, sessionVars
<1>5. CarriedOk' /\ StoredOk'
  BY <1>1, <1>3, <1>4 DEF IInv, CarriedOk, StoredOk
<1>6. CountOk'
  BY <1>1, <1>3, CountKept DEF IInv, Spent
<1> QED
  BY <1>1, <1>2, <1>3, <1>5, <1>6, JobStep DEF consentVars, sessionVars

LEMMA CrashIInv ==
    ASSUME IInv, Crash
    PROVE  IInv'
<1>1. /\ initiation' = [c \in Consents |-> IF initiation[c] = "made" THEN "done" ELSE initiation[c]]
      /\ opening' = [s \in Sessions |-> IF opening[s] = "idle" THEN "idle" ELSE "done"]
      /\ job' = [j \in Job |-> IF job[j] = "idle" THEN "idle" ELSE "done"]
      /\ left' = [j \in Job |-> {}]
      /\ UNCHANGED <<consent, consentRow, newest, session, sessionRow, chosen, webhooks, stored, seen>>
  BY DEF Crash
<1>2. Types'
  <2>1. /\ initiation' \in [Consents -> {"idle", "made", "done"}]
        /\ opening' \in [Sessions -> {"idle", "chosen", "created", "done"}]
    BY <1>1 DEF IInv, Types
  <2>2. /\ job' \in [Job -> {"idle", "fetch", "store", "done"}]
        /\ left' \in [Job -> SUBSET Txns]
    BY <1>1
  <2> QED
    BY <1>1, <2>1, <2>2 DEF IInv, Types
<1>3. \A s : Offered(s)' = Offered(s)
  BY <1>1 DEF Offered
<1>4. CarriedOk' /\ StoredOk'
  BY <1>1, <1>3 DEF IInv, CarriedOk, StoredOk
<1>5. CountOk'
  BY <1>1, CountKept DEF IInv, Spent
<1> QED
  BY <1>1, <1>2, <1>4, <1>5, JobStep

-----------------------------------------------------------------------------
\* IInv is an inductive invariant.
THEOREM Inductive == IInv /\ [Next]_vars => IInv'
<1> SUFFICES ASSUME IInv, [Next]_vars PROVE IInv'
  OBVIOUS
<1>1. ASSUME NEW c \in Consents,
             \/ InitiateConsent(c) \/ SaveConsent(c)
             \/ Approve(c) \/ Reject(c) \/ Revoke(c)
      PROVE  IInv'
  BY <1>1, InitiateIInv, SaveIInv, DecideIInv DEF Approve, Reject, Revoke
<1>2. ASSUME NEW s \in Sessions,
             ChooseConsent(s) \/ CreateDataSession(s) \/ RecordSession(s)
      PROVE  IInv'
  BY <1>2, ChooseIInv, CreateIInv, RecordIInv
<1>3. ASSUME NEW s \in Sessions, NEW to \in {"PARTIAL", "COMPLETED", "FAILED"}, Collect(s, to)
      PROVE  IInv'
  BY <1>3, CollectIInv
<1>4. ASSUME NEW m \in Msg, HandleConsentUpdate(m) \/ HandleSessionUpdate(m)
      PROVE  IInv'
  BY <1>4, ConsentUpdateIInv, SessionUpdateIInv
<1>5. ASSUME NEW j \in Job, FetchSessionData(j) \/ StoreTxn(j) \/ TriggerReconciliation(j)
      PROVE  IInv'
  BY <1>5, FetchIInv, StoreIInv, TriggerIInv
<1>6. CASE Crash
  BY <1>6, CrashIInv
<1>7. CASE UNCHANGED vars
  <2>1. UNCHANGED <<consent, consentRow, initiation, newest, session, sessionRow, opening,
                    chosen, webhooks, job, left, stored, seen>>
    BY <1>7 DEF vars
  <2>2. Types'
    BY <2>1 DEF IInv, Types
  <2>3. CarriedOk' /\ StoredOk' /\ CountOk'
    BY <2>1 DEF IInv, CarriedOk, StoredOk, CountOk, Offered, Spent
  <2> QED
    BY <2>1, <2>2, <2>3, JobStep
<1> QED
  BY <1>1, <1>2, <1>3, <1>4, <1>5, <1>6, <1>7 DEF Next, Server, Delivery

THEOREM Invariance == Spec => []IInv
BY InitIInv, Inductive, PTL DEF Spec

\* Every variable has its type, and the counters their bounds: the ranks given at
\* main.go:238 and the rows written at aa_session.go:110.
THEOREM TypeCorrect == Spec => []TypeOK
<1>1. IInv => TypeOK
  <2> SUFFICES ASSUME IInv PROVE TypeOK
    OBVIOUS
  <2>1. Cardinality(Consents) \in Nat /\ Cardinality(Job) \in Nat
    BY JobsAreFinite, FS_CardinalityType, FeedAssumption
  <2>2. newest \in [Consents -> 0..Cardinality(Consents)]
    BY <2>1 DEF IInv, Types, RanksOk
  <2>3. ASSUME NEW t \in Txns PROVE stored[t] \in 0..Cardinality(Job)
    <3>1. Spent(t) \in SUBSET Job
      BY DEF Spent
    <3>2. Cardinality(Spent(t)) <= Cardinality(Job)
      BY <3>1, JobsAreFinite, FS_Subset
    <3> QED
      BY <2>1, <3>2, SpentCounts DEF IInv, Types, CountOk
  <2>4. stored \in [Txns -> 0..Cardinality(Job)]
    BY <2>3 DEF IInv, Types
  <2> QED
    BY <2>2, <2>4 DEF IInv, Types, TypeOK
<1> QED
  BY <1>1, Invariance, PTL

\* The tables never run ahead of Setu: what the webhook handler and the goroutine
\* write (setu_webhook.go:66-139, aa_session.go:106-122) is so.
THEOREM TablesTrue == Spec => []TablesFollowSetu
<1>1. IInv => TablesFollowSetu
  BY DEF IInv, ConsentsOk, SessionsOk, StoredOk, TablesFollowSetu
<1> QED
  BY <1>1, Invariance, PTL

\* A transaction has no more rows than deliveries have been made of webhooks of
\* sessions that hold it: a goroutine stores it once (aa_session.go:106).
THEOREM RowsBounded == Spec => []OneRowPerDelivery
<1>1. IInv => OneRowPerDelivery
  <2> SUFFICES ASSUME IInv, NEW t \in Txns
               PROVE  stored[t] <= Cardinality({j \in Job : job[j] # "idle" /\ t \in Contents[SessionOf(j)]})
    BY DEF OneRowPerDelivery
  <2> DEFINE D == {j \in Job : job[j] # "idle" /\ t \in Contents[SessionOf(j)]}
  <2>1. D \in SUBSET Job /\ Spent(t) \in SUBSET D
    BY DEF Spent
  <2> HIDE DEF D
  <2>2. IsFiniteSet(D) /\ Cardinality(D) \in Nat
    BY <2>1, JobsAreFinite, FS_Subset, FS_CardinalityType
  <2>3. Cardinality(Spent(t)) <= Cardinality(D)
    BY <2>1, <2>2, FS_Subset
  <2>4. stored[t] <= Cardinality(D)
    BY <2>2, <2>3, SpentCounts DEF IInv, Types, CountOk
  <2> QED
    BY <2>4 DEF D
<1> QED
  BY <1>1, Invariance, PTL

-----------------------------------------------------------------------------
\* BankFeed implements Statement: opening a session and collecting its data offer
\* it, the goroutine's call of Setu takes it up, and what fails loses it.
Waiting == {j \in Job : job[j] \in {"idle", "fetch"}}
AllOffered == [s \in Sessions |-> Offered(s)]
About == [j \in Job |-> SessionOf(j)]

\* A step that leaves the mapped state alone, or only loses deliveries.
LEMMA LoseStep ==
    ASSUME Types, Types', UNCHANGED <<stored, seen>>,
           \A s \in Sessions : Offered(s)' = Offered(s),
           \A j \in Job : job'[j] \in {"idle", "fetch"} => job[j] \in {"idle", "fetch"},
           \A j \in Job : left'[j] \subseteq left[j]
    PROVE  St!Next
<1>1. left' \in [Job -> SUBSET Txns]
  BY DEF Types
<1>2. St!Lose
  BY <1>1 DEF St!Lose
<1> QED
  BY <1>2 DEF St!Next

\* A step in which Setu has more of a session.
LEMMA OfferStep ==
    ASSUME Types, Types', UNCHANGED <<job, left, stored, seen>>,
           NEW s \in Sessions, Offered(s) \subseteq Offered(s)',
           \A r \in Sessions \ {s} : Offered(r)' = Offered(r)
    PROVE  St!Next
<1>1. Offered(s)' \in SUBSET Txns
  BY FeedAssumption DEF Offered
<1>2. AllOffered' = [AllOffered EXCEPT ![s] = @ \cup Offered(s)']
  BY DEF AllOffered
<1>3. St!Offer(s, Offered(s)')
  BY <1>2 DEF St!Offer, AllOffered
<1> QED
  BY <1>1, <1>3 DEF St!Next

\* The goroutine asks Setu and takes up what the session has, or fails.
LEMMA FetchRefines ==
    ASSUME IInv, Types', NEW j \in Job, FetchSessionData(j)
    PROVE  St!Next
<1>1. /\ job[j] = "fetch"
      /\ \/ /\ job'  = [job EXCEPT ![j] = "store"]
            /\ left' = [left EXCEPT ![j] =
                           IF session[SessionOf(j)] = "COMPLETED"
                           THEN Contents[SessionOf(j)] ELSE PartialContents[SessionOf(j)]]
         \/ job' = [job EXCEPT ![j] = "done"] /\ left' = left
      /\ UNCHANGED <<session, stored, seen>>
  BY DEF FetchSessionData, sessionVars
<1>2. SessionOf(j) \in Sessions /\ session[SessionOf(j)] \in {"PARTIAL", "COMPLETED"}
  <2>1. Backed(j[1]) /\ j[1][3] # "FAILED"
    BY <1>1 DEF IInv, JobsOk
  <2> QED
    BY <2>1 DEF Backed, SessionOf, Job, SessionMsg
<1>3. Offered(SessionOf(j)) = IF session[SessionOf(j)] = "COMPLETED"
                              THEN Contents[SessionOf(j)] ELSE PartialContents[SessionOf(j)]
  BY <1>2, FeedAssumption DEF Offered
<1>4. Offered(SessionOf(j)) \in SUBSET Txns
  BY <1>2, OfferedIsPart
<1>5. \A s \in Sessions : Offered(s)' = Offered(s)
  BY <1>1 DEF Offered
<1>6. CASE left' = left
  <2>1. \A i \in Job : job'[i] \in {"idle", "fetch"} => job[i] \in {"idle", "fetch"}
    BY <1>1 DEF IInv, Types
  <2> QED
    BY <1>1, <1>5, <1>6, <2>1, LoseStep DEF IInv
<1>7. CASE /\ job'  = [job EXCEPT ![j] = "store"]
           /\ left' = [left EXCEPT ![j] = Offered(SessionOf(j))]
  <2>1. Waiting' = Waiting \ {j} /\ j \in Waiting
    BY <1>1, <1>7 DEF IInv, Types, Waiting
  <2>2. AllOffered' = AllOffered
    BY <1>5 DEF AllOffered
  <2>3. PICK T \in SUBSET Txns : T = Offered(SessionOf(j))
    BY <1>4
  <2>4. T \subseteq AllOffered[About[j]]
    BY <1>2, <2>3 DEF AllOffered, About
  <2>5. St!TakeUp(j, T)
    BY <1>1, <1>7, <2>1, <2>2, <2>3, <2>4 DEF St!TakeUp, Waiting, AllOffered, About
  <2> QED
    BY <2>5 DEF St!Next
<1> QED
  BY <1>1, <1>3, <1>6, <1>7

LEMMA StoreRefines ==
    ASSUME IInv, Types', NEW j \in Job, StoreTxn(j)
    PROVE  St!Next
<1>1. PICK t \in left[j] :
         /\ left' = [left EXCEPT ![j] = @ \ {t}]
         /\ stored' = [stored EXCEPT ![t] = @ + 1] \/ stored' = stored
  BY DEF StoreTxn
<1>2. UNCHANGED <<session, job, seen>>
  BY DEF StoreTxn, sessionVars
<1>3. \A s \in Sessions : Offered(s)' = Offered(s)
  BY <1>2 DEF Offered
<1>4. CASE stored' = stored
  <2>1. \A i \in Job : left'[i] \subseteq left[i]
    BY <1>1 DEF IInv, Types
  <2> QED
    BY <1>2, <1>3, <1>4, <2>1, LoseStep DEF IInv
<1>5. CASE stored' = [stored EXCEPT ![t] = @ + 1]
  <2>1. t \in Txns
    BY DEF IInv, Types
  <2>2. St!Put(j, t)
    BY <1>1, <1>2, <1>3, <1>5 DEF St!Put
  <2> QED
    BY <2>1, <2>2 DEF St!Next
<1> QED
  BY <1>1, <1>4, <1>5

\* The engine is shown what is in the table, if the session has a merchant.
LEMMA TriggerRefines ==
    ASSUME IInv, Types', NEW j \in Job, TriggerReconciliation(j)
    PROVE  St!Next
<1>1. /\ job[j] = "store"
      /\ job' = [job EXCEPT ![j] = "done"]
      /\ \/ seen' = [seen EXCEPT ![SessionOf(j)] = @ \cup {t \in Txns : stored[t] > 0}]
         \/ seen' = seen
      /\ UNCHANGED <<session, left, stored>>
  BY DEF TriggerReconciliation, sessionVars
<1>2. \A s \in Sessions : Offered(s)' = Offered(s)
  BY <1>1 DEF Offered
<1>3. \A i \in Job : job'[i] \in {"idle", "fetch"} <=> job[i] \in {"idle", "fetch"}
  <2>1. job \in [Job -> {"idle", "fetch", "store", "done"}]
    BY DEF IInv, Types
  <2>2. job[j] = "store" /\ job' = [job EXCEPT ![j] = "done"]
    BY <1>1
  <2> QED
    BY <2>1, <2>2
<1>4. CASE seen' = seen
  BY <1>1, <1>2, <1>3, <1>4, LoseStep DEF IInv
<1>5. CASE seen' = [seen EXCEPT ![SessionOf(j)] = @ \cup {t \in Txns : stored[t] > 0}]
  <2>1. SessionOf(j) \in Sessions
    BY DEF SessionOf, Job, SessionMsg
  <2>2. St!Reconcile(SessionOf(j))
    BY <1>1, <1>2, <1>3, <1>5 DEF St!Reconcile
  <2> QED
    BY <2>1, <2>2 DEF St!Next
<1> QED
  BY <1>1, <1>4, <1>5

\* Each step is one of Statement, or leaves its state alone.
LEMMA StepRefines ==
    ASSUME IInv, [Next]_vars
    PROVE  [St!Next]_(St!vars)
<1>1. Types /\ Types'
  BY Inductive DEF IInv
<1>2. ASSUME UNCHANGED <<session, job, left, stored, seen>>
      PROVE  UNCHANGED St!vars
  BY <1>2 DEF St!vars, Offered
<1>3. ASSUME NEW c \in Consents,
             \/ InitiateConsent(c) \/ SaveConsent(c)
             \/ Approve(c) \/ Reject(c) \/ Revoke(c)
      PROVE  UNCHANGED St!vars
  BY <1>2, <1>3 DEF InitiateConsent, SaveConsent, Approve, Reject, Revoke, Decide,
                    sessionVars, jobVars
<1>4. ASSUME NEW s \in Sessions, ChooseConsent(s) \/ RecordSession(s)
      PROVE  UNCHANGED St!vars
  BY <1>2, <1>4 DEF ChooseConsent, RecordSession, jobVars
<1>5. ASSUME NEW s \in Sessions, CreateDataSession(s)
      PROVE  St!Next
  <2>1. /\ opening[s] = "chosen"
        /\ session' = session \/ session' = [session EXCEPT ![s] = "PENDING"]
        /\ UNCHANGED <<job, left, stored, seen>>
    BY <1>5 DEF CreateDataSession, jobVars
  <2>2. session[s] = None /\ (session'[s] = None \/ session'[s] = "PENDING")
    BY <2>1 DEF IInv, SessionsOk, Types
  <2>3. \A r \in Sessions \ {s} : session'[r] = session[r]
    BY <2>1 DEF IInv, Types
  <2>4. Offered(s) \subseteq Offered(s)' /\ \A r \in Sessions \ {s} : Offered(r)' = Offered(r)
    BY <2>2, <2>3 DEF Offered, None
  <2> QED
    BY <1>1, <2>1, <2>4, OfferStep
<1>6. ASSUME NEW s \in Sessions, NEW to \in {"PARTIAL", "COMPLETED", "FAILED"}, Collect(s, to)
      PROVE  St!Next
  <2>1. /\ \/ session[s] = "PENDING"
           \/ session[s] = "PARTIAL" /\ to = "COMPLETED"
        /\ session' = [session EXCEPT ![s] = to]
        /\ UNCHANGED <<job, left, stored, seen>>
    BY <1>6 DEF Collect, jobVars
  <2>2. session'[s] = to /\ \A r \in Sessions \ {s} : session'[r] = session[r]
    BY <2>1 DEF IInv, Types
  <2>3. Offered(s) \subseteq Offered(s)'
    BY <2>1, <2>2, OfferedKept
  <2>4. \A r \in Sessions \ {s} : Offered(r)' = Offered(r)
    BY <2>2 DEF Offered
  <2> QED
    BY <1>1, <2>1, <2>3, <2>4, OfferStep
<1>7. ASSUME NEW m \in Msg, HandleConsentUpdate(m)
      PROVE  UNCHANGED St!vars
  BY <1>2, <1>7 DEF HandleConsentUpdate, sessionVars, jobVars
<1>8. ASSUME NEW m \in Msg, HandleSessionUpdate(m)
      PROVE  St!Next
  <2>1. m \in SessionMsg /\ webhooks[m] > 0
    BY <1>8 DEF HandleSessionUpdate
  <2>2. /\ UNCHANGED <<session, left, stored, seen>>
        /\ job' = job \/ job' = [job EXCEPT ![<<m, webhooks[m]>>] = "fetch"]
    BY <1>8 DEF HandleSessionUpdate
  <2>3. <<m, webhooks[m]>> \in Job => job[<<m, webhooks[m]>>] = "idle"
    <3>1. webhooks[m] \in Nat
      <4>1. webhooks[m] \in 0..MaxDeliveries
        BY DEF IInv, Types
      <4> QED
        BY <4>1, MaxIsPositive
    <3> DEFINE k == <<m, webhooks[m]>>
    <3>2. k \in Job /\ job[k] # "idle" => webhooks[k[1]] < k[2]
      BY DEF IInv, JobsOk
    <3>3. k[1] = m /\ k[2] = webhooks[m]
      OBVIOUS
    <3> HIDE DEF k
    <3>4. k \in Job => job[k] = "idle"
      BY <3>1, <3>2, <3>3
    <3> QED
      BY <3>4 DEF k
  <2>4. \A j \in Job : job'[j] \in {"idle", "fetch"} => job[j] \in {"idle", "fetch"}
    <3> DEFINE k == <<m, webhooks[m]>>
    <3>1. k \in Job => job[k] = "idle"
      BY <2>3
    <3>2. job' = job \/ job' = [job EXCEPT ![k] = "fetch"]
      BY <2>2
    <3> HIDE DEF k
    <3> QED
      BY <3>1, <3>2 DEF IInv, Types
  <2>5. \A s \in Sessions : Offered(s)' = Offered(s)
    BY <2>2 DEF Offered
  <2> QED
    BY <1>1, <2>2, <2>4, <2>5, LoseStep
<1>9. ASSUME NEW j \in Job, FetchSessionData(j) \/ StoreTxn(j) \/ TriggerReconciliation(j)
      PROVE  St!Next
  BY <1>1, <1>9, FetchRefines, StoreRefines, TriggerRefines
<1>10. CASE Crash
  <2>1. /\ UNCHANGED <<session, stored, seen>>
        /\ job' = [j \in Job |-> IF job[j] = "idle" THEN "idle" ELSE "done"]
        /\ left' = [j \in Job |-> {}]
    BY <1>10 DEF Crash
  <2>2. \A s \in Sessions : Offered(s)' = Offered(s)
    BY <2>1 DEF Offered
  <2> QED
    BY <1>1, <2>1, <2>2, LoseStep
<1>11. CASE UNCHANGED vars
  BY <1>2, <1>11 DEF vars
<1> QED
  BY <1>3, <1>4, <1>5, <1>6, <1>7, <1>8, <1>9, <1>10, <1>11 DEF Next, Server, Delivery

\* The feed implements Statement, for any consents, sessions and faults
\* (RefinesStatement): each delivery brings a transaction into bank_transactions
\* at most once, and none that Setu did not have when it was asked.
THEOREM Refinement == Spec => RefinesStatement
<1>1. Init => St!Init
  <2> SUFFICES ASSUME Init PROVE St!Init
    OBVIOUS
  <2>1. \A s \in Sessions : Offered(s) = {}
    BY DEF Init, Offered, None
  <2>2. AllOffered = [s \in Sessions |-> {}] /\ Waiting = Job
    BY <2>1 DEF Init, AllOffered, Waiting
  <2> QED
    BY <2>2 DEF Init, St!Init, AllOffered, Waiting
<1>2. IInv /\ [Next]_vars => [St!Next]_(St!vars)
  BY StepRefines
<1> QED
  BY Invariance, <1>1, <1>2, PTL DEF Spec, RefinesStatement, St!Spec
=============================================================================

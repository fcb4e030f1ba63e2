------------------------------ MODULE BankFeed ------------------------------
(***************************************************************************)
(* The Account Aggregator side of the system: consents and data sessions   *)
(* at Setu, the rows kept of them, the webhooks that announce their        *)
(* progress and the goroutines that store the bank's transactions and      *)
(* start the matching engine (cmd/api/main.go, internal/cron,              *)
(* internal/setu/aa_*.go, internal/webhooks).                              *)
(*                                                                         *)
(* Setu and the tables are told of each other's changes by messages only:  *)
(* a session exists at Setu before its row is written, a webhook may       *)
(* arrive before that, twice, or in another order than it was sent, and a  *)
(* crash loses whatever a handler or a goroutine had still to do.          *)
(***************************************************************************)
EXTENDS Naturals, FiniteSets

CONSTANTS
    Consents,          \* calls of POST /consent/initiate
    Sessions,          \* calls of CreateDataSession
    Txns,              \* transactions of the bank
    ConsentMerchant,   \* whose consent it is
    SessionMerchant,   \* whom the session is opened for
    Origin,            \* "pipeline" (daily_recon.go) or "fetch" (POST /data/fetch)
    Contents,          \* what a session holds when it is COMPLETED
    PartialContents,   \* what it holds when it is PARTIAL
    HasMerchantColumn, \* whether aa_data_sessions is as daily_recon.go and
                       \* setu_webhook.go need it, with a merchant_id and the
                       \* status INITIATED, or as migrations/001 makes it
    Faults,            \* which of crash, loss and failed calls may happen
    MaxDeliveries      \* bound: how often Setu delivers one webhook

ASSUME FeedAssumption ==
    /\ IsFiniteSet(Consents) /\ IsFiniteSet(Sessions)
    /\ Contents \in [Sessions -> SUBSET Txns]
    /\ PartialContents \in [Sessions -> SUBSET Txns]
    /\ \A s \in Sessions : PartialContents[s] \subseteq Contents[s]
    /\ HasMerchantColumn \in BOOLEAN
    /\ Faults \subseteq {"crash", "lost answer", "failed call"}
    /\ MaxDeliveries \in Nat \ {0}

VARIABLES
    consent,     \* state of a consent at Setu
    consentRow,  \* aa_consents.status, "absent" before the INSERT
    initiation,  \* where POST /consent/initiate is
    newest,      \* the consents in aa_consents by created_at, as a rank
    session,     \* state of a session at Setu
    sessionRow,  \* aa_data_sessions.status, "absent" before the INSERT
    opening,     \* where the pipeline or POST /data/fetch is
    chosen,      \* the consent it has read
    webhooks,    \* deliveries still to come
    job,         \* where the goroutine started by a delivery is
    left,        \* the transactions it has still to store
    stored,      \* how many rows of bank_transactions a transaction has
    seen         \* history: the transactions stored when the engine was called for a session

consentVars == <<consent, consentRow, initiation, newest>>
sessionVars == <<session, sessionRow, opening, chosen>>
jobVars     == <<job, left, stored, seen>>
vars        == <<consent, consentRow, initiation, newest,
                 session, sessionRow, opening, chosen, webhooks, job, left, stored, seen>>

None == "none"

\* type, id and status of a webhook.
ConsentMsg == {"CONSENT_STATUS_UPDATE"} \X Consents \X {"ACTIVE", "REJECTED", "REVOKED"}
SessionMsg == {"FI_STATUS_UPDATE"} \X Sessions \X {"PARTIAL", "COMPLETED", "FAILED"}
Msg        == ConsentMsg \cup SessionMsg

\* The goroutine of the n-th last delivery of a webhook.
Job == SessionMsg \X (1..MaxDeliveries)
SessionOf(j) == j[1][2]

\* Setu sends a webhook, and delivers it once or more.
Announce(m) ==
    \E n \in 1..MaxDeliveries : webhooks' = [webhooks EXCEPT ![m] = n]

\* aa_data_sessions.merchant_id: no column, or NULL in the rows that POST
\* /data/fetch writes without naming it, or what daily_recon.go writes.
MerchantColumn(s) ==
    IF HasMerchantColumn /\ sessionRow[s] # "absent" /\ Origin[s] = "pipeline"
    THEN SessionMerchant[s] ELSE None

\* The consents of the merchant of s the table says are ACTIVE; both queries
\* end in LIMIT 1, but only that of POST /data/fetch has an ORDER BY.
ActiveRows(s) ==
    {c \in Consents : consentRow[c] = "ACTIVE" /\ ConsentMerchant[c] = SessionMerchant[s]}
Eligible(s) ==
    IF Origin[s] = "pipeline" THEN ActiveRows(s)
    ELSE {c \in ActiveRows(s) : \A d \in ActiveRows(s) : newest[d] <= newest[c]}

-----------------------------------------------------------------------------
Init ==
    /\ consent    = [c \in Consents |-> None]
    /\ consentRow = [c \in Consents |-> "absent"]
    /\ initiation = [c \in Consents |-> "idle"]
    /\ newest     = [c \in Consents |-> 0]
    /\ session    = [s \in Sessions |-> None]
    /\ sessionRow = [s \in Sessions |-> "absent"]
    /\ opening    = [s \in Sessions |-> "idle"]
    /\ chosen     = [s \in Sessions |-> None]
    /\ webhooks   = [m \in Msg |-> 0]
    /\ job        = [j \in Job |-> "idle"]
    /\ left       = [j \in Job |-> {}]
    /\ stored     = [t \in Txns |-> 0]
    /\ seen       = [s \in Sessions |-> {}]

(* POST /consent/initiate. *)

\* main.go:230: Setu makes the request; its answer may be lost.
InitiateConsent(c) ==
    /\ initiation[c] = "idle"
    /\ consent' = [consent EXCEPT ![c] = "PENDING"]
    /\ \/ initiation' = [initiation EXCEPT ![c] = "made"]
       \/ "lost answer" \in Faults /\ initiation' = [initiation EXCEPT ![c] = "done"]
    /\ UNCHANGED <<consentRow, newest, sessionVars, webhooks, jobVars>>

\* main.go:238: the row is written.
SaveConsent(c) ==
    /\ initiation[c] = "made"
    /\ initiation' = [initiation EXCEPT ![c] = "done"]
    /\ \/ /\ consentRow' = [consentRow EXCEPT ![c] = "PENDING"]
          /\ newest'     = [newest EXCEPT ![c] = 1 + Cardinality({d \in Consents : newest[d] > 0})]
       \/ "failed call" \in Faults /\ UNCHANGED <<consentRow, newest>>
    /\ UNCHANGED <<consent, sessionVars, webhooks, jobVars>>

(* The merchant, at the account aggregator. *)

Decide(c, from, to) ==
    /\ consent[c] = from
    /\ consent' = [consent EXCEPT ![c] = to]
    /\ Announce(<<"CONSENT_STATUS_UPDATE", c, to>>)
    /\ UNCHANGED <<consentRow, initiation, newest, sessionVars, jobVars>>

Approve(c) == Decide(c, "PENDING", "ACTIVE")
Reject(c)  == Decide(c, "PENDING", "REJECTED")
Revoke(c)  == Decide(c, "ACTIVE", "REVOKED")

(* Opening a session. *)

\* daily_recon.go:70, main.go:296: a consent the table calls ACTIVE.
ChooseConsent(s) ==
    /\ opening[s] = "idle"
    /\ \E c \in Eligible(s) : chosen' = [chosen EXCEPT ![s] = c]
    /\ opening' = [opening EXCEPT ![s] = "chosen"]
    /\ UNCHANGED <<consentVars, session, sessionRow, webhooks, jobVars>>

\* aa_session.go:40: Setu opens a session under an active consent only.
CreateDataSession(s) ==
    /\ opening[s] = "chosen"
    /\ \/ /\ consent[chosen[s]] = "ACTIVE"
          /\ session' = [session EXCEPT ![s] = "PENDING"]
          /\ \/ opening' = [opening EXCEPT ![s] = "created"]
             \/ "lost answer" \in Faults /\ opening' = [opening EXCEPT ![s] = "done"]
       \/ /\ consent[chosen[s]] # "ACTIVE" \/ "failed call" \in Faults
          /\ opening' = [opening EXCEPT ![s] = "done"]
          /\ UNCHANGED session
    /\ UNCHANGED <<consentVars, sessionRow, chosen, webhooks, jobVars>>

\* daily_recon.go:105, main.go:315: its row; that of the pipeline names a column
\* and a status the migration does not have.
RecordSession(s) ==
    /\ opening[s] = "created"
    /\ opening' = [opening EXCEPT ![s] = "done"]
    /\ \/ /\ Origin[s] = "fetch"
          /\ sessionRow' = [sessionRow EXCEPT ![s] = "PENDING"]
       \/ /\ Origin[s] = "pipeline" /\ HasMerchantColumn
          /\ sessionRow' = [sessionRow EXCEPT ![s] = "INITIATED"]
       \/ /\ "failed call" \in Faults \/ (Origin[s] = "pipeline" /\ ~HasMerchantColumn)
          /\ UNCHANGED sessionRow
    /\ UNCHANGED <<consentVars, session, chosen, webhooks, jobVars>>

\* Setu collects the data: some of it first, or all at once, or not at all.
Collect(s, to) ==
    /\ \/ session[s] = "PENDING"
       \/ session[s] = "PARTIAL" /\ to = "COMPLETED"
    /\ session' = [session EXCEPT ![s] = to]
    /\ Announce(<<"FI_STATUS_UPDATE", s, to>>)
    /\ UNCHANGED <<consentVars, sessionRow, opening, chosen, jobVars>>

(* The webhook handler. *)

\* Mutant of HandleConsentUpdate: the status is not looked at.
HandleAnyConsentUpdate(m) ==
    /\ m \in ConsentMsg
    /\ webhooks[m] > 0
    /\ webhooks'   = [webhooks EXCEPT ![m] = @ - 1]
    /\ consentRow' = [consentRow EXCEPT ![m[2]] = IF @ = "absent" THEN "absent" ELSE "ACTIVE"]
    /\ UNCHANGED <<consent, initiation, newest, sessionVars, jobVars>>

\* Mutant of HandleConsentUpdate: the row is looked for by setu_consent_id only,
\* which is NULL before the first update.
HandleKnownConsentUpdate(m) ==
    /\ m \in ConsentMsg
    /\ webhooks[m] > 0
    /\ webhooks' = [webhooks EXCEPT ![m] = @ - 1]
    /\ UNCHANGED <<consentVars, sessionVars, jobVars>>

\* setu_webhook.go:111-139: of the consent updates only ACTIVE is acted on, and
\* it changes the row if there is one and the statement does not fail.
HandleConsentUpdate(m) ==
    /\ m \in ConsentMsg
    /\ webhooks[m] > 0
    /\ webhooks' = [webhooks EXCEPT ![m] = @ - 1]
    /\ \/ consentRow' = [c \in Consents |->
                            IF c = m[2] /\ m[3] = "ACTIVE" /\ consentRow[c] # "absent"
                            THEN "ACTIVE" ELSE consentRow[c]]
       \/ "failed call" \in Faults /\ UNCHANGED consentRow
    /\ UNCHANGED <<consent, initiation, newest, sessionVars, jobVars>>

\* Mutant of HandleSessionUpdate: an UPDATE that finds no row is an error, so that
\* nothing goes for the data of a session whose row is not written yet.
HandleKnownSessionUpdate(m) ==
    /\ m \in SessionMsg
    /\ webhooks[m] > 0
    /\ webhooks' = [webhooks EXCEPT ![m] = @ - 1]
    /\ \/ /\ m[3] = "FAILED" \/ sessionRow[m[2]] = "absent"
          /\ UNCHANGED <<sessionRow, job>>
       \/ /\ m[3] # "FAILED" /\ sessionRow[m[2]] # "absent"
          /\ sessionRow' = [sessionRow EXCEPT ![m[2]] = "COMPLETED"]
          /\ job' = [job EXCEPT ![<<m, webhooks[m]>>] = "fetch"]
    /\ UNCHANGED <<consentVars, session, opening, chosen, left, stored, seen>>

\* Mutant of HandleSessionUpdate: success is not looked at, so that a goroutine
\* goes for the data of a session that failed.
HandleEverySessionUpdate(m) ==
    /\ m \in SessionMsg
    /\ webhooks[m] > 0
    /\ webhooks' = [webhooks EXCEPT ![m] = @ - 1]
    /\ sessionRow' = [sessionRow EXCEPT ![m[2]] =
                         IF @ = "absent" THEN "absent" ELSE "COMPLETED"]
    /\ job' = [job EXCEPT ![<<m, webhooks[m]>>] = "fetch"]
    /\ UNCHANGED <<consentVars, session, opening, chosen, left, stored, seen>>

\* setu_webhook.go:66-109: the row, if there is one, is COMPLETED and a goroutine
\* goes for the data, each time; if the UPDATE fails, nothing does.  A failed
\* session comes with success = false and is ignored (line 45).
HandleSessionUpdate(m) ==
    /\ m \in SessionMsg
    /\ webhooks[m] > 0
    /\ webhooks' = [webhooks EXCEPT ![m] = @ - 1]
    /\ \/ /\ m[3] = "FAILED" \/ "failed call" \in Faults
          /\ UNCHANGED <<sessionRow, job>>
       \/ /\ m[3] \in {"PARTIAL", "COMPLETED"}
          /\ sessionRow' = [sessionRow EXCEPT ![m[2]] =
                               IF @ = "absent" THEN "absent" ELSE "COMPLETED"]
          /\ job' = [job EXCEPT ![<<m, webhooks[m]>>] = "fetch"]
    /\ UNCHANGED <<consentVars, session, opening, chosen, left, stored, seen>>

(* The goroutine, setu_webhook.go:85-106. *)

\* aa_session.go:67-104: what Setu has by now.  No bank account in the table is
\* a failure too: the statement that would make one is refused by the schema.
FetchSessionData(j) ==
    /\ job[j] = "fetch"
    /\ \/ /\ job'  = [job EXCEPT ![j] = "store"]
          /\ left' = [left EXCEPT ![j] =
                         IF session[SessionOf(j)] = "COMPLETED"
                         THEN Contents[SessionOf(j)] ELSE PartialContents[SessionOf(j)]]
       \/ /\ "failed call" \in Faults
          /\ job' = [job EXCEPT ![j] = "done"]
          /\ UNCHANGED left
    /\ UNCHANGED <<consentVars, sessionVars, webhooks, stored, seen>>

\* Mutant of StoreTxn: a transaction may be tried again after it was stored.
StoreTxnAgain(j) ==
    /\ job[j] = "store"
    /\ \E t \in left[j] :
        /\ left' \in {left, [left EXCEPT ![j] = @ \ {t}]}
        /\ stored' = [stored EXCEPT ![t] = @ + 1]
    /\ UNCHANGED <<consentVars, sessionVars, webhooks, job, seen>>

\* aa_session.go:106-122: the next transaction, of either type, is stored by
\* itself, though it may be there already; a failed INSERT is passed over.
StoreTxn(j) ==
    /\ job[j] = "store"
    /\ \E t \in left[j] :
        /\ left' = [left EXCEPT ![j] = @ \ {t}]
        /\ \/ stored' = [stored EXCEPT ![t] = @ + 1]
           \/ "failed call" \in Faults /\ UNCHANGED stored
    /\ UNCHANGED <<consentVars, sessionVars, webhooks, job, seen>>

\* setu_webhook.go:92-99: the engine is called for the merchant of the row, if
\* the SELECT finds one.
TriggerReconciliation(j) ==
    /\ job[j] = "store"
    /\ left[j] = {}
    /\ job' = [job EXCEPT ![j] = "done"]
    /\ \/ /\ MerchantColumn(SessionOf(j)) # None
          /\ seen' = [seen EXCEPT ![SessionOf(j)] = @ \cup {t \in Txns : stored[t] > 0}]
       \/ /\ MerchantColumn(SessionOf(j)) = None \/ "failed call" \in Faults
          /\ UNCHANGED seen
    /\ UNCHANGED <<consentVars, sessionVars, webhooks, left, stored>>

\* The process stops.  Setu keeps its consents, sessions and webhooks.
Crash ==
    /\ "crash" \in Faults
    /\ \/ \E c \in Consents : initiation[c] = "made"
       \/ \E s \in Sessions : opening[s] \in {"chosen", "created"}
       \/ \E j \in Job : job[j] \in {"fetch", "store"}
    /\ initiation' = [c \in Consents |-> IF initiation[c] = "made" THEN "done" ELSE initiation[c]]
    /\ opening'    = [s \in Sessions |-> IF opening[s] = "idle" THEN "idle" ELSE "done"]
    /\ job'        = [j \in Job |-> IF job[j] = "idle" THEN "idle" ELSE "done"]
    /\ left'       = [j \in Job |-> {}]
    /\ UNCHANGED <<consent, consentRow, newest, session, sessionRow, chosen, webhooks, stored, seen>>

Server ==
    \/ \E c \in Consents : SaveConsent(c)
    \/ \E s \in Sessions : CreateDataSession(s) \/ RecordSession(s)
    \/ \E j \in Job : FetchSessionData(j) \/ StoreTxn(j) \/ TriggerReconciliation(j)

Delivery == \E m \in Msg : HandleConsentUpdate(m) \/ HandleSessionUpdate(m)

Next ==
    \/ Server
    \/ Delivery
    \/ \E c \in Consents : InitiateConsent(c) \/ Approve(c) \/ Reject(c) \/ Revoke(c)
    \/ \E s \in Sessions : ChooseConsent(s)
    \/ \E s \in Sessions, to \in {"PARTIAL", "COMPLETED", "FAILED"} : Collect(s, to)
    \/ Crash

Spec == Init /\ [][Next]_vars

\* The process goes on with what it has begun, and Setu delivers what it has
\* announced; nobody has to approve, revoke, open or collect anything.  There
\* are finitely many steps of either kind, so none of them can be starved.
Fairness == WF_vars(Server) /\ WF_vars(Delivery)

FairSpec == Spec /\ Fairness

-----------------------------------------------------------------------------
\* Every variable has its type.
TypeOK ==
    /\ consent \in [Consents -> {None, "PENDING", "ACTIVE", "REJECTED", "REVOKED"}]
    /\ consentRow \in [Consents -> {"absent", "PENDING", "ACTIVE"}]
    /\ initiation \in [Consents -> {"idle", "made", "done"}]
    /\ newest \in [Consents -> 0..Cardinality(Consents)]
    /\ session \in [Sessions -> {None, "PENDING", "PARTIAL", "COMPLETED", "FAILED"}]
    /\ sessionRow \in [Sessions -> {"absent", "PENDING", "INITIATED", "COMPLETED"}]
    /\ opening \in [Sessions -> {"idle", "chosen", "created", "done"}]
    /\ chosen \in [Sessions -> Consents \cup {None}]
    /\ webhooks \in [Msg -> 0..MaxDeliveries]
    /\ job \in [Job -> {"idle", "fetch", "store", "done"}]
    /\ left \in [Job -> SUBSET Txns]
    /\ stored \in [Txns -> 0..Cardinality(Job)]
    /\ seen \in [Sessions -> SUBSET Txns]

\* What Setu has to give of a session.
Offered(s) ==
    {t \in Contents[s] : \/ session[s] = "COMPLETED"
                         \/ session[s] = "PARTIAL" /\ t \in PartialContents[s]}

\* The tables never run ahead of Setu, whatever is lost, repeated or late: a row
\* is ACTIVE only of a consent that was approved, COMPLETED only of a session
\* that has data, and a bank transaction is one that such a session has by then.
TablesFollowSetu ==
    /\ \A c \in Consents : consentRow[c] = "ACTIVE" => consent[c] \in {"ACTIVE", "REVOKED"}
    /\ \A s \in Sessions : sessionRow[s] = "COMPLETED" => session[s] \in {"PARTIAL", "COMPLETED"}
    /\ \A t \in Txns : stored[t] > 0 => \E s \in Sessions : t \in Offered(s)

\* A transaction of the bank is stored at most once per delivery that announced
\* it: repeated webhooks, PARTIAL before COMPLETED and sessions of overlapping
\* ranges are the only sources of duplicate rows.
OneRowPerDelivery ==
    \A t \in Txns :
        stored[t] <= Cardinality({j \in Job : job[j] # "idle" /\ t \in Contents[SessionOf(j)]})

St == INSTANCE Statement WITH
         Deliveries <- Job,
         Of         <- [j \in Job |-> SessionOf(j)],
         offered    <- [s \in Sessions |-> Offered(s)],
         waiting    <- {j \in Job : job[j] \in {"idle", "fetch"}},
         carried    <- left,
         rows       <- stored,
         known      <- seen

\* The feed implements Statement: whatever is repeated, late or lost, each
\* delivery carries at most once, and into the table, no more than what Setu had
\* when it was asked, and the engine is shown what is in the table.
RefinesStatement == St!Spec

\* When a session is announced as complete, all it holds is in the table in the
\* end, though some of it was announced before and the deliveries are repeated and
\* reordered: the goroutine stores it whether there is a row of the session or not.
AnnouncedIsStored ==
    \A s \in Sessions :
        webhooks[<<"FI_STATUS_UPDATE", s, "COMPLETED">>] > 0
            ~> \A t \in Contents[s] : stored[t] > 0

\* A consent whose row was there when its approval was announced becomes ACTIVE.
ApprovedBecomesActive ==
    \A c \in Consents :
        webhooks[<<"CONSENT_STATUS_UPDATE", c, "ACTIVE">>] > 0 /\ consentRow[c] # "absent"
            ~> consentRow[c] = "ACTIVE"

\* daily_recon.go:116, "The webhook will pick up the completion and trigger the
\* Reconciliation Engine": every session the pipeline opened and Setu completed.
PipelineIsReconciled ==
    \A s \in Sessions :
        Origin[s] = "pipeline" /\ session[s] = "COMPLETED" ~> Contents[s] \subseteq seen[s]

\* README.md:76, "using the active AA consent": the consent chosen is not one
\* whose revocation Setu has announced and delivered, while another consent of
\* the merchant is active and known to be.
ChosenIsActive ==
    [][\A s \in Sessions : chosen'[s] # chosen[s] =>
          \/ consent[chosen'[s]] = "ACTIVE"
          \/ webhooks[<<"CONSENT_STATUS_UPDATE", chosen'[s], "REVOKED">>] > 0
          \/ \A c \in ActiveRows(s) : consent[c] # "ACTIVE"]_vars
=============================================================================

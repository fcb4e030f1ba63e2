----------------------------- MODULE Onboarding -----------------------------
(***************************************************************************)
(* POST /onboard/pan, /onboard/gst and /onboard/bank (cmd/api/main.go),    *)
(* the verification calls they make (internal/setu/kyc.go) and the two     *)
(* tables they write (migrations/001_initial_schema.sql).                  *)
(*                                                                         *)
(* A handler asks Setu and then executes one statement; between the two it *)
(* holds nothing, so what another handler writes meanwhile is met by the   *)
(* unique keys and foreign keys of the tables alone.  A client whose       *)
(* request fails, or is not answered, makes another one: a request has a   *)
(* name here, and the repetition another name and the same contents.  The  *)
(* id of a merchant is the name of the request that stored it.             *)
(***************************************************************************)
CONSTANTS
    PanReqs,   \* calls of the three routes
    GstReqs,
    BankReqs,
    Phone,     \* phone_number and pan of a PanReq
    Pan,
    Gstin,     \* gstin of a GstReq
    Target     \* merchant_id of the other two, stored, still to be stored or never

Reqs == PanReqs \cup GstReqs \cup BankReqs

ASSUME RequestAssumption ==
    /\ PanReqs \cap GstReqs = {}
    /\ (PanReqs \cup GstReqs) \cap BankReqs = {}
    /\ Target \in [GstReqs \cup BankReqs -> PanReqs]
    /\ \A g \in GstReqs : Gstin[g] # "none"
    /\ BankReqs \cap {"none", ""} = {}

\* What Setu is asked to verify.
Numbers == {Pan[q] : q \in PanReqs} \cup {Gstin[g] : g \in GstReqs}

VARIABLES
    step,      \* where a handler is, and in the end the answer of the request
    said,      \* the status in Setu's answer, or the id in that to InitiateRPD
    attested,  \* what Setu's verification has said: number and status
    drops,     \* the reverse penny drops initiated at Setu
    merchants, \* the ids in the table merchants
    panStatus, \* pan_status of a row
    gstRow,    \* gstin and gst_status of a row
    accounts   \* rpd_request_id of the row in merchant_bank_accounts

setuVars == <<attested, drops>>
rowVars  == <<merchants, panStatus, gstRow, accounts>>
vars     == <<step, said, attested, drops, merchants, panStatus, gstRow, accounts>>

\* The status of an answer with 200, 201 or 202; the last stands for any other
\* and for none.
SetuStatus == {"success", "other"}
KycStatus  == {"PENDING", "SUCCESS", "FAILED"}
NoGst      == [gstin |-> "none", status |-> "PENDING"]

\* Mutant of StatusOf: Setu's word is stored as it is.
StatusVerbatim(s) == s

\* main.go:119-122, 160-163.
StatusOf(s) == IF s = "success" THEN "SUCCESS" ELSE "FAILED"

-----------------------------------------------------------------------------
Init ==
    /\ step      = [q \in Reqs |-> "idle"]
    /\ said      = [q \in Reqs |-> "none"]
    /\ attested  = {}
    /\ drops     = {}
    /\ merchants = {}
    /\ panStatus = [m \in PanReqs |-> "PENDING"]
    /\ gstRow    = [m \in PanReqs |-> NoGst]
    /\ accounts  = [a \in BankReqs |-> "none"]

\* The handler of q goes on to its statement with Setu's answer, or returns.
Goes(q, answer) ==
    /\ step' = [step EXCEPT ![q] = "save"]
    /\ said' = [said EXCEPT ![q] = answer]
Returns(q, res) ==
    /\ step' = [step EXCEPT ![q] = res]
    /\ said' = [said EXCEPT ![q] = IF res = "ok" THEN @ ELSE "none"]

(* Setu. *)

\* kyc.go:30-73: Setu verifies a number and says so, or the call fails.
Verify(q, number) ==
    /\ step[q] = "idle"
    /\ \/ \E s \in SetuStatus : Goes(q, s) /\ attested' = attested \cup {<<number, s>>}
       \/ Returns(q, "error") /\ UNCHANGED attested
    /\ UNCHANGED <<drops, rowVars>>

\* main.go:101-114, kyc.go:76.
VerifyPAN(q) == Verify(q, Pan[q])

\* main.go:142-155, kyc.go:99.
VerifyGST(q) == Verify(q, Gstin[q])

\* kyc.go:122-149, main.go:181-193: Setu starts a penny drop and answers with its
\* id, or without one, or the answer is lost; or nothing has been started.
InitiateRPD(q) ==
    /\ step[q] = "idle"
    /\ \/ /\ drops' = drops \cup {q}
          /\ (\E id \in {q, ""} : Goes(q, id)) \/ Returns(q, "error")
       \/ Returns(q, "error") /\ UNCHANGED drops
    /\ UNCHANGED <<attested, rowVars>>

(* The statements.  Each is a transaction; its answer may be lost. *)

Answered(q) == Returns(q, "ok") \/ Returns(q, "error")

\* The statement is refused, or never reaches the database.
StatementFails(q) ==
    /\ step[q] = "save"
    /\ Returns(q, "error")
    /\ UNCHANGED <<setuVars, rowVars>>

\* Mutant of IdentityIsFree: the phone number is not UNIQUE.
PanIsFree(q) == \A m \in merchants : Pan[m] # Pan[q]

\* merchants.phone_number and merchants.pan are UNIQUE.
IdentityIsFree(q) == \A m \in merchants : Phone[m] # Phone[q] /\ Pan[m] # Pan[q]

\* Mutant of InsertMerchant: ON CONFLICT DO NOTHING, so a repetition is answered
\* like the first request.
InsertMerchantOnce(q) ==
    /\ step[q] = "save"
    /\ \/ /\ IdentityIsFree(q)
          /\ merchants' = merchants \cup {q}
          /\ panStatus' = [panStatus EXCEPT ![q] = StatusOf(said[q])]
       \/ /\ ~IdentityIsFree(q)
          /\ UNCHANGED <<merchants, panStatus>>
    /\ Answered(q)
    /\ UNCHANGED <<setuVars, gstRow, accounts>>

\* main.go:119-139: the merchant is stored whatever Setu said of the PAN.
InsertMerchant(q) ==
    /\ step[q] = "save"
    /\ IdentityIsFree(q)
    /\ merchants' = merchants \cup {q}
    /\ panStatus' = [panStatus EXCEPT ![q] = StatusOf(said[q])]
    /\ Answered(q)
    /\ UNCHANGED <<setuVars, gstRow, accounts>>

\* merchants.gstin is UNIQUE.
GstinIsFree(q) == \A m \in merchants \ {Target[q]} : gstRow[m].gstin # Gstin[q]

\* main.go:160-178: the row of the merchant, or no row at all, is updated.
UpdateGst(q) ==
    /\ step[q] = "save"
    /\ Target[q] \in merchants => GstinIsFree(q)
    /\ gstRow' = [m \in PanReqs |->
                     IF m = Target[q] /\ m \in merchants
                     THEN [gstin |-> Gstin[q], status |-> StatusOf(said[q])]
                     ELSE gstRow[m]]
    /\ Answered(q)
    /\ UNCHANGED <<setuVars, merchants, panStatus, accounts>>

\* Mutant of InsertAccount: the error of the statement is not looked at.
InsertAccountUnchecked(q) ==
    /\ step[q] = "save"
    /\ accounts' = IF Target[q] \in merchants /\ \A a \in BankReqs : accounts[a] # said[q]
                   THEN [accounts EXCEPT ![q] = said[q]] ELSE accounts
    /\ Answered(q)
    /\ UNCHANGED <<setuVars, merchants, panStatus, gstRow>>

\* main.go:199-213: merchant_id must be there and rpd_request_id is UNIQUE, be it
\* empty.  Nothing ever changes the row again.
InsertAccount(q) ==
    /\ step[q] = "save"
    /\ Target[q] \in merchants
    /\ \A a \in BankReqs : accounts[a] # said[q]
    /\ accounts' = [accounts EXCEPT ![q] = said[q]]
    /\ Answered(q)
    /\ UNCHANGED <<setuVars, merchants, panStatus, gstRow>>

\* The process stops, and with it every handler between Setu's answer and the
\* statement; the client finds the connection closed.
Crash ==
    /\ \E q \in Reqs : step[q] = "save"
    /\ step' = [q \in Reqs |-> IF step[q] = "save" THEN "error" ELSE step[q]]
    /\ said' = [q \in Reqs |-> IF step[q] = "save" THEN "none" ELSE said[q]]
    /\ UNCHANGED <<setuVars, rowVars>>

Next ==
    \/ \E q \in PanReqs  : VerifyPAN(q) \/ InsertMerchant(q)
    \/ \E q \in GstReqs  : VerifyGST(q) \/ UpdateGst(q)
    \/ \E q \in BankReqs : InitiateRPD(q) \/ InsertAccount(q)
    \/ \E q \in Reqs     : StatementFails(q)
    \/ Crash

Spec == Init /\ [][Next]_vars

-----------------------------------------------------------------------------
\* Every variable has its type.
TypeOK ==
    /\ step \in [Reqs -> {"idle", "save", "ok", "error"}]
    /\ said \in [Reqs -> SetuStatus \cup BankReqs \cup {"", "none"}]
    /\ attested \subseteq Numbers \X SetuStatus
    /\ drops \subseteq BankReqs
    /\ merchants \subseteq PanReqs
    /\ panStatus \in [PanReqs -> KycStatus]
    /\ gstRow \in [PanReqs -> [gstin : {"none"} \cup {Gstin[g] : g \in GstReqs}, status : KycStatus]]
    /\ accounts \in [BankReqs -> {"none", ""} \cup BankReqs]

\* The numbers of which Setu has said s.
SaidOf(s) == {n \in Numbers : <<n, s>> \in attested}

R == INSTANCE Registry WITH
        Ids       <- PanReqs,
        PhoneOf   <- Phone,
        PanOf     <- Pan,
        Gstins    <- {Gstin[g] : g \in GstReqs},
        confirmed <- SaidOf("success"),
        declined  <- SaidOf("other"),
        enrolled  <- merchants,
        panOk     <- {m \in merchants : panStatus[m] = "SUCCESS"},
        gstin     <- [m \in PanReqs |-> gstRow[m].gstin],
        gstOk     <- {m \in PanReqs : gstRow[m].status = "SUCCESS"}

\* The routes are an implementation of Registry: identities are unique and for
\* good, and what is marked as verified is what Setu has said of that number.
RefinesRegistry == R!Spec

\* What the client was told is so: a PAN request answered with an id has its
\* merchant in the table, and it alone of all requests for that phone number or
\* PAN; a bank request answered with a payment link has its penny drop in the
\* table.  One that was answered with an error may have its row all the same.
OkIsStored ==
    /\ \A q \in PanReqs : step[q] = "ok" =>
          /\ q \in merchants
          /\ panStatus[q] = StatusOf(said[q])
          /\ \A p \in PanReqs \ {q} :
                Phone[p] = Phone[q] \/ Pan[p] = Pan[q] => step[p] # "ok" /\ p \notin merchants
    /\ \A q \in BankReqs : step[q] = "ok" => accounts[q] = said[q] /\ Target[q] \in merchants

\* The money side: a row of a bank account stands for a penny drop that Setu has
\* started, and for no other row's; a drop that was started and has no row was
\* lost on the way by a request that has not been answered with a payment link.
DropsAreAccountedFor ==
    \A q \in BankReqs :
        /\ accounts[q] # "none" =>
              q \in drops /\ \A p \in BankReqs \ {q} : accounts[p] # accounts[q]
        /\ q \in drops /\ accounts[q] = "none" => step[q] \in {"save", "error"}
=============================================================================

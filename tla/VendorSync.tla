----------------------------- MODULE VendorSync -----------------------------
(***************************************************************************)
(* SyncVendorData (internal/vendors/sync.go) with its two providers,       *)
(* internal/vendors/razorpay and internal/vendors/phonepe, and what it     *)
(* writes to vendor_transactions under one integration.                    *)
(*                                                                         *)
(* A call fetches the payouts of a day from a gateway, one request for the *)
(* settlements and one more for the lines of each, and stores them in one  *)
(* transaction.  Calls overlap: the scheduler and POST                     *)
(* /admin/trigger-pipeline may sync the same day, and the rows of both     *)
(* providers go under the Razorpay integration (sync.go:17).  INSERT ...   *)
(* ON CONFLICT DO NOTHING waits for a transaction that has inserted the    *)
(* key and not ended, passes over the row if it commits and inserts it if  *)
(* it does not.                                                            *)
(***************************************************************************)
EXTENDS Naturals, Sequences, FiniteSets

CONSTANTS
    Settlements,  \* the settlements Razorpay may make for the day
    Items,        \* their lines
    Lines,        \* Lines[s]: the lines of s, in the order of the answer
    Kind,         \* Kind[i]: "payment", "refund" or another type of line
    Calls,        \* the calls of SyncVendorData for the day
    Provider,     \* Provider[c]: "Razorpay" or "PhonePe"
    MaxNow        \* bound: the last second of the clock

ASSUME GatewayAssumption ==
    /\ Lines \in [Settlements -> Seq(Items)]
    /\ Provider \in [Calls -> {"Razorpay", "PhonePe"}]
    /\ MaxNow \in Nat

\* An entity_id is of one payment or refund, which is settled once, and is not one
\* of the ids of the sandbox.
ASSUME KeysAssumption ==
    /\ \A s, t \in Settlements : \A i \in DOMAIN Lines[s], j \in DOMAIN Lines[t] :
          Lines[s][i] = Lines[t][j] /\ Kind[Lines[s][i]] \in {"payment", "refund"}
             => s = t /\ i = j
    /\ \A t \in 0..MaxNow, n \in {1, 2} : <<"T", t, n>> \notin Items
    /\ IsFiniteSet(Calls)

VARIABLES
    settled,   \* the settlements made so far, in the order the gateway lists them
    now,       \* the clock, in the seconds of which PhonePe ids are made
    rows,      \* the committed (vendor_integration_id, vendor_txn_id) keys
    pc,        \* where a call is
    listed,    \* the settlements whose lines are still to be fetched
    skipped,   \* history: those whose lines could not be fetched
    due,       \* history: the keys fetched
    txns,      \* the fetched rows still to be inserted
    pending,   \* the keys inserted and not committed
    result     \* how the call returned

callVars == <<pc, listed, skipped, due, txns, pending, result>>
vars     == <<settled, now, rows, pc, listed, skipped, due, txns, pending, result>>

InTxn    == {"insert", "aborted"}
UnderWay == {"mock", "fetch"} \cup InTxn

-----------------------------------------------------------------------------
\* The range of a sequence.
Elems(s) == {s[i] : i \in DOMAIN s}

\* client.go:129-145: the lines of a settlement that are kept, added to the list
\* one after the other.
Wanted(s) ==
    LET kept[n \in 0..Len(Lines[s])] ==
            IF n = 0 THEN <<>>
            ELSE IF Kind[Lines[s][n]] \in {"payment", "refund"}
                 THEN Append(kept[n - 1], Lines[s][n])
                 ELSE kept[n - 1]
    IN  kept[Len(Lines[s])]

\* phonepe/client.go:96, 104: the id of the n-th row of the sandbox, made of the
\* second in which time.Now() is called for it.
MockId(n) == <<"T", now, n>>

\* Mutant of Waits: no unique index on (vendor_integration_id, vendor_txn_id).
NeverWaits(c) == c \notin Calls

\* The next INSERT of c meets a key inserted by a transaction that has not ended.
Waits(c) == \E d \in Calls \ {c} : Head(txns[c]) \in pending[d]

\* Mutant of Listing: not every call gets the settlements in the same order.
ListingEitherWay(c) ==
    IF \E d \in Calls : pc[d] = "insert"
    THEN [n \in 1..Len(settled) |-> settled[Len(settled) + 1 - n]]
    ELSE settled

\* The settlements of the day as the gateway lists them.
Listing(c) == settled

-----------------------------------------------------------------------------
Init ==
    /\ settled = <<>>
    /\ now     = 0
    /\ rows    = {}
    /\ pc      = [c \in Calls |-> "idle"]
    /\ listed  = [c \in Calls |-> <<>>]
    /\ skipped = [c \in Calls |-> {}]
    /\ due     = [c \in Calls |-> {}]
    /\ txns    = [c \in Calls |-> <<>>]
    /\ pending = [c \in Calls |-> {}]
    /\ result  = [c \in Calls |-> "none"]

\* The gateway makes a settlement.
Settle(s) ==
    /\ s \notin Elems(settled)
    /\ settled' = Append(settled, s)
    /\ UNCHANGED <<now, rows, callVars>>

Tick ==
    /\ now < MaxNow
    /\ now' = now + 1
    /\ UNCHANGED <<settled, rows, callVars>>

\* Razorpay, client.go:64-93: the settlements of the day.
ListSettlements(c) ==
    /\ pc[c] = "idle"
    /\ Provider[c] = "Razorpay"
    /\ pc'     = [pc EXCEPT ![c] = "fetch"]
    /\ listed' = [listed EXCEPT ![c] = Listing(c)]
    /\ UNCHANGED <<settled, now, rows, skipped, due, txns, pending, result>>

\* client.go:98-146: the lines of the next settlement are added, or the request
\* fails and the loop goes on without them.
FetchRecon(c) ==
    /\ pc[c] = "fetch"
    /\ listed[c] # <<>>
    /\ listed' = [listed EXCEPT ![c] = Tail(@)]
    /\ \/ /\ txns' = [txns EXCEPT ![c] = @ \o Wanted(Head(listed[c]))]
          /\ due'  = [due EXCEPT ![c] = @ \cup Elems(Wanted(Head(listed[c])))]
          /\ UNCHANGED skipped
       \/ /\ skipped' = [skipped EXCEPT ![c] = @ \cup {Head(listed[c])}]
          /\ UNCHANGED <<txns, due>>
    /\ UNCHANGED <<settled, now, rows, pc, pending, result>>

\* PhonePe, phonepe/client.go:42-101: the first row of the sandbox.
FetchMock(c) ==
    /\ pc[c] = "idle"
    /\ Provider[c] = "PhonePe"
    /\ pc'   = [pc EXCEPT ![c] = "mock"]
    /\ txns' = [txns EXCEPT ![c] = <<MockId(1)>>]
    /\ due'  = [due EXCEPT ![c] = {MockId(1)}]
    /\ UNCHANGED <<settled, now, rows, listed, skipped, pending, result>>

\* Lines 103-111: the second, perhaps in a later second.
AppendMock(c) ==
    /\ pc[c] = "mock"
    /\ pc'   = [pc EXCEPT ![c] = "fetch"]
    /\ txns' = [txns EXCEPT ![c] = Append(@, MockId(2))]
    /\ due'  = [due EXCEPT ![c] = @ \cup {MockId(2)}]
    /\ UNCHANGED <<settled, now, rows, listed, skipped, pending, result>>

\* Mutant of Return: the deferred Rollback is missing, so that a call that has
\* ended goes on holding its keys.
ReturnWithoutRollback(c, res) ==
    /\ pc'     = [pc EXCEPT ![c] = "done"]
    /\ listed' = [listed EXCEPT ![c] = <<>>]
    /\ txns'   = [txns EXCEPT ![c] = <<>>]
    /\ result' = [result EXCEPT ![c] = res]
    /\ UNCHANGED pending

\* The call ends and its transaction, if it has one, is rolled back.
Return(c, res) ==
    /\ pc'      = [pc EXCEPT ![c] = "done"]
    /\ listed'  = [listed EXCEPT ![c] = <<>>]
    /\ txns'    = [txns EXCEPT ![c] = <<>>]
    /\ pending' = [pending EXCEPT ![c] = {}]
    /\ result'  = [result EXCEPT ![c] = res]

\* sync.go:29-39: nothing to store is a success, or the transaction begins.
Begin(c) ==
    /\ pc[c] = "fetch"
    /\ listed[c] = <<>>
    /\ \/ txns[c] = <<>> /\ Return(c, "ok")
       \/ /\ txns[c] # <<>>
          /\ pc' = [pc EXCEPT ![c] = "insert"]
          /\ UNCHANGED <<listed, txns, pending, result>>
    /\ UNCHANGED <<settled, now, rows, skipped, due>>

\* Mutant of Insert: a row another transaction is inserting is passed over.
InsertOrSkip(c) ==
    /\ pc[c] = "insert"
    /\ txns[c] # <<>>
    /\ txns'    = [txns EXCEPT ![c] = Tail(@)]
    /\ pending' = [pending EXCEPT ![c] =
                      IF Waits(c) \/ Head(txns[c]) \in rows THEN @ ELSE @ \cup {Head(txns[c])}]
    /\ UNCHANGED <<settled, now, rows, pc, listed, skipped, due, result>>

\* sync.go:42-62: the next row.  A statement that fails, as for a UTR longer than
\* its column, aborts the transaction; the loop goes on, and the statements that
\* are left fail.
Insert(c) ==
    /\ pc[c] = "insert"
    /\ txns[c] # <<>>
    /\ ~Waits(c)
    /\ \/ /\ txns'    = [txns EXCEPT ![c] = Tail(@)]
          /\ pending' = [pending EXCEPT ![c] =
                            IF Head(txns[c]) \in rows THEN @ ELSE @ \cup {Head(txns[c])}]
          /\ UNCHANGED pc
       \/ /\ pc'      = [pc EXCEPT ![c] = "aborted"]
          /\ txns'    = [txns EXCEPT ![c] = <<>>]
          /\ pending' = [pending EXCEPT ![c] = {}]
    /\ UNCHANGED <<settled, now, rows, listed, skipped, due, result>>

\* sync.go:64-69.
Commit(c) ==
    /\ pc[c] = "insert"
    /\ txns[c] = <<>>
    /\ rows' = rows \cup pending[c]
    /\ Return(c, "ok")
    /\ UNCHANGED <<settled, now, skipped, due>>

\* sync.go:64-66: COMMIT of an aborted transaction.
CommitFails(c) ==
    /\ pc[c] = "aborted"
    /\ Return(c, "error")
    /\ UNCHANGED <<settled, now, rows, skipped, due>>

\* No credentials, a failed settlements request, a lost connection: sync.go:18,
\* 25, 36, 65.
Fail(c) ==
    /\ pc[c] \in {"idle", "fetch"} \cup InTxn
    /\ Return(c, "error")
    /\ UNCHANGED <<settled, now, rows, skipped, due>>

\* The process stops; PostgreSQL rolls back what was open.
Crash ==
    /\ \E c \in Calls : pc[c] \in UnderWay
    /\ pc'      = [c \in Calls |-> IF pc[c] \in UnderWay THEN "dead" ELSE pc[c]]
    /\ listed'  = [c \in Calls |-> <<>>]
    /\ txns'    = [c \in Calls |-> <<>>]
    /\ pending' = [c \in Calls |-> {}]
    /\ UNCHANGED <<settled, now, rows, skipped, due, result>>

Quiesced ==
    /\ Elems(settled) = Settlements
    /\ now = MaxNow
    /\ \A c \in Calls : pc[c] \in {"done", "dead"}
    /\ UNCHANGED vars

CallStep(c) ==
    \/ ListSettlements(c)
    \/ FetchRecon(c)
    \/ FetchMock(c)
    \/ AppendMock(c)
    \/ Begin(c)
    \/ Insert(c)
    \/ Commit(c)
    \/ CommitFails(c)

Next ==
    \/ \E s \in Settlements : Settle(s)
    \/ Tick
    \/ \E c \in Calls : CallStep(c) \/ Fail(c)
    \/ Crash
    \/ Quiesced

Spec == Init /\ [][Next]_vars

\* A call that has begun keeps being executed.
Fairness == \A c \in Calls : WF_vars(pc[c] # "idle" /\ CallStep(c))

FairSpec == Spec /\ Fairness

-----------------------------------------------------------------------------
Key == Items \cup {<<"T", t, n>> : t \in 0..MaxNow, n \in {1, 2}}

\* Every variable has its type, and only a call whose transaction is open holds
\* keys.
TypeOK ==
    /\ settled \in Seq(Settlements)
    /\ now \in 0..MaxNow
    /\ rows \subseteq Key
    /\ pc \in [Calls -> {"idle", "done", "dead"} \cup UnderWay]
    /\ listed \in [Calls -> Seq(Settlements)]
    /\ skipped \in [Calls -> SUBSET Settlements]
    /\ due \in [Calls -> SUBSET Key]
    /\ txns \in [Calls -> Seq(Key)]
    /\ pending \in [Calls -> SUBSET Key]
    /\ \A c \in Calls : pending[c] # {} => pc[c] = "insert"
    /\ result \in [Calls -> {"none", "ok", "error"}]

\* A call that returns without error has every row it fetched in the table,
\* those it inserted and those it left to another call: never does it pass over
\* a row for a transaction that is then rolled back, nor report a batch that
\* was not committed.
SuccessIsStored == \A c \in Calls : result[c] = "ok" => due[c] \subseteq rows

\* No two open transactions hold one key, and none holds a key of the table.
KeysHeldOnce ==
    \A c \in Calls :
        /\ pending[c] \cap rows = {}
        /\ \A d \in Calls \ {c} : pending[c] \cap pending[d] = {}

\* Waits for a key never close a cycle: as long as there are transactions, one of
\* them waits for nobody.
SomeoneInserts ==
    (\E c \in Calls : pc[c] = "insert")
    => \E c \in Calls : pc[c] = "insert" /\ (txns[c] # <<>> => ~Waits(c))

\* Every call that has begun ends: two calls that insert the same rows do it in
\* the order of the gateway's list, so waits for a key never close a cycle.
CallsEnd == \A c \in Calls : pc[c] \in UnderWay ~> pc[c] \in {"done", "dead"}

\* README.md:73, "to fetch all payouts for the previous day": a call that
\* returns without error has stored the payments of every settlement it listed.
SuccessIsComplete ==
    \A c \in Calls : result[c] = "ok" =>
        \A s \in skipped[c] : Elems(Wanted(s)) \subseteq rows
=============================================================================

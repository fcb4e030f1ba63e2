----------------------------- MODULE Statement -----------------------------
(***************************************************************************)
(* What the bank feed promises of bank_transactions, without consents,     *)
(* webhooks, the table of sessions and the ways in which any of them can   *)
(* fail.  Setu offers transactions of a session and does not take them     *)
(* back.  A delivery takes up some of what is offered by then, once, and   *)
(* puts each transaction it has taken up into the table at most once.  The *)
(* engine is called with what is in the table.  BankFeed implements this.  *)
(***************************************************************************)
EXTENDS Naturals

CONSTANTS
    Sessions,
    Txns,
    Deliveries,   \* the deliveries there may be of webhooks of sessions
    Of            \* Of[d]: the session a delivery is about

VARIABLES
    offered,      \* what Setu has to give of a session
    waiting,      \* the deliveries that have not taken anything up
    carried,      \* what a delivery has taken up and not put into the table
    rows,         \* how many rows a transaction has
    known         \* the transactions the engine was shown for a session

vars == <<offered, waiting, carried, rows, known>>

Init ==
    /\ offered = [s \in Sessions |-> {}]
    /\ waiting = Deliveries
    /\ carried = [d \in Deliveries |-> {}]
    /\ rows    = [t \in Txns |-> 0]
    /\ known   = [s \in Sessions |-> {}]

Offer(s, T) ==
    /\ offered' = [offered EXCEPT ![s] = @ \cup T]
    /\ UNCHANGED <<waiting, carried, rows, known>>

TakeUp(d, T) ==
    /\ d \in waiting
    /\ T \subseteq offered[Of[d]]
    /\ waiting' = waiting \ {d}
    /\ carried' = [carried EXCEPT ![d] = T]
    /\ UNCHANGED <<offered, rows, known>>

Put(d, t) ==
    /\ t \in carried[d]
    /\ carried' = [carried EXCEPT ![d] = @ \ {t}]
    /\ rows' = [rows EXCEPT ![t] = @ + 1]
    /\ UNCHANGED <<offered, waiting, known>>

\* Deliveries, and what they carry, may be lost.
Lose ==
    /\ waiting' \subseteq waiting
    /\ carried' \in [Deliveries -> SUBSET Txns]
    /\ \A d \in Deliveries : carried'[d] \subseteq carried[d]
    /\ UNCHANGED <<offered, rows, known>>

Reconcile(s) ==
    /\ known' = [known EXCEPT ![s] = @ \cup {t \in Txns : rows[t] > 0}]
    /\ UNCHANGED <<offered, waiting, carried, rows>>

Next ==
    \/ \E s \in Sessions, T \in SUBSET Txns : Offer(s, T)
    \/ \E d \in Deliveries, T \in SUBSET Txns : TakeUp(d, T)
    \/ \E d \in Deliveries, t \in Txns : Put(d, t)
    \/ Lose
    \/ \E s \in Sessions : Reconcile(s)

Spec == Init /\ [][Next]_vars
=============================================================================

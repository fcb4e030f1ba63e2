-------------------------- MODULE VendorSyncProofs --------------------------
(***************************************************************************)
(* The vendor sync, for any gateway, calendar and number of calls.         *)
(*                                                                         *)
(* The lines a settlement contributes are collected by a loop (Wanted).    *)
(* What the loop computes is shown by the least-number principle: a loop   *)
(* over 1..N is a function on 0..N whose values follow from each other,    *)
(* and the first n at which such a function were missing, or were not as   *)
(* claimed, would have a predecessor at which it is.                       *)
(***************************************************************************)
EXTENDS VendorSync, TLAPS, FiniteSetTheorems, NaturalsInduction

-----------------------------------------------------------------------------
(* Loops. *)

\* A set of natural numbers that is not empty has a least element.
LEMMA Least ==
  ASSUME NEW T \in SUBSET Nat, T # {}
  PROVE  \E x \in T : \A y \in T : ~(y < x)
  <1>1. IsWellFoundedOn(OpToRel(<, Nat), Nat)
    BY NatLessThanWellFounded
  <1>2. \E x \in T : \A y \in T : ~(<<y, x>> \in OpToRel(<, Nat))
    BY <1>1, WFMin
  <1> QED
    BY <1>2 DEF OpToRel

\* What holds at 0 and goes on from each number to the next holds up to N.
LEMMA UpTo ==
  ASSUME NEW N \in Nat, NEW T, 0 \in T,
         \A n \in 1..N : n - 1 \in T => n \in T
  PROVE  0..N \subseteq T
  <1> SUFFICES ASSUME (0..N) \ T # {}
               PROVE  FALSE
    OBVIOUS
  <1>1. (0..N) \ T \in SUBSET Nat
    OBVIOUS
  <1>2. PICK x \in (0..N) \ T : \A y \in (0..N) \ T : ~(y < x)
    BY <1>1, Least
  <1>3. x # 0
    BY <1>2
  <1>4. x - 1 \in 0..N /\ x - 1 < x
    BY <1>2, <1>3
  <1>5. x - 1 \in T
    BY <1>2, <1>4
  <1>6. x \in 1..N
    BY <1>2, <1>3
  <1> QED
    BY <1>2, <1>5, <1>6

Loop(f, n, base, step) == f[0] = base /\ \A m \in 1..n : f[m] = step[m][f[m - 1]]

\* A loop over 1..N that starts with base and takes a value to the next by step
\* has a run.
LEMMA LoopRuns ==
  ASSUME NEW N \in Nat, NEW V, NEW base \in V, NEW step \in [1..N -> [V -> V]]
  PROVE  \E f \in [0..N -> V] : Loop(f, N, base, step)
  <1> DEFINE T == {n \in 0..N : \E f \in [0..n -> V] : Loop(f, n, base, step)}
  <1>1. 0 \in T
    <2>1. [i \in 0..0 |-> base] \in [0..0 -> V]
      OBVIOUS
    <2>2. Loop([i \in 0..0 |-> base], 0, base, step)
      BY DEF Loop
    <2> QED
      BY <2>1, <2>2
  <1>2. ASSUME NEW n \in 1..N, n - 1 \in T
        PROVE  n \in T
    <2>1. PICK g \in [0..(n - 1) -> V] : Loop(g, n - 1, base, step)
      BY <1>2
    <2> DEFINE f == [i \in 0..n |-> IF i = n THEN step[n][g[n - 1]] ELSE g[i]]
    <2>2. g[n - 1] \in V
      BY <2>1
    <2>3. step[n][g[n - 1]] \in V
      BY <2>2
    <2>4. f \in [0..n -> V]
      BY <2>3
    <2>5. f[0] = base
      BY <2>1 DEF Loop
    <2>6. ASSUME NEW m \in 1..n
          PROVE  f[m] = step[m][f[m - 1]]
      <3>1. CASE m = n
        BY <3>1
      <3>2. CASE m # n
        <4>1. m \in 1..(n - 1) /\ m \in 0..(n - 1) /\ m - 1 \in 0..(n - 1)
          BY <3>2
        <4>2. f[m] = g[m] /\ f[m - 1] = g[m - 1]
          BY <4>1
        <4> QED
          BY <2>1, <4>1, <4>2 DEF Loop
      <3> QED
        BY <3>1, <3>2
    <2>7. Loop(f, n, base, step)
      BY <2>5, <2>6 DEF Loop
    <2>8. n \in 0..N
      OBVIOUS
    <2> QED
      BY <2>4, <2>7, <2>8
  <1>3. 0..N \subseteq T
    <2> HIDE DEF T
    <2> QED
      BY <1>1, <1>2, UpTo
  <1> QED
    BY <1>3

-----------------------------------------------------------------------------
(* The range of a sequence. *)

\* The range of a sequence of n elements is what it has at 1..n.
LEMMA ElemsAt ==
  ASSUME NEW S, NEW q \in Seq(S)
  PROVE  /\ Elems(q) \subseteq S
         /\ \A e : e \in Elems(q) <=> \E i \in 1..Len(q) : e = q[i]
  BY DEF Elems

\* The range of a sequence to which an element is added has that one more.
LEMMA AppendElems ==
  ASSUME NEW S, NEW q \in Seq(S), NEW e \in S
  PROVE  Append(q, e) \in Seq(S) /\ Elems(Append(q, e)) = Elems(q) \cup {e}
  <1>1. Append(q, e) \in Seq(S) /\ Len(Append(q, e)) = Len(q) + 1 /\ Len(q) \in Nat
    OBVIOUS
  <1>2. \A i \in 1..Len(q) : Append(q, e)[i] = q[i]
    OBVIOUS
  <1>3. Append(q, e)[Len(q) + 1] = e
    OBVIOUS
  <1>4. /\ \A x : x \in Elems(q) <=> \E i \in 1..Len(q) : x = q[i]
        /\ \A x : x \in Elems(Append(q, e)) <=>
                    \E i \in 1..(Len(q) + 1) : x = Append(q, e)[i]
    BY <1>1, ElemsAt
  <1>5. \A i \in 1..(Len(q) + 1) : i \in 1..Len(q) \/ i = Len(q) + 1
    BY <1>1
  <1>6. Len(q) + 1 \in 1..(Len(q) + 1) /\ 1..Len(q) \subseteq 1..(Len(q) + 1)
    BY <1>1
  <1> QED
    BY <1>1, <1>2, <1>3, <1>4, <1>5, <1>6

\* That of two sequences one after the other is the range of both.
LEMMA ConcatElems ==
  ASSUME NEW S, NEW p \in Seq(S), NEW q \in Seq(S)
  PROVE  p \o q \in Seq(S) /\ Elems(p \o q) = Elems(p) \cup Elems(q)
  <1>1. /\ p \o q \in Seq(S)
        /\ Len(p \o q) = Len(p) + Len(q)
        /\ Len(p) \in Nat /\ Len(q) \in Nat
    OBVIOUS
  <1>2. \A i \in 1..Len(p) : (p \o q)[i] = p[i]
    OBVIOUS
  <1>3. \A i \in 1..Len(q) : (p \o q)[Len(p) + i] = q[i]
    OBVIOUS
  <1> /\ \A x : x \in Elems(p) <=> \E i \in 1..Len(p) : x = p[i]
      /\ \A x : x \in Elems(q) <=> \E i \in 1..Len(q) : x = q[i]
      /\ \A x : x \in Elems(p \o q) <=> \E i \in 1..Len(p \o q) : x = (p \o q)[i]
    BY <1>1, ElemsAt
  <1>4. ASSUME NEW i \in 1..Len(p \o q)
        PROVE  (p \o q)[i] \in Elems(p) \cup Elems(q)
    <2>1. CASE i <= Len(p)
      BY <1>1, <1>2, <2>1
    <2>2. CASE i > Len(p)
      <3>1. i - Len(p) \in 1..Len(q) /\ i = Len(p) + (i - Len(p))
        BY <1>1, <2>2
      <3>2. (p \o q)[i] = q[i - Len(p)]
        BY <1>3, <3>1
      <3> QED
        BY <3>1, <3>2
    <2> QED
      BY <1>1, <2>1, <2>2
  <1>5. \A x \in Elems(p) : x \in Elems(p \o q)
    BY <1>1, <1>2
  <1>6. ASSUME NEW i \in 1..Len(q)
        PROVE  q[i] \in Elems(p \o q)
    <2>1. Len(p) + i \in 1..Len(p \o q)
      BY <1>1
    <2> QED
      BY <1>1, <1>3, <2>1
  <1>7. \A x \in Elems(q) : x \in Elems(p \o q)
    BY <1>6
  <1>8. \A x \in Elems(p \o q) : x \in Elems(p) \cup Elems(q)
    BY <1>1, <1>4
  <1> QED
    BY <1>1, <1>5, <1>7, <1>8

\* A sequence that is not empty is its head and its tail.
LEMMA TailElems ==
  ASSUME NEW S, NEW q \in Seq(S), q # <<>>
  PROVE  /\ Head(q) \in S
         /\ Tail(q) \in Seq(S)
         /\ Elems(q) = {Head(q)} \cup Elems(Tail(q))
  <1>1. /\ Len(q) \in Nat \ {0}
        /\ Head(q) = q[1]
        /\ Tail(q) \in Seq(S)
        /\ Len(Tail(q)) = Len(q) - 1
    OBVIOUS
  <1>2. \A i \in 1..(Len(q) - 1) : Tail(q)[i] = q[i + 1]
    OBVIOUS
  <1> \A x : x \in Elems(q) <=> \E i \in 1..Len(q) : x = q[i]
    BY ElemsAt
  <1> \A x : x \in Elems(Tail(q)) <=> \E i \in 1..Len(Tail(q)) : x = Tail(q)[i]
    <2>1. Tail(q) \in Seq(S)
      BY <1>1
    <2> QED
      BY <2>1, ElemsAt
  <1>3. Head(q) \in S /\ Head(q) \in Elems(q)
    BY <1>1
  <1>4. ASSUME NEW i \in 1..Len(q)
        PROVE  q[i] \in {Head(q)} \cup Elems(Tail(q))
    <2>1. CASE i # 1
      <3>1. i - 1 \in 1..(Len(q) - 1) /\ (i - 1) + 1 = i
        BY <1>1, <2>1
      <3>2. Tail(q)[i - 1] = q[i]
        BY <1>2, <3>1
      <3> QED
        BY <1>1, <3>1, <3>2
    <2> QED
      BY <1>1, <2>1
  <1>5. ASSUME NEW i \in 1..Len(Tail(q))
        PROVE  Tail(q)[i] \in Elems(q)
    <2>1. i + 1 \in 1..Len(q) /\ i \in 1..(Len(q) - 1)
      BY <1>1
    <2> QED
      BY <1>2, <2>1
  <1>6. \A x \in Elems(q) : x \in {Head(q)} \cup Elems(Tail(q))
    BY <1>4
  <1>7. \A x \in Elems(Tail(q)) : x \in Elems(q)
    BY <1>1, <1>5
  <1> QED
    BY <1>1, <1>3, <1>6, <1>7

-----------------------------------------------------------------------------
(* The lines of a settlement. *)

Kept(s, n) == {Lines[s][m] : m \in {m \in 1..n : Kind[Lines[s][m]] \in {"payment", "refund"}}}

Collects(s, f) ==
    f = [n \in 0..Len(Lines[s]) |->
            IF n = 0 THEN <<>>
            ELSE IF Kind[Lines[s][n]] \in {"payment", "refund"}
                 THEN Append(f[n - 1], Lines[s][n])
                 ELSE f[n - 1]]

\* Wanted is the last value of a loop over the lines.
LEMMA WantedLoops ==
  ASSUME NEW s \in Settlements
  PROVE  \E f : Collects(s, f) /\ Wanted(s) = f[Len(Lines[s])]
  <1> DEFINE N == Len(Lines[s])
  <1> DEFINE step == [n \in 1..N |-> [v \in Seq(Items) |->
                          IF Kind[Lines[s][n]] \in {"payment", "refund"}
                          THEN Append(v, Lines[s][n]) ELSE v]]
  <1>1. Lines[s] \in Seq(Items)
    BY GatewayAssumption
  <1>2. N \in Nat /\ \A n \in 1..N : Lines[s][n] \in Items
    BY <1>1
  <1>3. step \in [1..N -> [Seq(Items) -> Seq(Items)]]
    BY <1>2
  <1>4. <<>> \in Seq(Items)
    OBVIOUS
  <1>5. PICK f \in [0..N -> Seq(Items)] : Loop(f, N, <<>>, step)
    <2> HIDE DEF N, step
    <2> QED
      BY <1>2, <1>3, <1>4, LoopRuns
  <1>6. f[0] = <<>>
    BY <1>5 DEF Loop
  <1>7. ASSUME NEW n \in 1..N
        PROVE  f[n] = IF Kind[Lines[s][n]] \in {"payment", "refund"}
                      THEN Append(f[n - 1], Lines[s][n]) ELSE f[n - 1]
    <2>1. f[n - 1] \in Seq(Items)
      BY <1>2, <1>5
    <2>2. f[n] = step[n][f[n - 1]]
      BY <1>5 DEF Loop
    <2> QED
      BY <2>1, <2>2
  <1>8. Collects(s, f)
    <2> HIDE DEF step
    <2>1. ASSUME NEW n \in 0..N
          PROVE  f[n] = IF n = 0 THEN <<>>
                        ELSE IF Kind[Lines[s][n]] \in {"payment", "refund"}
                             THEN Append(f[n - 1], Lines[s][n])
                             ELSE f[n - 1]
      <3>1. CASE n = 0
        BY <1>6, <3>1
      <3>2. CASE n # 0
        <4>1. n \in 1..N
          BY <1>2, <3>2
        <4> QED
          BY <1>7, <3>2, <4>1
      <3> QED
        BY <3>1, <3>2
    <2> QED
      BY <1>5, <2>1, Zenon DEF Collects
  <1>9. Collects(s, CHOOSE g : Collects(s, g))
    BY <1>8
  <1>10. Wanted(s) = (CHOOSE g : Collects(s, g))[Len(Lines[s])]
    BY Zenon DEF Wanted, Collects
  <1> QED
    BY <1>9, <1>10

\* The loop over the lines of a settlement collects its payments and its refunds,
\* and nothing else (client.go:129-145).
THEOREM WantedLines ==
  ASSUME NEW s \in Settlements
  PROVE  /\ Wanted(s) \in Seq(Items)
         /\ Elems(Wanted(s)) = {i \in Elems(Lines[s]) : Kind[i] \in {"payment", "refund"}}
  <1> DEFINE N == Len(Lines[s])
  <1>1. Lines[s] \in Seq(Items)
    BY GatewayAssumption
  <1>2. N \in Nat /\ \A n \in 1..N : Lines[s][n] \in Items
    BY <1>1
  <1>3. PICK f : Collects(s, f) /\ Wanted(s) = f[N]
    BY WantedLoops
  <1> DEFINE T == {n \in 0..N : f[n] \in Seq(Items) /\ Elems(f[n]) = Kept(s, n)}
  <1>4. 0 \in T
    <2>1. f[0] = <<>>
      BY <1>2, <1>3 DEF Collects
    <2>2. Kept(s, 0) = {}
      BY DEF Kept
    <2>3. <<>> \in Seq(Items) /\ Elems(<<>>) = {}
      BY DEF Elems
    <2>4. f[0] \in Seq(Items) /\ Elems(f[0]) = Kept(s, 0)
      BY <2>1, <2>2, <2>3, Zenon
    <2>5. 0 \in 0..N
      BY <1>2
    <2> QED
      BY <2>4, <2>5, Zenon
  <1>5. ASSUME NEW n \in 1..N, n - 1 \in T
        PROVE  n \in T
    <2>1. f[n] = IF Kind[Lines[s][n]] \in {"payment", "refund"}
                 THEN Append(f[n - 1], Lines[s][n]) ELSE f[n - 1]
      <3>1. n \in 0..N /\ n # 0
        BY <1>2
      <3> QED
        BY <1>3, <3>1, Zenon DEF Collects
    <2>2. f[n - 1] \in Seq(Items) /\ Elems(f[n - 1]) = Kept(s, n - 1)
      BY <1>5
    <2>3. CASE Kind[Lines[s][n]] \in {"payment", "refund"}
      <3>1. f[n] = Append(f[n - 1], Lines[s][n])
        BY <2>1, <2>3
      <3>2. f[n] \in Seq(Items) /\ Elems(f[n]) = Elems(f[n - 1]) \cup {Lines[s][n]}
        BY <1>2, <2>2, <3>1, AppendElems
      <3>3. Kept(s, n) = Kept(s, n - 1) \cup {Lines[s][n]}
        BY <1>2, <2>3 DEF Kept
      <3>4. Elems(f[n]) = Kept(s, n)
        BY <2>2, <3>2, <3>3
      <3> QED
        BY <1>2, <3>2, <3>4
    <2>4. CASE Kind[Lines[s][n]] \notin {"payment", "refund"}
      <3>1. f[n] = f[n - 1]
        BY <2>1, <2>4
      <3>2. Kept(s, n) = Kept(s, n - 1)
        BY <1>2, <2>4 DEF Kept
      <3> QED
        BY <2>2, <3>1, <3>2
    <2> QED
      BY <2>3, <2>4
  <1>6. N \in T
    <2> HIDE DEF T
    <2>1. 0..N \subseteq T
      BY <1>2, <1>4, <1>5, UpTo
    <2> QED
      BY <1>2, <2>1
  <1>7. Kept(s, N) = {i \in Elems(Lines[s]) : Kind[i] \in {"payment", "refund"}}
    BY <1>1 DEF Kept, Elems
  <1> QED
    BY <1>3, <1>6, <1>7

-----------------------------------------------------------------------------
(* The invariant. *)

\* A call has nothing at first, and the first row of the sandbox when it has asked
\* for that alone; what it has fetched is on its list until its transaction
\* begins; from then on, on its list, among the keys it holds or in the table; and
\* it holds keys in that transaction only.
BatchOk ==
    \A c \in Calls :
        /\ pc[c] = "idle" => due[c] = {} /\ txns[c] = <<>>
        /\ pc[c] = "mock" => \E t \in 0..MaxNow : txns[c] = << <<"T", t, 1>> >>
        /\ pc[c] \in {"mock", "fetch"} => due[c] = Elems(txns[c])
        /\ pc[c] = "insert" => due[c] \subseteq Elems(txns[c]) \cup pending[c] \cup rows
        /\ pc[c] # "insert" => pending[c] = {}
        /\ result[c] # "none" => pc[c] = "done"

IInv == TypeOK /\ BatchOk /\ KeysHeldOnce /\ SuccessIsStored

\* The keys do not depend on the state.
LEMMA KeysAreConstant == Key' = Key
  BY DEF Key

\* Nothing is listed, held or stored in the beginning.
LEMMA InitIInv == Init => IInv
  <1> SUFFICES ASSUME Init
               PROVE  IInv
    OBVIOUS
  <1>1. MaxNow \in Nat
    BY GatewayAssumption
  <1>2. TypeOK
    BY <1>1 DEF Init, TypeOK
  <1>3. BatchOk
    BY DEF Init, BatchOk, Elems
  <1>4. KeysHeldOnce /\ SuccessIsStored
    BY DEF Init, KeysHeldOnce, SuccessIsStored
  <1> QED
    BY <1>2, <1>3, <1>4 DEF IInv

\* A step that leaves the table alone, and every call either alone or without a
\* transaction and a list: all the ways a call ends but by a COMMIT.
LEMMA ReleaseKeeps ==
  ASSUME IInv, rows' = rows, due' = due,
         \A d \in Calls :
            \/ /\ pc'[d] = pc[d]
               /\ txns'[d] = txns[d]
               /\ pending'[d] = pending[d]
               /\ result'[d] = result[d]
            \/ /\ pc'[d] \notin {"idle", "mock", "fetch", "insert"}
               /\ pending'[d] = {}
               /\ \/ result'[d] = result[d] /\ pc[d] # "done"
                  \/ result'[d] = "error" /\ pc'[d] = "done"
  PROVE  BatchOk' /\ KeysHeldOnce' /\ SuccessIsStored'
  <1>1. BatchOk'
    BY DEF IInv, BatchOk
  <1>2. KeysHeldOnce'
    BY DEF IInv, KeysHeldOnce
  <1>3. SuccessIsStored'
    BY DEF IInv, SuccessIsStored
  <1> QED
    BY <1>1, <1>2, <1>3

\* Whatever a call returns, its variables keep their types.
LEMMA ReturnTypes ==
  ASSUME TypeOK, NEW c \in Calls, NEW res \in {"ok", "error"}, Return(c, res),
         UNCHANGED <<settled, now, skipped, due>>, rows' \subseteq Key
  PROVE  TypeOK'
  BY KeysAreConstant DEF TypeOK, Return, UnderWay

\* The gateway and the clock.
LEMMA OutsideKeeps ==
  ASSUME IInv, (\E s \in Settlements : Settle(s)) \/ Tick \/ UNCHANGED vars
  PROVE  IInv'
  <1>1. UNCHANGED <<rows, callVars>>
    BY DEF Settle, Tick, vars, callVars
  <1>2. TypeOK'
    <2>1. settled' \in Seq(Settlements)
      <3>1. settled \in Seq(Settlements)
        BY DEF IInv, TypeOK
      <3>2. ASSUME NEW s \in Settlements, Settle(s)
            PROVE  settled' \in Seq(Settlements)
        BY <3>1, <3>2, AppendElems DEF Settle
      <3>3. CASE settled' = settled
        BY <3>1, <3>3
      <3> QED
        BY <3>2, <3>3 DEF Tick, vars
    <2>2. now' \in 0..MaxNow
      BY GatewayAssumption DEF IInv, TypeOK, Settle, Tick, vars
    <2> QED
      BY <1>1, <2>1, <2>2, KeysAreConstant DEF IInv, TypeOK, callVars
  <1> QED
    BY <1>1, <1>2 DEF IInv, BatchOk, KeysHeldOnce, SuccessIsStored, callVars

\* The requests for the settlements and for the sandbox rows.
LEMMA ListKeeps ==
  ASSUME IInv, NEW c \in Calls, ListSettlements(c)
  PROVE  IInv'
  <1>1. TypeOK'
    BY KeysAreConstant DEF IInv, TypeOK, ListSettlements, Listing, UnderWay
  <1>2. BatchOk' /\ KeysHeldOnce' /\ SuccessIsStored'
    BY DEF IInv, TypeOK, BatchOk, KeysHeldOnce, SuccessIsStored, ListSettlements, Elems
  <1> QED
    BY <1>1, <1>2 DEF IInv

LEMMA MockKeeps ==
  ASSUME IInv, NEW c \in Calls, FetchMock(c)
  PROVE  IInv'
  <1>1. now \in 0..MaxNow /\ MockId(1) = <<"T", now, 1>>
    BY DEF IInv, TypeOK, MockId
  <1>2. MockId(1) \in Key
    BY <1>1 DEF Key
  <1>3. <<MockId(1)>> \in Seq(Key) /\ Elems(<<MockId(1)>>) = {MockId(1)}
    <2>1. ASSUME NEW k
          PROVE  Elems(<<k>>) = {k}
      BY DEF Elems
    <2> QED
      BY <1>2, <2>1
  <1>4. /\ pc[c] = "idle"
        /\ pc'   = [pc EXCEPT ![c] = "mock"]
        /\ txns' = [txns EXCEPT ![c] = <<MockId(1)>>]
        /\ due'  = [due EXCEPT ![c] = {MockId(1)}]
        /\ UNCHANGED <<settled, now, rows, listed, skipped, pending, result>>
    BY DEF FetchMock
  <1>5. TypeOK'
    BY <1>2, <1>3, <1>4, KeysAreConstant DEF IInv, TypeOK, UnderWay
  <1>6. BatchOk'
    <2>1. /\ pc'[c] = "mock" /\ txns'[c] = << <<"T", now, 1>> >>
          /\ due'[c] = Elems(txns'[c]) /\ pending'[c] = {} /\ result'[c] = "none"
      BY <1>1, <1>3, <1>4 DEF IInv, TypeOK, BatchOk
    <2>2. \A d \in Calls \ {c} :
             /\ pc'[d] = pc[d] /\ txns'[d] = txns[d] /\ due'[d] = due[d]
             /\ pending'[d] = pending[d] /\ result'[d] = result[d] /\ rows' = rows
      BY <1>4 DEF IInv, TypeOK
    <2> QED
      BY <1>1, <2>1, <2>2 DEF IInv, BatchOk
  <1>7. KeysHeldOnce' /\ SuccessIsStored'
    BY <1>4 DEF IInv, TypeOK, BatchOk, KeysHeldOnce, SuccessIsStored
  <1> QED
    BY <1>5, <1>6, <1>7 DEF IInv

LEMMA AppendMockKeeps ==
  ASSUME IInv, NEW c \in Calls, AppendMock(c)
  PROVE  IInv'
  <1>1. MockId(2) \in Key
    BY DEF IInv, TypeOK, Key, MockId
  <1>2. /\ pc[c] = "mock"
        /\ pc'   = [pc EXCEPT ![c] = "fetch"]
        /\ txns' = [txns EXCEPT ![c] = Append(txns[c], MockId(2))]
        /\ due'  = [due EXCEPT ![c] = due[c] \cup {MockId(2)}]
        /\ UNCHANGED <<settled, now, rows, listed, skipped, pending, result>>
    BY DEF AppendMock
  <1>3. /\ Append(txns[c], MockId(2)) \in Seq(Key)
        /\ Elems(Append(txns[c], MockId(2))) = Elems(txns[c]) \cup {MockId(2)}
    <2>1. txns[c] \in Seq(Key)
      BY DEF IInv, TypeOK
    <2> QED
      BY <1>1, <2>1, AppendElems
  <1>4. TypeOK'
    BY <1>1, <1>2, <1>3, KeysAreConstant DEF IInv, TypeOK, UnderWay
  <1>5. BatchOk'
    <2>1. due[c] = Elems(txns[c])
      BY <1>2 DEF IInv, BatchOk
    <2>2. /\ pc'[c] = "fetch" /\ due'[c] = Elems(txns'[c])
          /\ pending'[c] = {} /\ result'[c] = "none"
      BY <1>2, <1>3, <2>1 DEF IInv, TypeOK, BatchOk
    <2>3. \A d \in Calls \ {c} :
             /\ pc'[d] = pc[d] /\ txns'[d] = txns[d] /\ due'[d] = due[d]
             /\ pending'[d] = pending[d] /\ result'[d] = result[d] /\ rows' = rows
      BY <1>2 DEF IInv, TypeOK
    <2> QED
      BY <2>2, <2>3 DEF IInv, BatchOk
  <1>6. KeysHeldOnce' /\ SuccessIsStored'
    BY <1>2 DEF IInv, TypeOK, BatchOk, KeysHeldOnce, SuccessIsStored
  <1> QED
    BY <1>4, <1>5, <1>6 DEF IInv

\* The request for the lines of a settlement, answered or not.
LEMMA ReconKeeps ==
  ASSUME IInv, NEW c \in Calls, FetchRecon(c)
  PROVE  IInv'
  <1> DEFINE s == Head(listed[c])
  <1>1. /\ pc[c] = "fetch"
        /\ listed' = [listed EXCEPT ![c] = Tail(listed[c])]
        /\ UNCHANGED <<settled, now, rows, pc, pending, result>>
    BY DEF FetchRecon
  <1>2. s \in Settlements /\ Tail(listed[c]) \in Seq(Settlements)
    <2>1. listed[c] \in Seq(Settlements) /\ listed[c] # <<>>
      BY DEF IInv, TypeOK, FetchRecon
    <2> QED
      BY <2>1
  <1>3. CASE /\ txns' = [txns EXCEPT ![c] = @ \o Wanted(s)]
             /\ due'  = [due EXCEPT ![c] = @ \cup Elems(Wanted(s))]
             /\ UNCHANGED skipped
    <2>1. Wanted(s) \in Seq(Key)
      BY <1>2, WantedLines DEF Key
    <2>2. txns[c] \in Seq(Key)
      BY DEF IInv, TypeOK
    <2>3. /\ txns[c] \o Wanted(s) \in Seq(Key)
          /\ Elems(txns[c] \o Wanted(s)) = Elems(txns[c]) \cup Elems(Wanted(s))
      BY <2>1, <2>2, ConcatElems
    <2>4. Elems(Wanted(s)) \subseteq Key
      BY <2>1, ElemsAt
    <2> HIDE DEF s
    <2>5. TypeOK'
      BY <1>1, <1>2, <1>3, <2>3, <2>4, KeysAreConstant DEF IInv, TypeOK
    <2>6. BatchOk'
      BY <1>1, <1>3, <2>3 DEF IInv, TypeOK, BatchOk
    <2>7. KeysHeldOnce'
      BY <1>1 DEF IInv, KeysHeldOnce
    <2>8. SuccessIsStored'
      BY <1>1, <1>3 DEF IInv, TypeOK, BatchOk, SuccessIsStored
    <2> QED
      BY <2>5, <2>6, <2>7, <2>8 DEF IInv
  <1>4. CASE /\ skipped' = [skipped EXCEPT ![c] = @ \cup {s}]
             /\ UNCHANGED <<txns, due>>
    <2> HIDE DEF s
    <2>1. TypeOK'
      BY <1>1, <1>2, <1>4, KeysAreConstant DEF IInv, TypeOK
    <2> QED
      BY <1>1, <1>4, <2>1 DEF IInv, BatchOk, KeysHeldOnce, SuccessIsStored
  <1> QED
    BY <1>3, <1>4 DEF FetchRecon

\* A call with nothing to store succeeds; another opens its transaction.
LEMMA BeginKeeps ==
  ASSUME IInv, NEW c \in Calls, Begin(c)
  PROVE  IInv'
  <1>1. pc[c] = "fetch" /\ UNCHANGED <<settled, now, rows, skipped, due>>
    BY DEF Begin
  <1>2. CASE txns[c] = <<>> /\ Return(c, "ok")
    <2>1. TypeOK'
      BY <1>1, <1>2, ReturnTypes DEF IInv, TypeOK
    <2>2. due[c] = {}
      BY <1>1, <1>2 DEF IInv, BatchOk, Elems
    <2>3. /\ pc' = [pc EXCEPT ![c] = "done"]
          /\ txns' = [txns EXCEPT ![c] = <<>>]
          /\ pending' = [pending EXCEPT ![c] = {}]
          /\ result' = [result EXCEPT ![c] = "ok"]
      BY <1>2 DEF Return
    <2>4. BatchOk' /\ KeysHeldOnce'
      BY <1>1, <2>3 DEF IInv, TypeOK, BatchOk, KeysHeldOnce
    <2>5. SuccessIsStored'
      BY <1>1, <2>2, <2>3 DEF IInv, TypeOK, SuccessIsStored
    <2> QED
      BY <2>1, <2>4, <2>5 DEF IInv
  <1>3. CASE /\ pc' = [pc EXCEPT ![c] = "insert"]
             /\ UNCHANGED <<listed, txns, pending, result>>
    <2>1. TypeOK'
      BY <1>1, <1>3, KeysAreConstant DEF IInv, TypeOK, UnderWay, InTxn
    <2> QED
      BY <1>1, <1>3, <2>1 DEF IInv, TypeOK, BatchOk, KeysHeldOnce, SuccessIsStored
  <1> QED
    BY <1>2, <1>3 DEF Begin

\* A row is inserted, passed over for one that is committed, or refused.
LEMMA InsertKeeps ==
  ASSUME IInv, NEW c \in Calls, Insert(c)
  PROVE  IInv'
  <1> DEFINE k == Head(txns[c])
  <1>1. /\ pc[c] = "insert"
        /\ \A d \in Calls \ {c} : k \notin pending[d]
        /\ UNCHANGED <<settled, now, rows, listed, skipped, due, result>>
    BY DEF Insert, Waits
  <1>2. k \in Key /\ Tail(txns[c]) \in Seq(Key) /\ Elems(txns[c]) = {k} \cup Elems(Tail(txns[c]))
    <2>1. txns[c] \in Seq(Key) /\ txns[c] # <<>>
      BY DEF IInv, TypeOK, Insert
    <2> QED
      BY <2>1, TailElems
  <1>3. CASE /\ txns'    = [txns EXCEPT ![c] = Tail(@)]
             /\ pending' = [pending EXCEPT ![c] = IF k \in rows THEN @ ELSE @ \cup {k}]
             /\ UNCHANGED pc
    <2> HIDE DEF k
    <2>1. TypeOK'
      BY <1>1, <1>2, <1>3, KeysAreConstant DEF IInv, TypeOK
    <2>2. BatchOk'
      <3>1. /\ txns \in [Calls -> Seq(Key)] /\ pending \in [Calls -> SUBSET Key]
            /\ due[c] \subseteq Elems(txns[c]) \cup pending[c] \cup rows
            /\ result[c] = "none"
        BY <1>1 DEF IInv, TypeOK, BatchOk
      <3>2. due[c] \subseteq Elems(txns'[c]) \cup pending'[c] \cup rows
        BY <1>2, <1>3, <3>1
      <3>3. \A d \in Calls \ {c} : txns'[d] = txns[d] /\ pending'[d] = pending[d]
        BY <1>3, <3>1
      <3> SUFFICES ASSUME NEW d \in Calls
                   PROVE  BatchOk!(d)'
        BY DEF BatchOk
      <3>4. CASE d = c
        BY <1>1, <1>3, <3>1, <3>2, <3>4
      <3>5. CASE d # c
        BY <1>1, <1>3, <3>3, <3>5 DEF IInv, BatchOk
      <3> QED
        BY <3>4, <3>5
    <2>3. KeysHeldOnce'
      BY <1>1, <1>3 DEF IInv, TypeOK, KeysHeldOnce
    <2>4. SuccessIsStored'
      BY <1>1 DEF IInv, SuccessIsStored
    <2> QED
      BY <2>1, <2>2, <2>3, <2>4 DEF IInv
  <1>4. CASE /\ pc'      = [pc EXCEPT ![c] = "aborted"]
             /\ txns'    = [txns EXCEPT ![c] = <<>>]
             /\ pending' = [pending EXCEPT ![c] = {}]
    <2>1. TypeOK'
      BY <1>1, <1>4, KeysAreConstant DEF IInv, TypeOK, UnderWay, InTxn
    <2>2. BatchOk' /\ KeysHeldOnce' /\ SuccessIsStored'
      BY <1>1, <1>4, ReleaseKeeps DEF IInv, TypeOK
    <2> QED
      BY <2>1, <2>2 DEF IInv
  <1> QED
    BY <1>3, <1>4 DEF Insert

\* A COMMIT puts all the call still holds into the table.
LEMMA CommitKeeps ==
  ASSUME IInv, NEW c \in Calls, Commit(c)
  PROVE  IInv'
  <1>1. /\ pc[c] = "insert" /\ txns[c] = <<>>
        /\ rows' = rows \cup pending[c]
        /\ UNCHANGED <<settled, now, skipped, due>>
        /\ Return(c, "ok")
    BY DEF Commit
  <1>2. TypeOK'
    BY <1>1, ReturnTypes DEF IInv, TypeOK
  <1>3. due[c] \subseteq rows'
    BY <1>1 DEF IInv, BatchOk, Elems
  <1>4. /\ pc' = [pc EXCEPT ![c] = "done"]
        /\ txns' = [txns EXCEPT ![c] = <<>>]
        /\ pending' = [pending EXCEPT ![c] = {}]
        /\ result' = [result EXCEPT ![c] = "ok"]
    BY <1>1 DEF Return
  <1>5. BatchOk'
    BY <1>1, <1>4 DEF IInv, TypeOK, BatchOk
  <1>6. KeysHeldOnce'
    BY <1>1, <1>4 DEF IInv, TypeOK, KeysHeldOnce
  <1>7. SuccessIsStored'
    BY <1>1, <1>3, <1>4 DEF IInv, TypeOK, SuccessIsStored
  <1> QED
    BY <1>2, <1>5, <1>6, <1>7 DEF IInv

\* A call that returns an error, and a process that stops, leave nothing behind.
LEMMA FailKeeps ==
  ASSUME IInv, NEW c \in Calls, CommitFails(c) \/ Fail(c)
  PROVE  IInv'
  <1>1. Return(c, "error") /\ UNCHANGED <<settled, now, rows, skipped, due>>
    BY DEF CommitFails, Fail
  <1>2. TypeOK'
    BY <1>1, ReturnTypes DEF IInv, TypeOK
  <1>3. /\ pc' = [pc EXCEPT ![c] = "done"]
        /\ txns' = [txns EXCEPT ![c] = <<>>]
        /\ pending' = [pending EXCEPT ![c] = {}]
        /\ result' = [result EXCEPT ![c] = "error"]
    BY <1>1 DEF Return
  <1>4. BatchOk' /\ KeysHeldOnce' /\ SuccessIsStored'
    BY <1>1, <1>3, ReleaseKeeps DEF IInv, TypeOK
  <1> QED
    BY <1>2, <1>4 DEF IInv

LEMMA CrashKeeps ==
  ASSUME IInv, Crash
  PROVE  IInv'
  <1>1. UNCHANGED <<settled, now, rows, skipped, due, result>>
    BY DEF Crash
  <1>2. TypeOK'
    BY <1>1, KeysAreConstant DEF IInv, TypeOK, Crash, UnderWay
  <1>3. \A d \in Calls :
           /\ pending'[d] = {}
           /\ \/ pc'[d] = "dead" /\ pc[d] # "done"
              \/ pc'[d] = pc[d] /\ pc[d] \notin {"mock", "fetch", "insert", "aborted"}
           /\ txns'[d] = <<>>
    BY DEF Crash, UnderWay, InTxn
  <1>4. BatchOk'
    BY <1>1, <1>3 DEF IInv, BatchOk
  <1>5. KeysHeldOnce' /\ SuccessIsStored'
    BY <1>1, <1>3 DEF IInv, KeysHeldOnce, SuccessIsStored
  <1> QED
    BY <1>2, <1>4, <1>5 DEF IInv

\* Every step keeps the invariant.
LEMMA NextIInv ==
  ASSUME IInv, [Next]_vars
  PROVE  IInv'
  BY OutsideKeeps, ListKeeps, MockKeeps, AppendMockKeeps, ReconKeeps, BeginKeeps, InsertKeeps, CommitKeeps,
     FailKeeps, CrashKeeps
  DEF Next, CallStep, Quiesced

LEMMA Invariance == Spec => []IInv
  <1>1. IInv /\ [Next]_vars => IInv'
    BY NextIInv
  <1> QED
    BY InitIInv, <1>1, PTL DEF Spec

-----------------------------------------------------------------------------
(* The theorems. *)

\* Every reachable state of VendorSync is well typed: what is in the table and in
\* every transaction is a line the gateway gave or an id made of the clock.
THEOREM TypeCorrect == Spec => []TypeOK
  <1>1. IInv => TypeOK
    BY DEF IInv
  <1> QED
    BY Invariance, <1>1, PTL

\* A call that returns without error has every row it fetched in the table
\* (sync.go:36-69), however many calls insert the same rows and whatever becomes
\* of the others.
THEOREM SuccessStored == Spec => []SuccessIsStored
  <1>1. IInv => SuccessIsStored
    BY DEF IInv
  <1> QED
    BY Invariance, <1>1, PTL

\* No key is held by two open transactions, or held and in the table (the unique
\* index on vendor_integration_id and vendor_txn_id).
THEOREM HeldOnce == Spec => []KeysHeldOnce
  <1>1. IInv => KeysHeldOnce
    BY DEF IInv
  <1> QED
    BY Invariance, <1>1, PTL
-----------------------------------------------------------------------------
(* The order of the keys. *)

\* q holds some of the first n lines of s, in their order.
Rises(q, s, n) ==
    /\ \A m \in 1..Len(q) : \E i \in 1..n : q[m] = Lines[s][i]
    /\ \A l, m \in 1..Len(q) : l < m =>
          \E i, j \in 1..n : i < j /\ q[l] = Lines[s][i] /\ q[m] = Lines[s][j]

LEMMA AppendRises ==
  ASSUME NEW s \in Settlements, NEW n \in 1..Len(Lines[s]), NEW q \in Seq(Items),
         Rises(q, s, n - 1)
  PROVE  /\ Rises(q, s, n)
         /\ Rises(Append(q, Lines[s][n]), s, n)
  <1> DEFINE e == Lines[s][n]
  <1>1. Lines[s] \in Seq(Items)
    BY GatewayAssumption
  <1>2. n \in Nat /\ n - 1 \in Nat /\ 1..(n - 1) \subseteq 1..n /\ n \in 1..n /\ e \in Items
    BY <1>1
  <1>3. Rises(q, s, n)
    <2>1. \A m \in 1..Len(q) : \E i \in 1..(n - 1) : q[m] = Lines[s][i]
      BY DEF Rises
    <2>2. \A l, m \in 1..Len(q) : l < m =>
             \E i, j \in 1..(n - 1) : i < j /\ q[l] = Lines[s][i] /\ q[m] = Lines[s][j]
      BY DEF Rises
    <2>3. 1..(n - 1) \subseteq 1..n
      BY <1>2
    <2>4. \A m \in 1..Len(q) : \E i \in 1..n : q[m] = Lines[s][i]
      BY <2>1, <2>3
    <2>5. ASSUME NEW l \in 1..Len(q), NEW m \in 1..Len(q), l < m
          PROVE  \E i, j \in 1..n : i < j /\ q[l] = Lines[s][i] /\ q[m] = Lines[s][j]
      <3>1. PICK i, j \in 1..(n - 1) : i < j /\ q[l] = Lines[s][i] /\ q[m] = Lines[s][j]
        BY <2>2, <2>5
      <3>2. i \in 1..n /\ j \in 1..n
        BY <2>3
      <3> QED
        BY <3>1, <3>2
    <2> QED
      BY <2>4, <2>5 DEF Rises
  <1>4. /\ Len(Append(q, e)) = Len(q) + 1 /\ Len(q) \in Nat
        /\ \A m \in 1..Len(q) : Append(q, e)[m] = q[m]
        /\ Append(q, e)[Len(q) + 1] = e
    BY <1>2
  <1> HIDE DEF e
  <1>5. ASSUME NEW m \in 1..Len(Append(q, e))
        PROVE  \E i \in 1..n : Append(q, e)[m] = Lines[s][i]
    <2>1. m \in 1..Len(q) \/ m = Len(q) + 1
      BY <1>4
    <2> QED
      BY <1>2, <1>3, <1>4, <2>1 DEF Rises, e
  <1>6. ASSUME NEW l \in 1..Len(Append(q, e)), NEW m \in 1..Len(Append(q, e)), l < m
        PROVE  \E i, j \in 1..n : i < j /\ Append(q, e)[l] = Lines[s][i]
                                        /\ Append(q, e)[m] = Lines[s][j]
    <2>1. l \in 1..Len(q) /\ (m \in 1..Len(q) \/ m = Len(q) + 1)
      BY <1>4, <1>6
    <2>2. CASE m \in 1..Len(q)
      BY <1>3, <1>4, <1>6, <2>1, <2>2 DEF Rises
    <2>3. CASE m = Len(q) + 1
      <3>1. PICK i \in 1..(n - 1) : q[l] = Lines[s][i]
        BY <2>1 DEF Rises
      <3>2. i \in 1..n /\ i < n
        BY <1>2, <3>1
      <3> QED
        BY <1>2, <1>4, <2>1, <2>3, <3>1, <3>2 DEF e
    <2> QED
      BY <2>1, <2>2, <2>3
  <1> QED
    BY <1>3, <1>5, <1>6 DEF Rises, e

\* The loop over the lines of a settlement keeps their order.
LEMMA WantedRises ==
  ASSUME NEW s \in Settlements
  PROVE  Rises(Wanted(s), s, Len(Lines[s]))
  <1> DEFINE N == Len(Lines[s])
  <1>1. Lines[s] \in Seq(Items) /\ N \in Nat
    BY GatewayAssumption
  <1>2. PICK f : Collects(s, f) /\ Wanted(s) = f[N]
    BY WantedLoops
  <1> DEFINE T == {n \in 0..N : f[n] \in Seq(Items) /\ Rises(f[n], s, n)}
  <1>3. 0 \in T
    <2>1. f[0] = <<>>
      BY <1>1, <1>2 DEF Collects
    <2>2. <<>> \in Seq(Items) /\ Rises(<<>>, s, 0)
      BY DEF Rises
    <2>3. f[0] \in Seq(Items) /\ Rises(f[0], s, 0)
      BY <2>1, <2>2, Zenon
    <2> QED
      BY <1>1, <2>3
  <1>4. ASSUME NEW n \in 1..N, n - 1 \in T
        PROVE  n \in T
    <2>1. f[n] = IF Kind[Lines[s][n]] \in {"payment", "refund"}
                 THEN Append(f[n - 1], Lines[s][n]) ELSE f[n - 1]
      <3>1. n \in 0..N /\ n # 0
        BY <1>1
      <3> QED
        BY <1>2, <3>1, Zenon DEF Collects
    <2>2. f[n - 1] \in Seq(Items) /\ Rises(f[n - 1], s, n - 1)
      BY <1>4
    <2>3. f[n] \in {f[n - 1], Append(f[n - 1], Lines[s][n])}
      BY <2>1
    <2>4. Lines[s][n] \in Items
      BY <1>1
    <2>5. f[n] \in Seq(Items)
      <3>1. Append(f[n - 1], Lines[s][n]) \in Seq(Items)
        BY <2>2, <2>4, AppendElems
      <3> QED
        BY <2>2, <2>3, <3>1
    <2>6. Rises(f[n], s, n)
      BY <2>2, <2>3, AppendRises
    <2> QED
      BY <1>1, <2>5, <2>6
  <1>5. N \in T
    <2> HIDE DEF T, N
    <2>1. 0..N \subseteq T
      BY <1>1, <1>3, <1>4, UpTo
    <2> QED
      BY <1>1, <2>1
  <1> QED
    BY <1>2, <1>5

\* k is line i of the a-th settlement made, one of those that are kept, or, with
\* a = 0, the i-th id of a second.
At(k, a, i) ==
    \/ /\ a \in 1..Len(settled)
       /\ i \in 1..Len(Lines[settled[a]])
       /\ k = Lines[settled[a]][i]
       /\ Kind[k] \in {"payment", "refund"}
    \/ /\ a = 0
       /\ i \in {1, 2}
       /\ \E t \in 0..MaxNow : k = <<"T", t, i>>

Before(k, l) ==
    \E a, b, i, j \in Nat : At(k, a, i) /\ At(l, b, j) /\ (a < b \/ (a = b /\ i < j))

\* k is of one of the first n settlements.
Within(k, n) == \E a \in 0..n, i \in Nat : At(k, a, i)

NoRepeats ==
    \A a, b \in 1..Len(settled) : settled[a] = settled[b] => a = b

\* The keys of a call ascend, those it holds before those it has still to insert;
\* its list is what is left, after some have been fetched, of a list of the
\* settlements.
Ordered(c) ==
    /\ \A m, n \in 1..Len(txns[c]) : m < n => Before(txns[c][m], txns[c][n])
    /\ \A k \in pending[c], n \in 1..Len(txns[c]) : Before(k, txns[c][n])
    /\ \E f \in 0..Len(settled) :
          /\ f + Len(listed[c]) <= Len(settled)
          /\ \A n \in 1..Len(listed[c]) : listed[c][n] = settled[f + n]
          /\ \A n \in 1..Len(txns[c]) : Within(txns[c][n], f)

OrderInv == NoRepeats /\ \A c \in Calls : Ordered(c)

\* A payment or refund is in one settlement, once.
LEMMA SettledOnce ==
  ASSUME NEW s \in Settlements, NEW t \in Settlements,
         NEW i \in 1..Len(Lines[s]), NEW j \in 1..Len(Lines[t]),
         Lines[s][i] = Lines[t][j], Kind[Lines[s][i]] \in {"payment", "refund"}
  PROVE  s = t /\ i = j
  <1>1. \A x, y \in Settlements : \A m \in DOMAIN Lines[x], n \in DOMAIN Lines[y] :
           Lines[x][m] = Lines[y][n] /\ Kind[Lines[x][m]] \in {"payment", "refund"}
              => x = y /\ m = n
    BY KeysAssumption, Zenon
  <1>2. Lines[s] \in Seq(Items) /\ Lines[t] \in Seq(Items)
    BY GatewayAssumption
  <1>3. i \in DOMAIN Lines[s] /\ j \in DOMAIN Lines[t]
    BY <1>2
  <1>4. Lines[s][i] = Lines[t][j] /\ Kind[Lines[s][i]] \in {"payment", "refund"}
           => s = t /\ i = j
    BY <1>1, <1>3
  <1> QED
    BY <1>4

\* A key has one place.
LEMMA AtOnce ==
  ASSUME TypeOK, NoRepeats, NEW k, NEW a, NEW b, NEW i, NEW j, At(k, a, i), At(k, b, j)
  PROVE  a = b /\ i = j
  <1>1. settled \in Seq(Settlements) /\ Len(settled) \in Nat
    BY DEF TypeOK
  <1>2. \A t \in 0..MaxNow, n \in {1, 2} : <<"T", t, n>> \notin Items
    BY KeysAssumption, Zenon
  <1>3. \A x \in 1..Len(settled) : settled[x] \in Settlements
    BY <1>1
  <1>4. \A s \in Settlements : Lines[s] \in Seq(Items)
    BY GatewayAssumption
  <1>5. CASE a = 0
    <2>1. PICK t \in 0..MaxNow : k = <<"T", t, i>> /\ i \in {1, 2}
      BY <1>1, <1>5 DEF At
    <2>2. k \notin Items
      BY <1>2, <2>1
    <2>3. b = 0
      BY <1>3, <1>4, <2>2 DEF At
    <2>4. PICK u \in 0..MaxNow : k = <<"T", u, j>>
      BY <1>1, <2>3 DEF At
    <2> QED
      BY <1>5, <2>1, <2>3, <2>4
  <1>6. CASE a # 0
    <2>1. /\ a \in 1..Len(settled) /\ i \in 1..Len(Lines[settled[a]])
          /\ k = Lines[settled[a]][i] /\ Kind[k] \in {"payment", "refund"}
      BY <1>6 DEF At
    <2>2. k \in Items
      BY <1>3, <1>4, <2>1
    <2>3. /\ b \in 1..Len(settled) /\ j \in 1..Len(Lines[settled[b]])
          /\ k = Lines[settled[b]][j]
      BY <1>2, <2>2 DEF At
    <2>4. settled[a] \in Settlements /\ settled[b] \in Settlements
      BY <1>3, <2>1, <2>3
    <2>5. settled[a] = settled[b] /\ i = j
      <3>1. Lines[settled[a]][i] = Lines[settled[b]][j]
        BY <2>1, <2>3
      <3>2. Kind[Lines[settled[a]][i]] \in {"payment", "refund"}
        BY <2>1
      <3> QED
        BY <2>1, <2>3, <2>4, <3>1, <3>2, SettledOnce
    <2> QED
      BY <2>1, <2>3, <2>5 DEF NoRepeats
  <1> QED
    BY <1>5, <1>6

\* So the keys are in an order.
LEMMA BeforeIsAnOrder ==
  ASSUME TypeOK, NoRepeats
  PROVE  /\ \A k : ~Before(k, k)
         /\ \A k, l, m : Before(k, l) /\ Before(l, m) => Before(k, m)
  <1>1. ASSUME NEW k, Before(k, k)
        PROVE  FALSE
    <2>1. PICK a, b, i, j \in Nat : At(k, a, i) /\ At(k, b, j) /\ (a < b \/ (a = b /\ i < j))
      BY <1>1 DEF Before
    <2>2. a = b /\ i = j
      BY <2>1, AtOnce
    <2> QED
      BY <2>1, <2>2
  <1>2. ASSUME NEW k, NEW l, NEW m, Before(k, l), Before(l, m)
        PROVE  Before(k, m)
    <2>1. PICK a, b, i, j \in Nat : At(k, a, i) /\ At(l, b, j) /\ (a < b \/ (a = b /\ i < j))
      BY <1>2 DEF Before
    <2>2. PICK d, e, g, h \in Nat : At(l, d, g) /\ At(m, e, h) /\ (d < e \/ (d = e /\ g < h))
      BY <1>2 DEF Before
    <2>3. b = d /\ j = g
      BY <2>1, <2>2, AtOnce
    <2>4. a < e \/ (a = e /\ i < h)
      BY <2>1, <2>2, <2>3
    <2> QED
      BY <2>1, <2>2, <2>4 DEF Before
  <1> QED
    BY <1>1, <1>2

LEMMA InitOrder == Init => OrderInv
  BY DEF Init, OrderInv, NoRepeats, Ordered

\* What has a place keeps it when a settlement is made.
LEMMA SettleOrder ==
  ASSUME IInv, OrderInv, NEW s \in Settlements, Settle(s)
  PROVE  OrderInv'
  <1>1. /\ settled \in Seq(Settlements) /\ Len(settled) \in Nat
        /\ s \notin Elems(settled) /\ settled' = Append(settled, s)
        /\ UNCHANGED <<listed, txns, pending>>
    BY DEF IInv, TypeOK, Settle, callVars
  <1>2. /\ Len(settled') = Len(settled) + 1
        /\ \A a \in 1..Len(settled) : settled'[a] = settled[a]
        /\ settled'[Len(settled) + 1] = s
    BY <1>1
  <1>3. NoRepeats'
    <2>1. \A a \in 1..Len(settled) : settled[a] # s
      BY <1>1 DEF Elems
    <2>2. \A a \in 1..Len(settled') : a \in 1..Len(settled) \/ a = Len(settled) + 1
      BY <1>1, <1>2
    <2> QED
      BY <1>2, <2>1, <2>2 DEF OrderInv, NoRepeats
  <1>4. ASSUME NEW k, NEW a, NEW i, At(k, a, i)
        PROVE  At(k, a, i)'
    <2>1. CASE a \in 1..Len(settled)
      <3>1. a \in 1..Len(settled') /\ settled'[a] = settled[a] /\ a # 0
        BY <1>1, <1>2, <2>1
      <3> QED
        BY <1>4, <3>1 DEF At
    <2>2. CASE a = 0
      BY <1>1, <1>4, <2>2 DEF At
    <2> QED
      BY <1>4, <2>1, <2>2 DEF At
  <1>5. \A k, l : Before(k, l) => Before(k, l)'
    BY <1>4 DEF Before
  <1>6. \A k, n : Within(k, n) => Within(k, n)'
    BY <1>4 DEF Within
  <1>7. ASSUME NEW c \in Calls
        PROVE  Ordered(c)'
    <2>1. Ordered(c)
      BY DEF OrderInv
    <2>2. listed'[c] = listed[c] /\ txns'[c] = txns[c] /\ pending'[c] = pending[c]
      BY <1>1
    <2>3. PICK f \in 0..Len(settled) :
            /\ f + Len(listed[c]) <= Len(settled)
            /\ \A n \in 1..Len(listed[c]) : listed[c][n] = settled[f + n]
            /\ \A n \in 1..Len(txns[c]) : Within(txns[c][n], f)
      BY <2>1 DEF Ordered
    <2>4. Len(listed[c]) \in Nat
      BY DEF IInv, TypeOK
    <2>5. f \in 0..Len(settled') /\ f + Len(listed[c]) <= Len(settled')
      BY <1>1, <1>2, <2>3, <2>4
    <2>6. \A n \in 1..Len(listed[c]) : listed[c][n] = settled'[f + n]
      BY <1>1, <1>2, <2>3, <2>4
    <2> QED
      BY <1>5, <1>6, <2>1, <2>2, <2>3, <2>5, <2>6 DEF Ordered
  <1> QED
    BY <1>3, <1>7 DEF OrderInv

\* A step of one call, while no settlement is made.
LEMMA CallOrder ==
  ASSUME OrderInv, settled' = settled,
         \A d \in Calls :
            \/ Ordered(d)'
            \/ listed'[d] = listed[d] /\ txns'[d] = txns[d] /\ pending'[d] = pending[d]
            \/ Len(listed'[d]) = 0 /\ Len(txns'[d]) = 0 /\ Len(settled) \in Nat
  PROVE  OrderInv'
  <1>1. NoRepeats'
    BY DEF OrderInv, NoRepeats
  <1>2. \A k, l, n : /\ Before(k, l)' <=> Before(k, l)
                     /\ Within(k, n)' <=> Within(k, n)
    BY DEF Before, Within, At
  <1>3. ASSUME NEW d \in Calls
        PROVE  Ordered(d)'
    <2>1. CASE listed'[d] = listed[d] /\ txns'[d] = txns[d] /\ pending'[d] = pending[d]
      BY <1>2, <2>1 DEF OrderInv, Ordered
    <2>2. CASE Len(listed'[d]) = 0 /\ Len(txns'[d]) = 0 /\ Len(settled) \in Nat
      BY <2>2 DEF Ordered
    <2> QED
      BY <2>1, <2>2
  <1> QED
    BY <1>1, <1>3 DEF OrderInv

\* What a call gets of the gateway is in order.
LEMMA ListOrder ==
  ASSUME IInv, OrderInv, NEW c \in Calls, ListSettlements(c)
  PROVE  OrderInv'
  <1>1. /\ settled' = settled /\ txns' = txns /\ pending' = pending
        /\ pc[c] = "idle" /\ listed' = [listed EXCEPT ![c] = settled]
    BY DEF ListSettlements, Listing
  <1>2. txns[c] = <<>> /\ pending[c] = {} /\ settled \in Seq(Settlements)
    BY <1>1 DEF IInv, BatchOk, TypeOK
  <1>3. listed'[c] = settled /\ \A d \in Calls \ {c} : listed'[d] = listed[d]
    BY <1>1 DEF IInv, TypeOK
  <1>4. Ordered(c)'
    <2>1. Len(txns'[c]) = 0 /\ pending'[c] = {}
      BY <1>1, <1>2
    <2>2. Len(settled) \in Nat /\ 0 \in 0..Len(settled) /\ 0 + Len(settled) <= Len(settled)
      BY <1>2
    <2>3. \A n \in 1..Len(settled) : settled[n] = settled[0 + n]
      BY <2>2
    <2> QED
      BY <1>1, <1>3, <2>1, <2>2, <2>3 DEF Ordered
  <1> QED
    BY <1>1, <1>3, <1>4, CallOrder

LEMMA MockOrder ==
  ASSUME IInv, OrderInv, NEW c \in Calls, FetchMock(c)
  PROVE  OrderInv'
  <1>1. /\ settled' = settled /\ listed' = listed /\ pending' = pending
        /\ pc[c] = "idle" /\ txns' = [txns EXCEPT ![c] = <<MockId(1)>>]
    BY DEF FetchMock
  <1>2. pending[c] = {} /\ now \in 0..MaxNow
    BY <1>1 DEF IInv, BatchOk, TypeOK
  <1>3. txns'[c] = <<MockId(1)>> /\ \A d \in Calls \ {c} : txns'[d] = txns[d]
    BY <1>1 DEF IInv, TypeOK
  <1>4. PICK p : p = MockId(1) /\ p = <<"T", now, 1>>
    BY DEF MockId
  <1>5. Len(txns'[c]) = 1 /\ txns'[c][1] = p
    BY <1>3, <1>4
  <1>6. Ordered(c)'
    <2>1. PICK f \in 0..Len(settled) :
            /\ f + Len(listed[c]) <= Len(settled)
            /\ \A n \in 1..Len(listed[c]) : listed[c][n] = settled[f + n]
      BY DEF OrderInv, Ordered
    <2>2. At(p, 0, 1)'
      BY <1>2, <1>4 DEF At
    <2>3. Within(p, f)'
      BY <2>1, <2>2 DEF Within
    <2>4. \A m, n \in 1..1 : m = 1 /\ ~(m < n)
      OBVIOUS
    <2> QED
      BY <1>1, <1>2, <1>5, <2>1, <2>3, <2>4 DEF Ordered
  <1> QED
    BY <1>1, <1>3, <1>6, CallOrder

\* The id of the second row comes after that of the first, whatever the seconds.
LEMMA AppendMockOrder ==
  ASSUME IInv, OrderInv, NEW c \in Calls, AppendMock(c)
  PROVE  OrderInv'
  <1>1. /\ settled' = settled /\ listed' = listed /\ pending' = pending
        /\ pc[c] = "mock" /\ txns' = [txns EXCEPT ![c] = Append(txns[c], MockId(2))]
    BY DEF AppendMock
  <1>2. pending[c] = {} /\ now \in 0..MaxNow
    BY <1>1 DEF IInv, BatchOk, TypeOK
  <1>3. /\ txns'[c] = Append(txns[c], MockId(2))
        /\ \A d \in Calls \ {c} : txns'[d] = txns[d]
    BY <1>1 DEF IInv, TypeOK
  <1>4. PICK t \in 0..MaxNow : txns[c] = << <<"T", t, 1>> >>
    BY <1>1 DEF IInv, BatchOk
  <1>5. PICK p, q : p = <<"T", t, 1>> /\ q = <<"T", now, 2>>
    OBVIOUS
  <1>6. Len(txns'[c]) = 2 /\ txns'[c][1] = p /\ txns'[c][2] = q
    BY <1>3, <1>4, <1>5 DEF MockId
  <1>7. Ordered(c)'
    <2>1. PICK f \in 0..Len(settled) :
            /\ f + Len(listed[c]) <= Len(settled)
            /\ \A n \in 1..Len(listed[c]) : listed[c][n] = settled[f + n]
      BY DEF OrderInv, Ordered
    <2>2. At(p, 0, 1)' /\ At(q, 0, 2)'
      BY <1>2, <1>4, <1>5 DEF At
    <2>3. Before(p, q)'
      BY <2>2 DEF Before
    <2>4. Within(p, f)' /\ Within(q, f)'
      BY <2>1, <2>2 DEF Within
    <2>5. /\ \A n \in 1..2 : n = 1 \/ n = 2
          /\ \A m, n \in 1..2 : m < n => m = 1 /\ n = 2
      OBVIOUS
    <2> QED
      BY <1>1, <1>2, <1>6, <2>1, <2>3, <2>4, <2>5 DEF Ordered
  <1> QED
    BY <1>1, <1>3, <1>7, CallOrder

LEMMA ReconOrder ==
  ASSUME IInv, OrderInv, NEW c \in Calls, FetchRecon(c)
  PROVE  OrderInv'
  <1> DEFINE s == Head(listed[c])
             rest == Tail(listed[c])
  <1>1. /\ settled' = settled /\ pending' = pending
        /\ pc[c] = "fetch" /\ listed[c] # <<>>
        /\ listed' = [listed EXCEPT ![c] = rest]
    BY DEF FetchRecon
  <1>2. pending[c] = {}
    BY <1>1 DEF IInv, BatchOk
  <1>3. listed'[c] = rest /\ \A d \in Calls \ {c} : listed'[d] = listed[d]
    BY <1>1 DEF IInv, TypeOK
  <1>4. /\ settled \in Seq(Settlements) /\ Len(settled) \in Nat
        /\ listed[c] \in Seq(Settlements) /\ txns \in [Calls -> Seq(Key)]
    BY DEF IInv, TypeOK
  <1>5. /\ Len(listed[c]) \in Nat \ {0}
        /\ Len(rest) = Len(listed[c]) - 1
        /\ s = listed[c][1]
        /\ \A n \in 1..Len(rest) : rest[n] = listed[c][n + 1]
    BY <1>1, <1>4
  <1> HIDE DEF s, rest
  <1>6. PICK f \in 0..Len(settled) :
          /\ f + Len(listed[c]) <= Len(settled)
          /\ \A n \in 1..Len(listed[c]) : listed[c][n] = settled[f + n]
          /\ \A n \in 1..Len(txns[c]) : Within(txns[c][n], f)
    BY DEF OrderInv, Ordered
  <1>7. /\ f + 1 \in 1..Len(settled) /\ f + 1 \in 0..Len(settled)
        /\ (f + 1) + Len(rest) <= Len(settled)
        /\ s = settled[f + 1] /\ s \in Settlements
    <2>1. f \in Nat /\ 1 \in 1..Len(listed[c])
      BY <1>5, <1>6
    <2>2. /\ f + 1 \in 1..Len(settled) /\ f + 1 \in 0..Len(settled)
          /\ (f + 1) + Len(rest) <= Len(settled)
      <3>1. ASSUME NEW l \in Nat, NEW a \in Nat \ {0}, NEW b,
                   b = a - 1, f + a <= l
            PROVE  f + 1 \in 1..l /\ f + 1 \in 0..l /\ (f + 1) + b <= l
        BY <2>1, <3>1
      <3>2. f + Len(listed[c]) <= Len(settled)
        BY <1>6
      <3>3. Len(rest) = Len(listed[c]) - 1
        BY <1>5
      <3>4. Len(settled) \in Nat /\ Len(listed[c]) \in Nat \ {0}
        BY <1>4, <1>5
      <3> QED
        BY <3>1, <3>2, <3>3, <3>4
    <2>3. s = settled[f + 1]
      BY <1>5, <1>6, <2>1
    <2> QED
      BY <1>4, <2>2, <2>3
  <1>8. \A n \in 1..Len(rest) : rest[n] = settled[(f + 1) + n]
    <2> SUFFICES ASSUME NEW n \in 1..Len(rest)
                 PROVE  rest[n] = settled[(f + 1) + n]
      OBVIOUS
    <2>1. n + 1 \in 1..Len(listed[c]) /\ f + (n + 1) = (f + 1) + n
      BY <1>5, <1>6
    <2> QED
      BY <1>5, <1>6, <2>1
  <1>9. \A k : Within(k, f) => Within(k, f + 1)
    BY <1>6 DEF Within
  <1>10. \A k, l, n : /\ Before(k, l)' <=> Before(k, l)
                      /\ Within(k, n)' <=> Within(k, n)
    BY <1>1 DEF Before, Within, At
  <1>11. \A m, n \in 1..Len(txns[c]) : m < n => Before(txns[c][m], txns[c][n])
    BY DEF OrderInv, Ordered
  <1>12. CASE txns' = txns
    <2>1. Ordered(c)'
      BY <1>1, <1>2, <1>3, <1>6, <1>7, <1>8, <1>9, <1>10, <1>11, <1>12 DEF Ordered
    <2> QED
      BY <1>1, <1>3, <1>12, <2>1, CallOrder
  <1>13. CASE txns' = [txns EXCEPT ![c] = @ \o Wanted(s)]
    <2> DEFINE p == txns[c]
               q == Wanted(s)
    <2>1. q \in Seq(Items) /\ Rises(q, s, Len(Lines[s])) /\ Lines[s] \in Seq(Items)
      BY <1>7, WantedLines, WantedRises, GatewayAssumption
    <2>2. \A n \in 1..Len(q) : Kind[q[n]] \in {"payment", "refund"}
      <3>1. Elems(q) = {i \in Elems(Lines[s]) : Kind[i] \in {"payment", "refund"}}
        BY <1>7, WantedLines
      <3> QED
        BY <2>1, <3>1 DEF Elems
    <2>3. txns'[c] = p \o q /\ \A d \in Calls \ {c} : txns'[d] = txns[d]
      BY <1>4, <1>13
    <2>4. p \in Seq(Key) /\ q \in Seq(Key) /\ Len(p) \in Nat /\ Len(q) \in Nat
      <3>1. q \in Seq(Key)
        BY <2>1 DEF Key
      <3>2. p \in Seq(Key)
        BY <1>4
      <3> QED
        BY <3>1, <3>2
    <2> HIDE DEF p, q
    <2>5. /\ Len(p \o q) = Len(p) + Len(q)
          /\ \A n \in 1..Len(p) : (p \o q)[n] = p[n]
          /\ \A n \in 1..Len(q) : (p \o q)[Len(p) + n] = q[n]
      BY <2>4
    <2>6. ASSUME NEW n \in 1..Len(p \o q)
          PROVE  \/ n \in 1..Len(p) /\ (p \o q)[n] = p[n]
                 \/ \E m \in 1..Len(q) : n = Len(p) + m /\ (p \o q)[n] = q[m]
      <3>1. CASE n > Len(p)
        <4>1. n - Len(p) \in 1..Len(q) /\ n = Len(p) + (n - Len(p))
          BY <2>4, <2>5, <3>1
        <4> QED
          BY <2>5, <4>1
      <3> QED
        BY <2>4, <2>5, <3>1
    <2>7. ASSUME NEW k, NEW i \in 1..Len(Lines[s]), k = Lines[s][i],
                 Kind[k] \in {"payment", "refund"}
          PROVE  At(k, f + 1, i)
      BY <1>7, <2>7 DEF At
    <2>8. \A m \in 1..Len(q) : Within(q[m], f + 1)
      <3> SUFFICES ASSUME NEW m \in 1..Len(q)
                   PROVE  Within(q[m], f + 1)
        OBVIOUS
      <3>1. PICK i \in 1..Len(Lines[s]) : q[m] = Lines[s][i]
        BY <2>1 DEF Rises
      <3>2. At(q[m], f + 1, i) /\ i \in Nat /\ f + 1 \in 0..(f + 1)
        BY <1>6, <2>1, <2>2, <2>7, <3>1
      <3> QED
        BY <3>2 DEF Within
    <2>9. ASSUME NEW l \in 1..Len(q), NEW m \in 1..Len(q), l < m
          PROVE  Before(q[l], q[m])
      <3>1. PICK i, j \in 1..Len(Lines[s]) : i < j /\ q[l] = Lines[s][i] /\ q[m] = Lines[s][j]
        BY <2>1, <2>9 DEF Rises
      <3>2. At(q[l], f + 1, i) /\ At(q[m], f + 1, j)
        BY <2>2, <2>7, <3>1
      <3>3. i \in Nat /\ j \in Nat /\ f + 1 \in Nat
        BY <1>6, <2>1
      <3> QED
        BY <3>1, <3>2, <3>3 DEF Before
    <2>10. ASSUME NEW l \in 1..Len(p), NEW m \in 1..Len(q)
           PROVE  Before(p[l], q[m])
      <3>1. PICK a \in 0..f, i \in Nat : At(p[l], a, i)
        BY <1>6 DEF Within, p
      <3>2. PICK j \in 1..Len(Lines[s]) : q[m] = Lines[s][j]
        BY <2>1 DEF Rises
      <3>3. At(q[m], f + 1, j) /\ j \in Nat
        BY <2>1, <2>2, <2>7, <3>2
      <3>4. a \in Nat /\ f + 1 \in Nat /\ a < f + 1
        BY <1>6
      <3> QED
        BY <3>1, <3>3, <3>4 DEF Before
    <2>11. ASSUME NEW m \in 1..Len(p \o q), NEW n \in 1..Len(p \o q), m < n
           PROVE  Before((p \o q)[m], (p \o q)[n])
      <3>1. CASE n \in 1..Len(p)
        <4>1. m \in 1..Len(p)
          BY <2>4, <2>11, <3>1
        <4>2. Before(p[m], p[n])
          BY <1>11, <2>11, <3>1, <4>1 DEF p
        <4> QED
          BY <2>5, <3>1, <4>1, <4>2
      <3>2. ASSUME NEW y \in 1..Len(q), n = Len(p) + y, (p \o q)[n] = q[y]
            PROVE  Before((p \o q)[m], (p \o q)[n])
        <4>1. CASE m \in 1..Len(p)
          BY <2>5, <2>10, <3>2, <4>1
        <4>2. ASSUME NEW x \in 1..Len(q), m = Len(p) + x, (p \o q)[m] = q[x]
              PROVE  Before((p \o q)[m], (p \o q)[n])
          <5>1. x < y
            BY <2>4, <2>11, <3>2, <4>2
          <5> QED
            BY <2>9, <3>2, <4>2, <5>1
        <4> QED
          BY <2>6, <4>1, <4>2
      <3> QED
        BY <2>6, <3>1, <3>2
    <2>12. \A n \in 1..Len(p \o q) : Within((p \o q)[n], f + 1)
      BY <1>6, <1>9, <2>6, <2>8 DEF p
    <2>13. Ordered(c)'
      BY <1>1, <1>2, <1>3, <1>7, <1>8, <1>10, <2>3, <2>11, <2>12 DEF Ordered
    <2> QED
      BY <1>1, <1>3, <2>3, <2>13, CallOrder
  <1> QED
    BY <1>12, <1>13 DEF FetchRecon, s

\* An INSERT takes the first of the keys that are left.
LEMMA InsertOrder ==
  ASSUME IInv, OrderInv, NEW c \in Calls, Insert(c)
  PROVE  OrderInv'
  <1> DEFINE k == Head(txns[c])
             rest == Tail(txns[c])
  <1>1. settled' = settled /\ listed' = listed /\ txns[c] # <<>>
    BY DEF Insert
  <1>2. /\ txns \in [Calls -> Seq(Key)] /\ pending \in [Calls -> SUBSET Key]
        /\ Len(settled) \in Nat
    BY DEF IInv, TypeOK
  <1>3. /\ Len(txns[c]) \in Nat \ {0}
        /\ Len(rest) = Len(txns[c]) - 1
        /\ k = txns[c][1]
        /\ \A n \in 1..Len(rest) : rest[n] = txns[c][n + 1]
    BY <1>1, <1>2
  <1> HIDE DEF k, rest
  <1>4. CASE /\ txns' = [txns EXCEPT ![c] = rest]
             /\ pending' = [pending EXCEPT ![c] = IF k \in rows THEN @ ELSE @ \cup {k}]
    <2>1. /\ txns'[c] = rest
          /\ \A l \in pending'[c] : l \in pending[c] \/ l = k
          /\ \A d \in Calls \ {c} : txns'[d] = txns[d] /\ pending'[d] = pending[d]
      BY <1>2, <1>4
    <2>2. \A n \in 1..Len(rest) : n + 1 \in 1..Len(txns[c]) /\ 1 \in 1..Len(txns[c]) /\ 1 < n + 1
      BY <1>3
    <2>3. \A l, m, n : /\ Before(l, m)' <=> Before(l, m)
                       /\ Within(l, n)' <=> Within(l, n)
      BY <1>1 DEF Before, Within, At
    <2>4. \A m, n \in 1..Len(rest) : m < n => Before(rest[m], rest[n])
      <3> SUFFICES ASSUME NEW m \in 1..Len(rest), NEW n \in 1..Len(rest), m < n
                   PROVE  Before(rest[m], rest[n])
        OBVIOUS
      <3>1. m + 1 < n + 1
        BY <1>3
      <3> QED
        BY <1>3, <2>2, <3>1 DEF OrderInv, Ordered
    <2>5. \A l \in pending'[c], n \in 1..Len(rest) : Before(l, rest[n])
      BY <1>3, <2>1, <2>2 DEF OrderInv, Ordered
    <2>6. PICK f \in 0..Len(settled) :
            /\ f + Len(listed[c]) <= Len(settled)
            /\ \A n \in 1..Len(listed[c]) : listed[c][n] = settled[f + n]
            /\ \A n \in 1..Len(txns[c]) : Within(txns[c][n], f)
      BY DEF OrderInv, Ordered
    <2>7. \A n \in 1..Len(rest) : Within(rest[n], f)
      BY <1>3, <2>2, <2>6
    <2>8. Ordered(c)'
      BY <1>1, <2>1, <2>3, <2>4, <2>5, <2>6, <2>7 DEF Ordered
    <2> QED
      BY <1>1, <2>1, <2>8, CallOrder
  <1>5. CASE /\ txns' = [txns EXCEPT ![c] = <<>>]
             /\ pending' = [pending EXCEPT ![c] = {}]
    <2>1. /\ txns'[c] = <<>> /\ pending'[c] = {}
          /\ \A d \in Calls \ {c} : txns'[d] = txns[d] /\ pending'[d] = pending[d]
      BY <1>2, <1>5
    <2>2. Ordered(c)'
      BY <1>1, <2>1 DEF OrderInv, Ordered
    <2> QED
      BY <1>1, <2>1, <2>2, CallOrder
  <1> QED
    BY <1>4, <1>5 DEF Insert, k, rest

\* A call that ends, for whatever reason, has nothing left to insert.
LEMMA EndOrder ==
  ASSUME IInv, OrderInv, NEW c \in Calls, NEW res, Return(c, res), settled' = settled
  PROVE  OrderInv'
  <1>1. /\ listed' = [listed EXCEPT ![c] = <<>>]
        /\ txns' = [txns EXCEPT ![c] = <<>>]
        /\ pending' = [pending EXCEPT ![c] = {}]
    BY DEF Return
  <1>2. \A d \in Calls \ {c} : /\ listed'[d] = listed[d]
                               /\ txns'[d] = txns[d]
                               /\ pending'[d] = pending[d]
    BY <1>1 DEF IInv, TypeOK
  <1>3. Len(listed'[c]) = 0 /\ Len(txns'[c]) = 0 /\ Len(settled) \in Nat
    BY <1>1 DEF IInv, TypeOK
  <1> QED
    BY <1>2, <1>3, CallOrder

LEMMA NextOrder ==
  ASSUME IInv, OrderInv, [Next]_vars
  PROVE  OrderInv'
  <1>1. CASE UNCHANGED <<settled, listed, txns, pending>>
    BY <1>1, CallOrder
  <1>2. ASSUME NEW c \in Calls, Begin(c)
        PROVE  OrderInv'
    BY <1>1, <1>2, EndOrder DEF Begin
  <1>3. ASSUME NEW c \in Calls, Commit(c) \/ CommitFails(c) \/ Fail(c)
        PROVE  OrderInv'
    BY <1>3, EndOrder DEF Commit, CommitFails, Fail
  <1>4. CASE Crash
    <2>1. settled' = settled /\ Len(settled) \in Nat
      BY <1>4 DEF Crash, IInv, TypeOK
    <2>2. \A d \in Calls : Len(listed'[d]) = 0 /\ Len(txns'[d]) = 0
      BY <1>4 DEF Crash
    <2> QED
      BY <2>1, <2>2, CallOrder
  <1>5. CASE Tick \/ UNCHANGED vars
    BY <1>1, <1>5 DEF Tick, vars, callVars
  <1> QED
    BY <1>2, <1>3, <1>4, <1>5, SettleOrder, ListOrder, MockOrder, AppendMockOrder,
       ReconOrder, InsertOrder
    DEF Next, CallStep, Quiesced

\* A call waits for a key that another holds, and what that one has still to insert
\* comes later in the order.  So of the calls of which fewest are later than they,
\* one would wait for a call that fewer are later than: not all of them wait.
THEOREM NoCycleOfWaits == Spec => []SomeoneInserts
  <1>1. ASSUME IInv, OrderInv
        PROVE  SomeoneInserts
    <2> DEFINE W == {c \in Calls : pc[c] = "insert"}
               Later(c) == {d \in W : Before(Head(txns[c]), Head(txns[d]))}
               F == {Later(c) : c \in W}
    <2> SUFFICES ASSUME W # {}, \A c \in W : txns[c] # <<>> /\ Waits(c)
                 PROVE  FALSE
      BY DEF SomeoneInserts
    <2>1. IsFiniteSet(Calls)
      BY KeysAssumption, Zenon
    <2>2. IsFiniteSet(W)
      BY <2>1, FS_Subset
    <2>3. \A S \in F : S \in SUBSET W /\ IsFiniteSet(S) /\ Cardinality(S) \in Nat
      BY <2>2, FS_Subset, FS_CardinalityType
    <2>4. PICK S \in F : \A T \in F : ~(Cardinality(T) < Cardinality(S))
      <3> DEFINE sizes == {Cardinality(S) : S \in F}
      <3>1. F # {}
        <4>1. PICK c \in Calls : c \in W
          OBVIOUS
        <4>2. Later(c) \in F
          BY <4>1
        <4> QED
          BY <4>2
      <3> HIDE DEF F
      <3>2. sizes \in SUBSET Nat /\ sizes # {}
        BY <2>3, <3>1
      <3>3. PICK n \in sizes : \A m \in sizes : ~(m < n)
        BY <3>2, Least
      <3> QED
        BY <3>3
    <2>5. PICK c \in W : S = Later(c)
      BY <2>4
    <2>6. PICK d \in Calls \ {c} : Head(txns[c]) \in pending[d]
      BY <2>5 DEF Waits
    <2>7. d \in W
      BY <1>1, <2>6 DEF IInv, BatchOk
    <2>8. Before(Head(txns[c]), Head(txns[d]))
      <3>1. txns[d] \in Seq(Key) /\ txns[d] # <<>>
        BY <1>1, <2>7 DEF IInv, TypeOK
      <3>2. 1 \in 1..Len(txns[d]) /\ Head(txns[d]) = txns[d][1]
        BY <3>1
      <3> QED
        BY <1>1, <2>6, <3>2 DEF OrderInv, Ordered
    <2>9. /\ \A k : ~Before(k, k)
          /\ \A k, l, m : Before(k, l) /\ Before(l, m) => Before(k, m)
      BY <1>1, BeforeIsAnOrder DEF IInv, OrderInv
    <2>10. Later(d) \in F /\ Later(d) \in SUBSET S /\ d \in S /\ d \notin Later(d)
      BY <2>5, <2>7, <2>8, <2>9
    <2> HIDE DEF W, F, Later
    <2>11. Cardinality(Later(d)) <= Cardinality(S) /\ Cardinality(Later(d)) # Cardinality(S)
      BY <2>3, <2>4, <2>10, FS_Subset
    <2> QED
      BY <2>3, <2>4, <2>10, <2>11
  <1>2. OrderInv /\ IInv /\ [Next]_vars => OrderInv'
    BY NextOrder
  <1> QED
    BY <1>1, <1>2, InitOrder, Invariance, PTL DEF Spec
=============================================================================

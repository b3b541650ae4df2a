------------------------- MODULE MessageStoreProofs -------------------------
(***************************************************************************)
(* The safety invariants of MessageStore, for any number of calls,         *)
(* messages, users and connections, any retry limit and any number of      *)
(* crashes.                                                                *)
(***************************************************************************)
EXTENDS MessageStore, FiniteSetTheorems, WellFoundedInduction, TLAPS

(* Where a call holds a connection, and where its body is stored. *)
Connected == {"index", "ident"}
BodyStored == {"connect", "index", "ident"}

(* A connection has one user at a time, and no user when it is free. *)
Owned ==
    /\ \A s \in Calls : pc[s] \in Connected => conn[s] \in Conns \ free
    /\ \A s, t \in Calls :
          pc[s] \in Connected /\ pc[t] \in Connected /\ conn[s] = conn[t] => s = t

(* A row is numbered below the counter, was stored by a call that had      *)
(* begun, and has a body.                                                  *)
RowsFounded ==
    \A row \in rows :
        /\ row.id < nextId
        /\ bodies[row.msg] > 0
        /\ pc[row.by] # "idle"
        /\ msgOf[row.by] = row.msg

(* Row r is what call s stored, under a number that was new when it began. *)
OwnRow(s, n) ==
    /\ \E row \in rows : row.id = n /\ row.by = s /\ row.msg = msgOf[s]
    /\ n > floor[s]

(* What a call has done when it is at a statement. *)
CallFounded(s) ==
    /\ pc[s] # "idle" => msgOf[s] \in Msgs
    /\ pc[s] \in BodyStored => bodies[msgOf[s]] > 0
    /\ pc[s] = "ident" => OwnRow(s, lastId[conn[s]])
    /\ pc[s] = "done" /\ result[s] # NoSeq =>
          OwnRow(s, result[s]) /\ bodies[msgOf[s]] > 0
    /\ result[s] < nextId
    /\ floor[s] < nextId

CallsFounded == \A s \in Calls : CallFounded(s)

(* A row of the pull's user above its cursor has message m. *)
Found(m) ==
    \E row \in rows : row.msg = m /\ Receiver(row) = pull.user /\ row.id > pull.cursor

(* What a pull has collected; got lags behind ids until the bodies are     *)
(* fetched.                                                                *)
PullFounded ==
    /\ pull.got \subseteq pull.ids
    /\ \A m \in pull.ids : Found(m)
    /\ pull.clean =>
          /\ pull.pc \in {"idle", "query"} => pull.ids = {}
          /\ pull.pc = "fetch" => pull.ids = MsgsIn(pull.due) /\ pull.got = {}
          /\ pull.pc = "done" => pull.got = MsgsIn(pull.due)

(* The inductive invariant. *)
StoreInv ==
    TypeOK /\ Owned /\ RowsFounded /\ CallsFounded /\ PullFounded

(* Calls of message m that are past MsgBodyDao::Insert, or crashed. *)
PastBody(m) == {s \in Calls : msgOf[s] = m /\ pc[s] \notin {"idle", "body"}}

(* The calls of message m met no fault. *)
Clean(m) == \A s \in Calls : msgOf[s] = m /\ pc[s] # "idle" => ~faulty[s]

(* A call that met no fault stored at most one row, which it then kept.    *)
OneRowEach ==
    \A r \in rows : ~faulty[r.by] =>
        /\ pc[r.by] \in {"ident", "done", "crashed"}
        /\ \A q \in rows : q.by = r.by => q = r

-----------------------------------------------------------------------------
(* What the shared steps do.                                               *)

(* The calls other than s stand where they stood. *)
OthersStay(s) ==
    \A t \in Calls : t # s => pc'[t] = pc[t] /\ result'[t] = result[t]

(* A lambda that throws is run again, or SaveMessage returns the empty     *)
(* string.                                                                 *)
LEMMA ThrowEffect ==
    ASSUME TypeOK, NEW s \in Calls, NEW again \in {"body", "connect"}, Throw(s, again)
    PROVE  /\ pc' \in [Calls -> CallPcs] /\ attempt' \in [Calls -> 0..MaxRetries]
           /\ result' \in [Calls -> Nat]
           /\ OthersStay(s)
           /\ pc'[s] \in {again, "done"}
           /\ pc'[s] = "done" => result'[s] = NoSeq
           /\ result'[s] \in {result[s], NoSeq}
BY StoreAssumption DEF TypeOK, Throw, Return, OthersStay, NoSeq, CallPcs

LEMMA ReturnEffect ==
    ASSUME TypeOK, NEW s \in Calls, NEW seq \in Nat, Return(s, seq)
    PROVE  /\ pc' \in [Calls -> CallPcs] /\ attempt' \in [Calls -> 0..MaxRetries]
           /\ result' \in [Calls -> Nat]
           /\ OthersStay(s)
           /\ pc'[s] = "done"
           /\ result'[s] = seq
BY StoreAssumption DEF TypeOK, Return, OthersStay, CallPcs

(* The guard gives the connection back. *)
LEMMA GiveBackEffect ==
    ASSUME TypeOK, NEW s \in Calls, conn[s] \in Conns, GiveBack(s)
    PROVE  /\ conn' \in [Calls -> Conns \union {NoConn}] /\ free' \subseteq Conns
           /\ free' = free \union {conn[s]}
           /\ \A t \in Calls : t # s => conn'[t] = conn[t]
BY DEF TypeOK, GiveBack

(* A set of numbers below n has a largest one. *)
LEMMA MaxExists ==
    ASSUME NEW n \in Nat, NEW S \in SUBSET (0..n), S # {}
    PROVE  \E x \in S : \A y \in S : x >= y
<1> DEFINE T == {n - x : x \in S}
<1>1. T \subseteq Nat /\ T # {}
  <2>1. \A x \in S : n - x \in Nat
    OBVIOUS
  <2>2. PICK x \in S : TRUE
    OBVIOUS
  <2>3. n - x \in T
    BY <2>2
  <2> QED
    BY <2>1, <2>3
<1>2. PICK m \in T : \A k \in T : ~ (<<k, m>> \in OpToRel(<, Nat))
  BY <1>1, NatLessThanWellFounded, WFMin
<1>3. \A k \in T : ~ (k < m)
  BY <1>1, <1>2 DEF OpToRel
<1>4. PICK x \in S : m = n - x
  OBVIOUS
<1>5. \A y \in S : x >= y
  BY <1>3, <1>4
<1> QED
  BY <1>5

(* The largest number that was returned is below the counter. *)
LEMMA FloorBelow ==
    ASSUME TypeOK, CallsFounded
    PROVE  MaxOf(Returned) \in Nat /\ MaxOf(Returned) < nextId
<1> DEFINE S == Returned \union {0}
<1>1. nextId - 1 \in Nat /\ S \subseteq 0..(nextId - 1) /\ S # {}
  BY DEF TypeOK, CallsFounded, CallFounded, Returned
<1>2. \E x \in S : \A y \in S : x >= y
  BY <1>1, MaxExists
<1>3. MaxOf(Returned) \in S
  BY <1>2 DEF MaxOf
<1> QED
  BY <1>1, <1>3 DEF TypeOK

-----------------------------------------------------------------------------
(* Types.                                                                  *)

(* The type of a pull over the rows R. *)
PullType(R) ==
    [pc : {"idle", "query", "fetch", "done"}, user : Users \union {NoUser},
     cursor : Nat, attempt : 0..MaxRetries, ids : SUBSET Msgs,
     got : SUBSET Msgs, clean : BOOLEAN, due : SUBSET R]

(* A step of the pull changes nothing else. *)
LEMMA PullStepType ==
    ASSUME TypeOK, pull' \in PullType(rows),
           UNCHANGED <<stores, lastId, free, broken, calls, crashes>>
    PROVE  TypeOK'
BY DEF TypeOK, PullType, stores, calls

(* The fields of a pull, one by one. *)
LEMMA PullFields ==
    ASSUME TypeOK
    PROVE  /\ pull.pc \in {"idle", "query", "fetch", "done"}
           /\ pull.user \in Users \union {NoUser}
           /\ pull.cursor \in Nat /\ pull.attempt \in 0..MaxRetries
           /\ pull.ids \in SUBSET Msgs /\ pull.got \in SUBSET Msgs
           /\ pull.clean \in BOOLEAN /\ pull.due \in SUBSET rows
           /\ pull.attempt < MaxRetries => pull.attempt + 1 \in 0..MaxRetries
           /\ 0 \in 0..MaxRetries
BY StoreAssumption DEF TypeOK

(* What each step makes of the pull. *)
PullBegun(u, last) ==
    [pc |-> "query", user |-> u, cursor |-> last, attempt |-> 0, ids |-> {}, got |-> {},
     clean |-> TRUE, due |-> {}]

Pulled(step, n, ids, got, clean, due) ==
    [pc |-> step, user |-> pull.user, cursor |-> pull.cursor, attempt |-> n,
     ids |-> ids, got |-> got, clean |-> clean, due |-> due]

LEMMA PulledType ==
    ASSUME TypeOK, NEW step \in {"query", "fetch", "done"}, NEW n \in 0..MaxRetries,
           NEW ids \in SUBSET Msgs, NEW got \in SUBSET Msgs, NEW clean \in BOOLEAN,
           NEW due \in SUBSET rows
    PROVE  Pulled(step, n, ids, got, clean, due) \in PullType(rows)
BY PullFields DEF Pulled, PullType

LEMMA PullBeginEffect ==
    ASSUME TypeOK, PullBegin
    PROVE  \E u \in Users, last \in Nat : pull' = PullBegun(u, last)
<1>1. \A u \in Users : ReturnedTo(u) \union {0} \subseteq Nat
  BY DEF ReturnedTo, TypeOK
<1>2. PICK u \in Users, last \in Nat :
         pull' = [IdlePull EXCEPT !.pc = "query", !.user = u, !.cursor = last]
  BY <1>1 DEF PullBegin
<1> QED
  BY <1>2 DEF IdlePull, PullBegun

(* A step of the query or of the fetch: the messages found and fetched     *)
(* since, whether it threw, and where it goes on.                          *)
LEMMA PullQueryEffect ==
    ASSUME TypeOK, PullQuery
    PROVE  LET ids == pull.ids \union MsgsIn(Selected)
           IN  pull' = Pulled(IF ids = {} THEN "done" ELSE "fetch", 0, ids, pull.got,
                              pull.clean, Selected)
BY DEF PullQuery, TypeOK, Pulled

LEMMA PullQueryThrowsEffect ==
    ASSUME TypeOK, PullQueryThrows
    PROVE  \E part \in SUBSET Selected, n \in 0..MaxRetries, step \in {"query", "fetch", "done"} :
              pull' = Pulled(step, n, pull.ids \union MsgsIn(part), pull.got, FALSE, pull.due)
<1>1. PICK part \in SUBSET Selected :
          LET ids == pull.ids \union MsgsIn(part)
              more == pull.attempt < MaxRetries
          IN  pull' = [pull EXCEPT
                         !.ids = ids, !.clean = FALSE,
                         !.attempt = IF more THEN @ + 1 ELSE 0,
                         !.pc = IF more THEN "query"
                                ELSE IF ids = {} THEN "done" ELSE "fetch"]
  BY DEF PullQueryThrows
<1> DEFINE n == IF pull.attempt < MaxRetries THEN pull.attempt + 1 ELSE 0
           step == IF pull.attempt < MaxRetries THEN "query"
                   ELSE IF pull.ids \union MsgsIn(part) = {} THEN "done" ELSE "fetch"
<1>2. n \in 0..MaxRetries /\ step \in {"query", "fetch", "done"}
  BY PullFields
<1>3. pull' = Pulled(step, n, pull.ids \union MsgsIn(part), pull.got, FALSE, pull.due)
  BY <1>1 DEF TypeOK, Pulled
<1> QED
  BY <1>2, <1>3

LEMMA PullFetchEffect ==
    ASSUME TypeOK, PullFetch
    PROVE  pull' = Pulled("done", 0, pull.ids, pull.got \union (pull.ids \intersect Stored),
                          pull.clean, pull.due)
BY DEF PullFetch, TypeOK, Pulled

LEMMA PullFetchThrowsEffect ==
    ASSUME TypeOK, PullFetchThrows
    PROVE  \E part \in SUBSET (pull.ids \intersect Stored), n \in 0..MaxRetries,
              step \in {"fetch", "done"} :
              pull' = Pulled(step, n, pull.ids, pull.got \union part, FALSE, {})
<1>1. PICK part \in SUBSET (pull.ids \intersect Stored) :
          LET more == pull.attempt < MaxRetries
          IN  pull' = [pull EXCEPT
                         !.got = @ \union part, !.clean = FALSE, !.due = {},
                         !.attempt = IF more THEN @ + 1 ELSE 0,
                         !.pc = IF more THEN "fetch" ELSE "done"]
  BY DEF PullFetchThrows
<1> DEFINE n == IF pull.attempt < MaxRetries THEN pull.attempt + 1 ELSE 0
           step == IF pull.attempt < MaxRetries THEN "fetch" ELSE "done"
<1>2. n \in 0..MaxRetries /\ step \in {"fetch", "done"}
  BY PullFields
<1>3. pull' = Pulled(step, n, pull.ids, pull.got \union part, FALSE, {})
  BY <1>1 DEF TypeOK, Pulled
<1> QED
  BY <1>2, <1>3

LEMMA InitType == Init => TypeOK
BY StoreAssumption DEF Init, TypeOK, IdlePull, NoSeq, CallPcs

(* Every step keeps the types. *)
LEMMA TypeStep == TypeOK /\ Owned /\ CallsFounded /\ [Next]_vars => TypeOK'
<1> SUFFICES ASSUME TypeOK, Owned, CallsFounded, [Next]_vars PROVE TypeOK'
  OBVIOUS
<1> USE StoreAssumption DEF stores, calls
<1>1. ASSUME NEW s \in Calls, SaveBegin(s) PROVE TypeOK'
  <2>1. MaxOf(Returned) \in Nat
    BY FloorBelow
  <2>2. floor' \in [Calls -> Nat]
    BY <1>1, <2>1 DEF SaveBegin, TypeOK
  <2> QED
    BY <1>1, <2>2 DEF SaveBegin, TypeOK, CallPcs
<1>2. ASSUME NEW s \in Calls, InsertBody(s) PROVE TypeOK'
  <2>1. bodies' \in [Msgs -> Nat]
    <3>1. msgOf[s] \in Msgs /\ bodies' = [bodies EXCEPT ![msgOf[s]] = @ + 1]
      BY <1>2 DEF InsertBody, OneMore, CallsFounded, CallFounded
    <3> QED
      BY <3>1 DEF TypeOK
  <2>2. pc' \in [Calls -> CallPcs] /\ attempt' \in [Calls -> 0..MaxRetries]
    BY <1>2, PullFields DEF InsertBody, TypeOK, CallPcs
  <2> QED
    BY <1>2, <2>1, <2>2 DEF InsertBody, TypeOK
<1>3. ASSUME NEW s \in Calls, InsertBodyThrows(s) PROVE TypeOK'
  <2>1. bodies' \in [Msgs -> Nat] /\ faulty' \in [Calls -> BOOLEAN]
    BY <1>3 DEF InsertBodyThrows, OneMore, Fault, TypeOK
  <2> QED
    BY <1>3, <2>1, ThrowEffect DEF InsertBodyThrows, TypeOK
<1>4. ASSUME NEW s \in Calls, AcquireConnection(s) PROVE TypeOK'
  BY <1>4 DEF AcquireConnection, TypeOK, CallPcs
<1>5. ASSUME NEW s \in Calls, InsertIndex(s) PROVE TypeOK'
  <2>1. msgOf[s] \in Msgs /\ conn[s] \in Conns
    BY <1>5 DEF InsertIndex, CallsFounded, CallFounded, Owned, Connected
  <2>2. rows' \subseteq [id : Nat \ {0}, msg : Msgs, by : Calls] /\ rows \subseteq rows'
    BY <1>5, <2>1 DEF InsertIndex, NewRow, TypeOK
  <2>3. pull' \in PullType(rows')
    BY <1>5, <2>2 DEF InsertIndex, TypeOK, PullType
  <2> QED
    BY <1>5, <2>1, <2>2, <2>3 DEF InsertIndex, TypeOK, PullType, CallPcs
<1>6. ASSUME NEW s \in Calls, InsertIndexRejected(s) PROVE TypeOK'
  <2>1. conn[s] \in Conns
    BY <1>6 DEF InsertIndexRejected, Owned, Connected
  <2> QED
    BY <1>6, <2>1, ThrowEffect, GiveBackEffect DEF InsertIndexRejected, TypeOK
<1>7. ASSUME NEW s \in Calls, InsertIndexThrows(s) PROVE TypeOK'
  <2>1. msgOf[s] \in Msgs /\ conn[s] \in Conns
    BY <1>7 DEF InsertIndexThrows, CallsFounded, CallFounded, Owned, Connected
  <2>2. /\ rows' \subseteq [id : Nat \ {0}, msg : Msgs, by : Calls] /\ rows \subseteq rows'
        /\ nextId' \in Nat \ {0} /\ broken' \subseteq Conns
    BY <1>7, <2>1 DEF InsertIndexThrows, NewRow, TypeOK
  <2>3. pull' \in PullType(rows')
    BY <1>7, <2>2 DEF InsertIndexThrows, TypeOK, PullType
  <2>4. faulty' \in [Calls -> BOOLEAN]
    BY <1>7 DEF InsertIndexThrows, Fault, TypeOK
  <2> QED
    BY <1>7, <2>1, <2>2, <2>3, <2>4, ThrowEffect, GiveBackEffect
    DEF InsertIndexThrows, TypeOK, PullType
<1>8. ASSUME NEW s \in Calls, SelectLastInsertId(s) PROVE TypeOK'
  <2>1. conn[s] \in Conns /\ lastId[conn[s]] \in Nat
    BY <1>8 DEF SelectLastInsertId, Owned, Connected, TypeOK
  <2> QED
    BY <1>8, <2>1, ReturnEffect, GiveBackEffect DEF SelectLastInsertId, TypeOK
<1>9. ASSUME NEW s \in Calls, SelectThrows(s) PROVE TypeOK'
  <2>1. conn[s] \in Conns
    BY <1>9 DEF SelectThrows, Owned, Connected
  <2>2. broken' \subseteq Conns /\ faulty' \in [Calls -> BOOLEAN]
    BY <1>9, <2>1 DEF SelectThrows, Fault, TypeOK
  <2> QED
    BY <1>9, <2>1, <2>2, ThrowEffect, GiveBackEffect DEF SelectThrows, TypeOK
<1>10. ASSUME PullBegin PROVE TypeOK'
  <2>1. PICK u \in Users, last \in Nat : pull' = PullBegun(u, last)
    BY <1>10, PullBeginEffect
  <2>2. pull' \in PullType(rows)
    BY <2>1, PullFields DEF PullBegun, PullType
  <2> QED
    BY <1>10, <2>2, PullStepType DEF PullBegin
<1>11. Selected \subseteq rows /\ \A R \in SUBSET rows : MsgsIn(R) \subseteq Msgs
  BY DEF Selected, MsgsIn, TypeOK
<1>12. ASSUME PullQuery PROVE TypeOK'
  <2>1. pull' \in PullType(rows)
    BY <1>11, <1>12, PullQueryEffect, PulledType, PullFields
  <2> QED
    BY <1>12, <2>1, PullStepType DEF PullQuery
<1>13. ASSUME PullQueryThrows PROVE TypeOK'
  <2>1. PICK part \in SUBSET Selected, n \in 0..MaxRetries, step \in {"query", "fetch", "done"} :
           pull' = Pulled(step, n, pull.ids \union MsgsIn(part), pull.got, FALSE, pull.due)
    BY <1>13, PullQueryThrowsEffect
  <2>2. pull.ids \union MsgsIn(part) \in SUBSET Msgs
    BY <1>11, PullFields
  <2>3. pull' \in PullType(rows)
    BY <2>1, <2>2, PulledType, PullFields
  <2> QED
    BY <1>13, <2>3, PullStepType DEF PullQueryThrows
<1>14. ASSUME PullFetch PROVE TypeOK'
  <2>1. pull' \in PullType(rows)
    BY <1>14, PullFetchEffect, PulledType, PullFields
  <2> QED
    BY <1>14, <2>1, PullStepType DEF PullFetch
<1>15. ASSUME PullFetchThrows PROVE TypeOK'
  <2>1. PICK part \in SUBSET (pull.ids \intersect Stored), n \in 0..MaxRetries,
             step \in {"fetch", "done"} :
           pull' = Pulled(step, n, pull.ids, pull.got \union part, FALSE, {})
    BY <1>15, PullFetchThrowsEffect
  <2>2. pull.got \union part \in SUBSET Msgs
    BY PullFields
  <2>3. pull' \in PullType(rows)
    BY <2>1, <2>2, PulledType, PullFields
  <2> QED
    BY <1>15, <2>3, PullStepType DEF PullFetchThrows
<1>16. ASSUME Crash PROVE TypeOK'
  <2>1. pull' \in PullType(rows)
    BY <1>16, PullFields DEF Crash, IdlePull, PullType
  <2>2. pc' \in [Calls -> CallPcs]
    BY <1>16 DEF Crash, TypeOK, CallPcs
  <2> QED
    BY <1>16, <2>1, <2>2 DEF Crash, TypeOK, PullType
<1>17. CASE UNCHANGED vars
  BY <1>17 DEF vars, TypeOK
<1> QED
  BY <1>1, <1>2, <1>3, <1>4, <1>5, <1>6, <1>7, <1>8, <1>9, <1>10, <1>12, <1>13, <1>14,
     <1>15, <1>16, <1>17 DEF Next, SaveStep, PullStep

-----------------------------------------------------------------------------
(* Connections.                                                            *)

LEMMA OwnedStep == TypeOK /\ Owned /\ [Next]_vars => Owned'
<1> SUFFICES ASSUME TypeOK, Owned, [Next]_vars PROVE Owned'
  OBVIOUS
<1> USE DEF Connected
(* A call that held no connection and holds none after the step. *)
<1>1. ASSUME NEW s \in Calls, pc[s] \notin Connected, pc'[s] \notin Connected,
             \A t \in Calls : t # s => pc'[t] = pc[t], UNCHANGED <<conn, free>>
      PROVE  Owned'
  BY <1>1 DEF Owned
(* A call that gives its connection back. *)
<1>2. ASSUME NEW s \in Calls, pc[s] \in Connected, pc'[s] \notin Connected,
             \A t \in Calls : t # s => pc'[t] = pc[t], GiveBack(s)
      PROVE  Owned'
  BY <1>2, GiveBackEffect DEF Owned
<1>3. ASSUME NEW s \in Calls, SaveBegin(s) \/ InsertBody(s) PROVE Owned'
  BY <1>1, <1>3 DEF SaveBegin, InsertBody, TypeOK
<1>4. ASSUME NEW s \in Calls, InsertBodyThrows(s) PROVE Owned'
  BY <1>1, <1>4, ThrowEffect DEF InsertBodyThrows, OthersStay
<1>5. ASSUME NEW s \in Calls, AcquireConnection(s) PROVE Owned'
  BY <1>5 DEF AcquireConnection, Owned, TypeOK
<1>6. ASSUME NEW s \in Calls, InsertIndex(s) PROVE Owned'
  BY <1>6 DEF InsertIndex, Owned, TypeOK
<1>7. ASSUME NEW s \in Calls,
             InsertIndexRejected(s) \/ InsertIndexThrows(s) \/ SelectThrows(s)
      PROVE  Owned'
  BY <1>2, <1>7, ThrowEffect
  DEF InsertIndexRejected, InsertIndexThrows, SelectThrows, OthersStay
<1>8. ASSUME NEW s \in Calls, SelectLastInsertId(s) PROVE Owned'
  BY <1>2, <1>8 DEF SelectLastInsertId, Return, TypeOK
<1>9. ASSUME PullBegin \/ PullStep PROVE Owned'
  BY <1>9 DEF PullBegin, PullStep, PullQuery, PullQueryThrows, PullFetch, PullFetchThrows,
              calls, Owned
<1>10. ASSUME Crash PROVE Owned'
  <2>1. \A s \in Calls : pc'[s] \notin Connected
    BY <1>10 DEF Crash, Active
  <2> QED
    BY <2>1 DEF Owned
<1>11. CASE UNCHANGED vars
  BY <1>11 DEF vars, calls, Owned
<1> QED
  BY <1>3, <1>4, <1>5, <1>6, <1>7, <1>8, <1>9, <1>10, <1>11 DEF Next, SaveStep

-----------------------------------------------------------------------------
(* Rows, bodies and numbers.                                               *)

(* Nothing is ever taken away from the stores, and a call that has begun   *)
(* keeps its message and its floor.                                        *)
Grows ==
    /\ rows \subseteq rows' /\ nextId' >= nextId /\ receiverOf' = receiverOf
    /\ \A m \in Msgs : bodies'[m] >= bodies[m]
    /\ \A t \in Calls : pc[t] # "idle" =>
          pc'[t] # "idle" /\ msgOf'[t] = msgOf[t] /\ floor'[t] = floor[t]

(* The step of call s, seen by the others. *)
StaysPut(t) ==
    /\ pc'[t] = pc[t] /\ msgOf'[t] = msgOf[t] /\ result'[t] = result[t]
    /\ floor'[t] = floor[t]
    /\ pc[t] = "ident" => conn'[t] = conn[t] /\ lastId'[conn[t]] = lastId[conn[t]]

(* A row that is new was stored by a call at its INSERT. *)
RowsFrom(s) ==
    \A row \in rows' \ rows : row = NewRow(s) /\ pc[s] = "index" /\ nextId' = nextId + 1

(* A call that stays put remains founded. *)
LEMMA PutFounded ==
    ASSUME TypeOK, TypeOK', Owned, Grows, NEW t \in Calls, StaysPut(t), CallFounded(t)
    PROVE  CallFounded(t)'
<1>1. /\ pc'[t] # "idle" => msgOf'[t] \in Msgs
      /\ pc'[t] \in BodyStored => bodies'[msgOf'[t]] > 0
  BY DEF CallFounded, StaysPut, Grows, BodyStored, TypeOK
<1>2. pc'[t] = "ident" => OwnRow(t, lastId[conn[t]])'
  BY DEF CallFounded, OwnRow, StaysPut, Grows, TypeOK
<1>3. pc'[t] = "done" /\ result'[t] # NoSeq =>
         OwnRow(t, result[t])' /\ bodies'[msgOf'[t]] > 0
  BY DEF CallFounded, OwnRow, StaysPut, Grows, TypeOK
<1>4. result'[t] < nextId' /\ floor'[t] < nextId'
  BY DEF CallFounded, StaysPut, Grows, TypeOK
<1> QED
  BY <1>1, <1>2, <1>3, <1>4 DEF CallFounded, NoSeq

(* The rows stay founded when those that are new come from a call that is. *)
LEMMA RowsStayFounded ==
    ASSUME TypeOK, TypeOK', Grows, RowsFounded, NEW s \in Calls, RowsFrom(s), CallFounded(s)
    PROVE  RowsFounded'
<1> SUFFICES ASSUME NEW row \in rows'
             PROVE  /\ row.id < nextId' /\ bodies'[row.msg] > 0
                    /\ pc'[row.by] # "idle" /\ msgOf'[row.by] = row.msg
  BY DEF RowsFounded
<1>1. CASE row \in rows
  BY <1>1 DEF RowsFounded, Grows, TypeOK
<1>2. CASE row \notin rows
  <2>1. row = NewRow(s) /\ pc[s] = "index" /\ nextId' = nextId + 1
    BY <1>2 DEF RowsFrom
  <2>2. row.id = nextId /\ row.msg = msgOf[s] /\ row.by = s
    BY <2>1 DEF NewRow
  <2>3. msgOf[s] \in Msgs /\ bodies[msgOf[s]] > 0
    BY <2>1 DEF CallFounded, BodyStored
  <2> QED
    BY <2>1, <2>2, <2>3 DEF Grows, TypeOK
<1> QED
  BY <1>1, <1>2

(* A step of call s, whatever it does: the others stay put, the stores     *)
(* grow, and new rows are its own.                                         *)
StepOf(s) == Grows /\ RowsFrom(s) /\ \A t \in Calls : t # s => StaysPut(t)

LEMMA SaveStepEffect ==
    ASSUME TypeOK, Owned, CallsFounded, NEW s \in Calls, SaveBegin(s) \/ SaveStep(s)
    PROVE  StepOf(s)
<1> USE DEF StepOf, Grows, RowsFrom, StaysPut
<1>0. pc[s] # "idle" => msgOf[s] \in Msgs
  BY DEF CallsFounded, CallFounded
<1>1. CASE SaveBegin(s)
  BY <1>1 DEF SaveBegin, stores, TypeOK
<1>2. CASE InsertBody(s)
  BY <1>0, <1>2 DEF InsertBody, OneMore, TypeOK
<1>3. CASE InsertBodyThrows(s)
  <2>1. \A m \in Msgs : bodies'[m] >= bodies[m]
    BY <1>0, <1>3 DEF InsertBodyThrows, OneMore, TypeOK
  <2> QED
    BY <1>3, <2>1, ThrowEffect DEF InsertBodyThrows, OthersStay, TypeOK
<1>4. CASE AcquireConnection(s)
  BY <1>4 DEF AcquireConnection, stores, TypeOK
<1>5. CASE InsertIndex(s)
  BY <1>5 DEF InsertIndex, Owned, Connected, TypeOK
<1>6. CASE InsertIndexRejected(s)
  <2>1. conn[s] \in Conns
    BY <1>6 DEF InsertIndexRejected, Owned, Connected
  <2> QED
    BY <1>6, <2>1, ThrowEffect, GiveBackEffect DEF InsertIndexRejected, OthersStay, TypeOK
<1>7. CASE InsertIndexThrows(s)
  <2>1. conn[s] \in Conns
    BY <1>7 DEF InsertIndexThrows, Owned, Connected
  <2>2. rows \subseteq rows' /\ nextId' >= nextId /\ RowsFrom(s)
    BY <1>7 DEF InsertIndexThrows, TypeOK
  <2> QED
    BY <1>7, <2>1, <2>2, ThrowEffect, GiveBackEffect DEF InsertIndexThrows, OthersStay, TypeOK
<1>8. CASE SelectLastInsertId(s)
  <2>1. conn[s] \in Conns /\ lastId[conn[s]] \in Nat
    BY <1>8 DEF SelectLastInsertId, Owned, Connected, TypeOK
  <2> QED
    BY <1>8, <2>1, ReturnEffect, GiveBackEffect
    DEF SelectLastInsertId, OthersStay, stores, TypeOK
<1>9. CASE SelectThrows(s)
  <2>1. conn[s] \in Conns
    BY <1>9 DEF SelectThrows, Owned, Connected
  <2> QED
    BY <1>9, <2>1, ThrowEffect, GiveBackEffect DEF SelectThrows, OthersStay, stores, TypeOK
<1> QED
  BY <1>1, <1>2, <1>3, <1>4, <1>5, <1>6, <1>7, <1>8, <1>9 DEF SaveStep

(* The call that moves is founded where it comes to. *)
LEMMA MoverFounded ==
    ASSUME TypeOK, TypeOK', Owned, RowsFounded, CallsFounded, NEW s \in Calls,
           SaveBegin(s) \/ SaveStep(s)
    PROVE  CallFounded(s)'
<1>0. CallFounded(s) /\ Grows
  BY SaveStepEffect DEF StepOf, CallsFounded
<1> USE DEF BodyStored
(* The lambda threw: there is no number, and what was stored is stored.    *)
<1>1. ASSUME pc[s] # "idle", pc'[s] = "body" \/ pc'[s] = "connect" \/ pc'[s] = "done",
             pc'[s] = "connect" => pc[s] \in BodyStored,
             pc'[s] = "done" => result'[s] = NoSeq,
             result'[s] \in {result[s], NoSeq}
      PROVE  CallFounded(s)'
  BY <1>0, <1>1 DEF CallFounded, Grows, NoSeq, TypeOK
<1>2. CASE SaveBegin(s)
  <2>1. floor'[s] < nextId' /\ pc'[s] = "body" /\ msgOf'[s] \in Msgs /\ result'[s] = result[s]
    BY <1>2, FloorBelow DEF SaveBegin, stores, TypeOK
  <2> QED
    BY <1>0, <2>1 DEF CallFounded, Grows, TypeOK
<1>3. CASE InsertBody(s)
  <2>1. pc'[s] = "connect" /\ bodies'[msgOf'[s]] > 0 /\ result'[s] = result[s]
    BY <1>0, <1>3 DEF InsertBody, OneMore, CallFounded, TypeOK
  <2>2. pc[s] # "idle"
    BY <1>3 DEF InsertBody
  <2> QED
    BY <1>0, <2>1, <2>2 DEF CallFounded, Grows, TypeOK
<1>4. CASE InsertBodyThrows(s)
  BY <1>1, <1>4, ThrowEffect DEF InsertBodyThrows
<1>5. CASE AcquireConnection(s)
  <2>1. pc[s] = "connect" /\ pc'[s] = "index" /\ result'[s] = result[s]
    BY <1>5 DEF AcquireConnection, TypeOK
  <2> QED
    BY <1>0, <2>1 DEF CallFounded, Grows, TypeOK
<1>6. CASE InsertIndex(s)
  <2>1. /\ pc[s] = "index" /\ pc'[s] = "ident" /\ result'[s] = result[s]
        /\ conn[s] \in Conns /\ conn'[s] = conn[s] /\ lastId'[conn[s]] = nextId
        /\ NewRow(s) \in rows' /\ msgOf'[s] = msgOf[s] /\ floor'[s] = floor[s]
    BY <1>6 DEF InsertIndex, Owned, Connected, TypeOK
  <2>2. OwnRow(s, lastId[conn[s]])'
    BY <1>0, <2>1 DEF OwnRow, NewRow, CallFounded, TypeOK
  <2> QED
    BY <1>0, <2>1, <2>2 DEF CallFounded, Grows, TypeOK
<1>7. CASE InsertIndexRejected(s) \/ InsertIndexThrows(s) \/ SelectThrows(s)
  BY <1>1, <1>7, ThrowEffect DEF InsertIndexRejected, InsertIndexThrows, SelectThrows
<1>8. CASE SelectLastInsertId(s)
  <2>1. conn[s] \in Conns /\ lastId[conn[s]] \in Nat /\ pc[s] = "ident"
    BY <1>8 DEF SelectLastInsertId, Owned, Connected, TypeOK
  <2>2. /\ pc'[s] = "done" /\ result'[s] = lastId[conn[s]]
        /\ UNCHANGED <<rows, bodies, nextId, msgOf, floor>>
    BY <1>8, <2>1, ReturnEffect DEF SelectLastInsertId, stores
  <2>3. OwnRow(s, result[s])'
    BY <1>0, <2>1, <2>2 DEF OwnRow, CallFounded
  <2>4. bodies'[msgOf'[s]] > 0
    BY <1>0, <2>1, <2>2 DEF CallFounded
  <2>5. result'[s] < nextId'
    <3>1. PICK row \in rows : row.id = lastId[conn[s]]
      BY <1>0, <2>1 DEF CallFounded, OwnRow
    <3> QED
      BY <2>2, <3>1 DEF RowsFounded
  <2> QED
    BY <1>0, <2>1, <2>2, <2>3, <2>4, <2>5 DEF CallFounded
<1> QED
  BY <1>2, <1>3, <1>4, <1>5, <1>6, <1>7, <1>8 DEF SaveStep

(* A step that no call takes: the pull, or the crash that ends the calls.  *)
LEMMA OtherStepEffect ==
    ASSUME TypeOK, PullBegin \/ PullStep \/ Crash \/ UNCHANGED vars
    PROVE  /\ Grows /\ rows' = rows
           /\ \A t \in Calls : StaysPut(t)
                 \/ (pc'[t] = "crashed" /\ pc[t] # "idle" /\ result'[t] = result[t])
<1> USE DEF Grows, StaysPut, stores, calls
<1>1. CASE PullBegin \/ PullStep
  <2>1. UNCHANGED <<stores, lastId, calls>>
    BY <1>1 DEF PullBegin, PullStep, PullQuery, PullQueryThrows, PullFetch, PullFetchThrows
  <2> QED
    BY <2>1 DEF TypeOK
<1>2. CASE Crash
  <2>1. \A t \in Calls : pc'[t] = IF Active(t) THEN "crashed" ELSE pc[t]
    BY <1>2 DEF Crash
  <2> QED
    BY <1>2, <2>1 DEF Crash, Active, TypeOK
<1>3. CASE UNCHANGED vars
  BY <1>3 DEF vars, TypeOK
<1> QED
  BY <1>1, <1>2, <1>3

(* Rows and calls stay founded. *)
LEMMA FoundedStep ==
    TypeOK /\ TypeOK' /\ Owned /\ RowsFounded /\ CallsFounded /\ [Next]_vars =>
        RowsFounded' /\ CallsFounded' /\ Grows
<1> SUFFICES ASSUME TypeOK, TypeOK', Owned, RowsFounded, CallsFounded, [Next]_vars
             PROVE  RowsFounded' /\ CallsFounded' /\ Grows
  OBVIOUS
<1>1. ASSUME NEW s \in Calls, SaveBegin(s) \/ SaveStep(s)
      PROVE  RowsFounded' /\ CallsFounded' /\ Grows
  <2>1. StepOf(s)
    BY <1>1, SaveStepEffect
  <2>2. RowsFounded'
    BY <2>1, RowsStayFounded DEF StepOf, CallsFounded
  <2>3. CallFounded(s)'
    BY <1>1, MoverFounded
  <2>4. ASSUME NEW t \in Calls, t # s PROVE CallFounded(t)'
    BY <2>1, <2>4, PutFounded DEF StepOf, CallsFounded
  <2> QED
    BY <2>1, <2>2, <2>3, <2>4 DEF StepOf, CallsFounded
<1>2. ASSUME PullBegin \/ PullStep \/ Crash \/ UNCHANGED vars
      PROVE  RowsFounded' /\ CallsFounded' /\ Grows
  <2>1. /\ Grows /\ rows' = rows
        /\ \A t \in Calls : StaysPut(t)
              \/ (pc'[t] = "crashed" /\ pc[t] # "idle" /\ result'[t] = result[t])
    BY <1>2, OtherStepEffect
  <2>2. RowsFounded'
    BY <2>1 DEF RowsFounded, Grows, TypeOK
  <2>3. ASSUME NEW t \in Calls PROVE CallFounded(t)'
    <3>1. CASE StaysPut(t)
      BY <2>1, <3>1, PutFounded DEF CallsFounded
    <3>2. CASE pc'[t] = "crashed" /\ pc[t] # "idle" /\ result'[t] = result[t]
      BY <2>1, <3>2 DEF CallsFounded, CallFounded, BodyStored, Grows, TypeOK
    <3> QED
      BY <2>1, <3>1, <3>2
  <2> QED
    BY <2>1, <2>2, <2>3 DEF CallsFounded
<1> QED
  BY <1>1, <1>2 DEF Next

-----------------------------------------------------------------------------
(* Pulls.                                                                  *)

(* What a query selects, whole or in part, is found. *)
LEMMA SelectedFound ==
    ASSUME TypeOK, NEW part \in SUBSET Selected
    PROVE  \A m \in MsgsIn(part) : Found(m)
BY DEF Selected, MsgsIn, Found, TypeOK

(* A step of the pull keeps its user and its cursor, so what was found     *)
(* remains found.                                                          *)
LEMMA FoundStays ==
    ASSUME TypeOK, Grows, pull'.user = pull.user, pull'.cursor = pull.cursor,
           NEW m, Found(m)
    PROVE  Found(m)'
BY DEF Found, Receiver, Grows, TypeOK

LEMMA PullStepFounded ==
    TypeOK /\ TypeOK' /\ Grows /\ RowsFounded /\ PullFounded /\ [Next]_vars => PullFounded'
<1> SUFFICES ASSUME TypeOK, TypeOK', Grows, RowsFounded, PullFounded, [Next]_vars
             PROVE  PullFounded'
  OBVIOUS
<1>1. CASE UNCHANGED pull
  <2>1. \A m : Found(m) => Found(m)'
    BY <1>1, FoundStays
  <2> QED
    BY <1>1, <2>1 DEF PullFounded, MsgsIn
<1>2. CASE PullBegin
  <2>1. PICK u \in Users, last \in Nat : pull' = PullBegun(u, last)
    BY <1>2, PullBeginEffect
  <2> QED
    BY <2>1 DEF PullBegun, PullFounded
<1>3. CASE Crash
  BY <1>3 DEF Crash, IdlePull, PullFounded
<1>4. CASE PullQuery
  <2> DEFINE ids == pull.ids \union MsgsIn(Selected)
             step == IF ids = {} THEN "done" ELSE "fetch"
  <2>1. pull' = Pulled(step, 0, ids, pull.got, pull.clean, Selected) /\ pull.pc = "query"
    BY <1>4, PullQueryEffect DEF PullQuery
  <2>2. /\ pull'.pc = step /\ pull'.ids = ids /\ pull'.got = pull.got
        /\ pull'.clean = pull.clean /\ pull'.due = Selected
        /\ pull'.user = pull.user /\ pull'.cursor = pull.cursor
    BY <2>1 DEF Pulled
  <2>3. \A m \in ids : Found(m)'
    BY <2>2, FoundStays, SelectedFound DEF PullFounded
  <2>4. pull'.clean => ids = MsgsIn(Selected) /\ pull.got = {}
    BY <2>1, <2>2 DEF PullFounded
  <2>5. pull'.got \subseteq pull'.ids
    BY <2>2 DEF PullFounded
  <2> HIDE DEF ids
  <2> QED
    BY <2>2, <2>3, <2>4, <2>5 DEF PullFounded, MsgsIn
<1>5. CASE PullQueryThrows
  <2>1. PICK part \in SUBSET Selected, n \in 0..MaxRetries, step \in {"query", "fetch", "done"} :
           pull' = Pulled(step, n, pull.ids \union MsgsIn(part), pull.got, FALSE, pull.due)
    BY <1>5, PullQueryThrowsEffect
  <2>2. /\ pull'.ids = pull.ids \union MsgsIn(part) /\ pull'.got = pull.got /\ ~pull'.clean
        /\ pull'.user = pull.user /\ pull'.cursor = pull.cursor
    BY <2>1 DEF Pulled
  <2>3. \A m \in pull'.ids : Found(m)'
    BY <2>2, FoundStays, SelectedFound DEF PullFounded
  <2> QED
    BY <2>2, <2>3 DEF PullFounded
<1>6. CASE PullFetch
  <2>1. /\ pull' = Pulled("done", 0, pull.ids, pull.got \union (pull.ids \intersect Stored),
                          pull.clean, pull.due)
        /\ pull.pc = "fetch"
    BY <1>6, PullFetchEffect DEF PullFetch
  <2>2. /\ pull'.pc = "done" /\ pull'.ids = pull.ids
        /\ pull'.got = pull.got \union (pull.ids \intersect Stored)
        /\ pull'.clean = pull.clean /\ pull'.due = pull.due
        /\ pull'.user = pull.user /\ pull'.cursor = pull.cursor
    BY <2>1 DEF Pulled
  <2>3. \A m \in pull'.ids : Found(m)'
    BY <2>2, FoundStays DEF PullFounded
  <2>4. pull.ids \subseteq Stored
    BY PullFields DEF PullFounded, Found, RowsFounded, Stored
  <2>5. pull'.clean => pull'.got = MsgsIn(pull.due)
    BY <2>1, <2>2, <2>4 DEF PullFounded
  <2> QED
    BY <2>2, <2>3, <2>5 DEF PullFounded, MsgsIn
<1>7. CASE PullFetchThrows
  <2>1. PICK part \in SUBSET (pull.ids \intersect Stored), n \in 0..MaxRetries,
             step \in {"fetch", "done"} :
           pull' = Pulled(step, n, pull.ids, pull.got \union part, FALSE, {})
    BY <1>7, PullFetchThrowsEffect
  <2>2. /\ pull'.ids = pull.ids /\ pull'.got = pull.got \union part /\ ~pull'.clean
        /\ pull'.user = pull.user /\ pull'.cursor = pull.cursor
    BY <2>1 DEF Pulled
  <2>3. \A m \in pull'.ids : Found(m)'
    BY <2>2, FoundStays DEF PullFounded
  <2> QED
    BY <2>2, <2>3 DEF PullFounded
<1>8. ASSUME NEW s \in Calls, SaveBegin(s) \/ SaveStep(s) PROVE UNCHANGED pull
  BY <1>8 DEF SaveBegin, SaveStep, InsertBody, InsertBodyThrows, AcquireConnection,
     InsertIndex, InsertIndexRejected, InsertIndexThrows, SelectLastInsertId, SelectThrows
<1>9. UNCHANGED vars => UNCHANGED pull
  BY DEF vars
<1> QED
  BY <1>1, <1>2, <1>3, <1>4, <1>5, <1>6, <1>7, <1>8, <1>9 DEF Next, PullStep

-----------------------------------------------------------------------------
(* Copies.                                                                 *)

(* How a step changes the counts: a fault is for ever, only InsertBody     *)
(* adds a document without one, and only InsertIndex a row.                *)
LEMMA OneRowStep ==
    TypeOK /\ TypeOK' /\ Owned /\ RowsFounded /\ CallsFounded /\ OneRowEach /\ [Next]_vars =>
        OneRowEach'
<1> SUFFICES ASSUME TypeOK, TypeOK', Owned, RowsFounded, CallsFounded, OneRowEach,
                    [Next]_vars
             PROVE  OneRowEach'
  OBVIOUS
<1> DEFINE Final == {"ident", "done", "crashed"}
<1>0. \A row \in rows : row.by \in Calls /\ pc[row.by] # "idle"
  BY DEF RowsFounded, TypeOK
(* A step of call s that stores nothing: s met a fault, or is not yet, or  *)
(* still, where its row is.                                                *)
<1>1. ASSUME NEW s \in Calls, rows' = rows,
             \A t \in Calls : t # s => pc'[t] = pc[t] /\ faulty'[t] = faulty[t],
             faulty'[s] \/ (faulty'[s] = faulty[s] /\ (pc[s] \in Final => pc'[s] \in Final))
      PROVE  OneRowEach'
  BY <1>0, <1>1 DEF OneRowEach, TypeOK
<1>2. ASSUME NEW s \in Calls, Throw(s, "body") \/ Throw(s, "connect")
      PROVE  \A t \in Calls : t # s => pc'[t] = pc[t]
  BY <1>2, ThrowEffect DEF OthersStay
<1>3. ASSUME NEW s \in Calls, Fault(s)
      PROVE  faulty'[s] /\ \A t \in Calls : t # s => faulty'[t] = faulty[t]
  BY <1>3 DEF Fault, TypeOK
<1>4. ASSUME NEW s \in Calls,
             SaveBegin(s) \/ InsertBody(s) \/ AcquireConnection(s) \/ SelectLastInsertId(s)
      PROVE  OneRowEach'
  BY <1>1, <1>4
  DEF SaveBegin, InsertBody, AcquireConnection, SelectLastInsertId, Return, stores, TypeOK
<1>5. ASSUME NEW s \in Calls, InsertBodyThrows(s) \/ SelectThrows(s) PROVE OneRowEach'
  BY <1>1, <1>2, <1>3, <1>5 DEF InsertBodyThrows, SelectThrows, stores
<1>6. ASSUME NEW s \in Calls, InsertIndexRejected(s) PROVE OneRowEach'
  BY <1>1, <1>2, <1>6 DEF InsertIndexRejected
<1>7. ASSUME NEW s \in Calls, InsertIndex(s) PROVE OneRowEach'
  <2>1. /\ pc[s] = "index" /\ pc'[s] = "ident" /\ faulty' = faulty
        /\ rows' = rows \union {NewRow(s)}
        /\ \A t \in Calls : t # s => pc'[t] = pc[t]
    BY <1>7 DEF InsertIndex, TypeOK
  <2>2. NewRow(s).by = s
    BY DEF NewRow
  <2>3. ~faulty[s] => \A row \in rows : row.by # s
    BY <2>1 DEF OneRowEach
  <2> QED
    BY <1>0, <2>1, <2>2, <2>3 DEF OneRowEach
<1>8. ASSUME NEW s \in Calls, InsertIndexThrows(s) PROVE OneRowEach'
  <2>1. rows' = rows \/ rows' = rows \union {NewRow(s)}
    BY <1>8 DEF InsertIndexThrows
  <2>2. faulty'[s] /\ \A t \in Calls : t # s => pc'[t] = pc[t] /\ faulty'[t] = faulty[t]
    BY <1>2, <1>3, <1>8 DEF InsertIndexThrows
  <2>3. NewRow(s).by = s
    BY DEF NewRow
  <2> QED
    BY <1>0, <2>1, <2>2, <2>3 DEF OneRowEach
<1>9. ASSUME PullBegin \/ PullStep \/ Crash \/ UNCHANGED vars PROVE OneRowEach'
  <2>1. rows' = rows /\ faulty' = faulty
    BY <1>9 DEF PullBegin, PullStep, PullQuery, PullQueryThrows, PullFetch, PullFetchThrows,
                Crash, vars, stores, calls
  <2>2. \A t \in Calls : pc'[t] = pc[t] \/ pc'[t] = "crashed"
    BY <1>9, OtherStepEffect DEF StaysPut
  <2> QED
    BY <1>0, <2>1, <2>2 DEF OneRowEach
<1> QED
  BY <1>4, <1>5, <1>6, <1>7, <1>8, <1>9 DEF Next, SaveStep

(* A message whose calls met no fault had none before the step. *)
LEMMA CleanBefore ==
    ASSUME TypeOK, Owned, CallsFounded, [Next]_vars, NEW m \in Msgs, Clean(m)'
    PROVE  Clean(m)
<1>1. \A t \in Calls : pc[t] # "idle" => pc'[t] # "idle" /\ msgOf'[t] = msgOf[t]
  <2>1. ASSUME NEW s \in Calls, SaveBegin(s) \/ SaveStep(s) PROVE Grows
    BY <2>1, SaveStepEffect DEF StepOf
  <2>2. ASSUME PullBegin \/ PullStep \/ Crash \/ UNCHANGED vars PROVE Grows
    BY <2>2, OtherStepEffect
  <2>3. Grows
    BY <2>1, <2>2 DEF Next
  <2> QED
    BY <2>3 DEF Grows
<1>2. \A t \in Calls : faulty[t] => faulty'[t]
  <2>1. ASSUME NEW s \in Calls, Fault(s) PROVE \A t \in Calls : faulty[t] => faulty'[t]
    BY <2>1 DEF Fault, TypeOK
  <2>2. CASE UNCHANGED faulty
    BY <2>2
  <2>3. ASSUME NEW s \in Calls, SaveBegin(s) \/ SaveStep(s) PROVE UNCHANGED faulty \/ Fault(s)
    BY <2>3 DEF SaveBegin, SaveStep, InsertBody, InsertBodyThrows, AcquireConnection,
       InsertIndex, InsertIndexRejected, InsertIndexThrows, SelectLastInsertId, SelectThrows
  <2>4. ASSUME PullBegin \/ PullStep \/ Crash \/ UNCHANGED vars PROVE UNCHANGED faulty
    BY <2>4 DEF PullBegin, PullStep, PullQuery, PullQueryThrows, PullFetch, PullFetchThrows,
                Crash, vars, calls
  <2> QED
    BY <2>1, <2>2, <2>3, <2>4 DEF Next
<1> QED
  BY <1>1, <1>2 DEF Clean

(* A message has at most one document for each of its calls past           *)
(* MsgBodyDao::Insert, unless a call met a fault.                          *)
BodiesCounted == \A m \in Msgs : Clean(m) => bodies[m] <= Cardinality(PastBody(m))

LEMMA BodiesStep ==
    ASSUME IsFiniteSet(Calls)
    PROVE  TypeOK /\ TypeOK' /\ Owned /\ CallsFounded /\ BodiesCounted /\ [Next]_vars =>
               BodiesCounted'
<1> SUFFICES ASSUME TypeOK, TypeOK', Owned, CallsFounded, BodiesCounted, [Next]_vars,
                    NEW m \in Msgs, Clean(m)'
             PROVE  bodies'[m] <= Cardinality(PastBody(m)')
  BY DEF BodiesCounted
<1>1. /\ IsFiniteSet(PastBody(m)) /\ Cardinality(PastBody(m)) \in Nat
      /\ IsFiniteSet(PastBody(m)') /\ Cardinality(PastBody(m)') \in Nat
  BY FS_Subset, FS_CardinalityType DEF PastBody
<1>2. bodies[m] <= Cardinality(PastBody(m)) /\ bodies[m] \in Nat
  BY CleanBefore DEF BodiesCounted, TypeOK
(* No document of m is stored, and no call comes back to the first DAO. *)
<1>3. ASSUME bodies'[m] = bodies[m], PastBody(m) \subseteq PastBody(m)'
      PROVE  bodies'[m] <= Cardinality(PastBody(m)')
  <2>1. Cardinality(PastBody(m)) <= Cardinality(PastBody(m)')
    BY <1>1, <1>3, FS_Subset
  <2> QED
    BY <1>1, <1>2, <1>3, <2>1
<1>4. ASSUME NEW s \in Calls, InsertBody(s)
      PROVE  bodies'[m] <= Cardinality(PastBody(m)')
  <2>1. /\ pc[s] = "body" /\ pc'[s] = "connect" /\ msgOf' = msgOf /\ msgOf[s] \in Msgs
        /\ \A t \in Calls : t # s => pc'[t] = pc[t]
        /\ \A k \in Msgs : bodies'[k] = IF k = msgOf[s] THEN bodies[k] + 1 ELSE bodies[k]
    BY <1>4 DEF InsertBody, OneMore, CallsFounded, CallFounded, TypeOK
  <2>2. CASE msgOf[s] = m
    <3>1. PastBody(m)' = PastBody(m) \union {s} /\ s \notin PastBody(m)
      BY <2>1, <2>2 DEF PastBody
    <3>2. Cardinality(PastBody(m)') = Cardinality(PastBody(m)) + 1
      BY <1>1, <3>1, FS_AddElement
    <3> QED
      BY <1>1, <1>2, <2>1, <2>2, <3>2
  <2>3. CASE msgOf[s] # m
    <3>1. PastBody(m) \subseteq PastBody(m)'
      BY <2>1 DEF PastBody
    <3> QED
      BY <1>3, <2>1, <2>3, <3>1
  <2> QED
    BY <2>2, <2>3
<1>5. ASSUME NEW s \in Calls, InsertBodyThrows(s)
      PROVE  bodies'[m] <= Cardinality(PastBody(m)')
  <2>1. /\ pc[s] = "body" /\ pc'[s] # "idle" /\ msgOf' = msgOf /\ faulty'[s]
        /\ \A t \in Calls : t # s => pc'[t] = pc[t]
    BY <1>5, ThrowEffect DEF InsertBodyThrows, Fault, OthersStay, TypeOK
  <2>2. msgOf[s] # m /\ msgOf[s] \in Msgs
    BY <2>1 DEF Clean, CallsFounded, CallFounded
  <2>3. bodies'[m] = bodies[m]
    BY <1>5, <2>2 DEF InsertBodyThrows, OneMore, TypeOK
  <2>4. PastBody(m) \subseteq PastBody(m)'
    BY <2>1 DEF PastBody
  <2> QED
    BY <1>3, <2>3, <2>4
<1>6. ASSUME NEW s \in Calls,
             \/ SaveBegin(s) \/ AcquireConnection(s) \/ InsertIndex(s) \/ SelectLastInsertId(s)
             \/ InsertIndexRejected(s) \/ InsertIndexThrows(s) \/ SelectThrows(s)
      PROVE  bodies'[m] <= Cardinality(PastBody(m)')
  <2>1. bodies' = bodies
    BY <1>6 DEF SaveBegin, AcquireConnection, InsertIndex, SelectLastInsertId,
                InsertIndexRejected, InsertIndexThrows, SelectThrows, stores
  <2>2. /\ \A t \in Calls : t # s => pc'[t] = pc[t] /\ msgOf'[t] = msgOf[t]
        /\ pc[s] # "idle" => msgOf'[s] = msgOf[s]
    BY <1>6, SaveStepEffect DEF SaveStep, StepOf, StaysPut, Grows
  <2>3. pc[s] = "idle" \/ pc'[s] \notin {"idle", "body"}
    BY <1>6, ThrowEffect DEF AcquireConnection, InsertIndex, SelectLastInsertId, Return,
       InsertIndexRejected, InsertIndexThrows, SelectThrows, SaveBegin, TypeOK
  <2>4. PastBody(m) \subseteq PastBody(m)'
    BY <2>2, <2>3 DEF PastBody
  <2> QED
    BY <1>3, <2>1, <2>4
<1>7. ASSUME PullBegin \/ PullStep \/ Crash \/ UNCHANGED vars
      PROVE  bodies'[m] <= Cardinality(PastBody(m)')
  <2>1. bodies' = bodies /\ msgOf' = msgOf
    BY <1>7 DEF PullBegin, PullStep, PullQuery, PullQueryThrows, PullFetch, PullFetchThrows,
                Crash, vars, stores, calls
  <2>2. \A t \in Calls : pc'[t] = pc[t] \/ pc'[t] = "crashed"
    BY <1>7, OtherStepEffect DEF StaysPut
  <2>3. PastBody(m) \subseteq PastBody(m)'
    BY <2>1, <2>2 DEF PastBody
  <2> QED
    BY <1>3, <2>1, <2>3
<1> QED
  BY <1>4, <1>5, <1>6, <1>7 DEF Next, SaveStep

(* The calls of a message, and its rows. *)
CallsOf(m) == {s \in Calls : msgOf[s] = m /\ pc[s] # "idle"}
RowsOf(m) == {row \in rows : row.msg = m}

(* Rows of a message without a fault have different calls. *)
LEMMA RowsCounted ==
    ASSUME IsFiniteSet(Calls), TypeOK, RowsFounded, OneRowEach, NEW m \in Msgs, Clean(m)
    PROVE  Cardinality(RowsOf(m)) <= Cardinality(CallsOf(m))
<1> DEFINE f == [row \in RowsOf(m) |-> row.by]
<1>1. IsFiniteSet(CallsOf(m))
  BY FS_Subset DEF CallsOf
<1>2. f \in [RowsOf(m) -> CallsOf(m)]
  BY DEF RowsOf, CallsOf, RowsFounded, TypeOK
<1>3. ASSUME NEW q \in RowsOf(m), NEW r \in RowsOf(m), f[q] = f[r] PROVE q = r
  <2>1. q \in rows /\ r \in rows /\ q.by = r.by /\ r.by \in CallsOf(m)
    BY <1>2, <1>3 DEF RowsOf
  <2>2. ~faulty[r.by]
    BY <2>1 DEF Clean, CallsOf
  <2> QED
    BY <2>1, <2>2 DEF OneRowEach
<1>4. f \in Injection(RowsOf(m), CallsOf(m))
  BY <1>2, <1>3 DEF Injection, IsInjective
<1> QED
  BY <1>1, <1>4, FS_Injection

-----------------------------------------------------------------------------
(* The results.                                                            *)

LEMMA InitStoreInv == Init => StoreInv
<1> SUFFICES ASSUME Init PROVE StoreInv
  OBVIOUS
<1>1. TypeOK
  BY InitType
<1>2. Owned /\ RowsFounded /\ CallsFounded
  BY DEF Init, Owned, Connected, RowsFounded, CallsFounded, CallFounded, BodyStored, NoSeq
<1>3. PullFounded
  BY DEF Init, IdlePull, PullFounded
<1> QED
  BY <1>1, <1>2, <1>3 DEF StoreInv

LEMMA StoreInvStep == StoreInv /\ [Next]_vars => StoreInv'
BY TypeStep, OwnedStep, FoundedStep, PullStepFounded DEF StoreInv

LEMMA StoreInvHolds == Spec => []StoreInv
BY InitStoreInv, StoreInvStep, PTL DEF Spec

(* The variables keep their types. *)
THEOREM StoreTypeCorrect == Spec => []TypeOK
<1>1. StoreInv => TypeOK
  BY DEF StoreInv
<1> QED
  BY <1>1, StoreInvHolds, PTL

(* SaveMessage stores the body first and stops if that fails: whatever     *)
(* throws, is retried or crashes, every index row has its body.            *)
THEOREM StoreBodyBeforeIndex == Spec => []BodyBeforeIndex
<1>1. StoreInv => BodyBeforeIndex
  BY DEF StoreInv, RowsFounded, BodyBeforeIndex
<1> QED
  BY <1>1, StoreInvHolds, PTL

(* LAST_INSERT_ID is read on the connection of the INSERT, which nobody    *)
(* else uses: the number SaveMessage returns is that of its own row.       *)
THEOREM StoreSavedIsOwn == Spec => []SavedIsOwn
<1>1. StoreInv => SavedIsOwn
  BY DEF StoreInv, CallsFounded, CallFounded, OwnRow, SavedIsOwn
<1> QED
  BY <1>1, StoreInvHolds, PTL

(* A returned number is larger than all that had been returned when its    *)
(* call began, however the calls interleave, and across crashes.           *)
THEOREM StoreSeqOrder == Spec => []SeqOrder
<1>1. StoreInv => SeqOrder
  BY DEF StoreInv, CallsFounded, CallFounded, OwnRow, SeqOrder
<1> QED
  BY <1>1, StoreInvHolds, PTL

(* Retries store nothing twice by themselves: a message has more documents *)
(* or rows than calls only if a store failed one of them.                  *)
THEOREM StoreCopiesNeedFaults ==
    ASSUME IsFiniteSet(Calls)
    PROVE  Spec => []CopiesNeedFaults
<1> DEFINE CopiesInv == OneRowEach /\ BodiesCounted
<1>1. Init => CopiesInv
  <2> SUFFICES ASSUME Init PROVE CopiesInv
    OBVIOUS
  <2>1. OneRowEach
    BY DEF Init, OneRowEach
  <2>2. ASSUME NEW m \in Msgs PROVE bodies[m] <= Cardinality(PastBody(m))
    <3>1. PastBody(m) = {} /\ bodies[m] = 0
      BY DEF Init, PastBody
    <3> QED
      BY <3>1, FS_EmptySet
  <2> QED
    BY <2>1, <2>2 DEF BodiesCounted
<1>2. StoreInv /\ StoreInv' /\ CopiesInv /\ [Next]_vars => CopiesInv'
  BY OneRowStep, BodiesStep DEF StoreInv
<1>3. StoreInv /\ CopiesInv => CopiesNeedFaults
  <2> SUFFICES ASSUME StoreInv, CopiesInv, NEW m \in Msgs,
                      \A s \in CallsOf(m) : ~faulty[s]
               PROVE  /\ bodies[m] <= Cardinality(CallsOf(m))
                      /\ Cardinality(RowsOf(m)) <= Cardinality(CallsOf(m))
    BY DEF CopiesNeedFaults, CallsOf, RowsOf
  <2>1. Clean(m)
    BY DEF Clean, CallsOf
  <2>2. IsFiniteSet(CallsOf(m)) /\ PastBody(m) \subseteq CallsOf(m)
    BY FS_Subset DEF CallsOf, PastBody
  <2>3. /\ Cardinality(PastBody(m)) <= Cardinality(CallsOf(m))
        /\ Cardinality(PastBody(m)) \in Nat /\ Cardinality(CallsOf(m)) \in Nat
    BY <2>2, FS_Subset, FS_CardinalityType
  <2>4. bodies[m] <= Cardinality(PastBody(m)) /\ bodies[m] \in Nat
    BY <2>1 DEF BodiesCounted, StoreInv, TypeOK
  <2>5. Cardinality(RowsOf(m)) <= Cardinality(CallsOf(m))
    BY <2>1, RowsCounted DEF StoreInv
  <2> QED
    BY <2>3, <2>4, <2>5
<1> HIDE DEF CopiesInv
<1> QED
  BY <1>1, <1>2, <1>3, StoreInvHolds, PTL DEF Spec

(* PullOfflineMessages without an error returns the bodies of all rows of  *)
(* its query.                                                              *)
THEOREM StorePullComplete == Spec => []PullComplete
<1>1. StoreInv => PullComplete
  BY DEF StoreInv, PullFounded, PullComplete
<1> QED
  BY <1>1, StoreInvHolds, PTL

(* PullOfflineMessages returns only messages that have a row of the user   *)
(* above the cursor, also after a query that failed half way.              *)
THEOREM StorePullSound == Spec => []PullSound
<1>1. StoreInv => PullSound
  BY DEF StoreInv, PullFounded, Found, PullSound
<1> QED
  BY <1>1, StoreInvHolds, PTL

=============================================================================

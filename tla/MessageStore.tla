---------------------------- MODULE MessageStore ----------------------------
(***************************************************************************)
(* The message service: MessageService::SaveMessage stores a message body  *)
(* in MongoDB and then an index row in MySQL; PullOfflineMessages reads    *)
(* the index above a cursor and fetches the bodies.  Each DAO call runs in *)
(* ExecuteWithRetry, so a statement that took effect and whose answer was  *)
(* lost is executed again.                                                 *)
(*                                                                         *)
(* A sequence number "SEQ_<ms>_<id>" is abstracted to id, the only part    *)
(* FetchOfflineMsgIds reads back; NoSeq is the empty string.  The pool is  *)
(* what MysqlPool promises: a connection has one user at a time.  It never *)
(* replaces a connection that broke.                                       *)
(***************************************************************************)
EXTENDS Integers, FiniteSets

CONSTANTS
    Calls,        \* executions of SaveMessage
    Msgs,         \* client generated message ids
    Users,        \* receivers
    Conns,        \* MySQL connections of the pool
    MaxRetries,   \* max_retries of the DAOs
    Limit,        \* limit of a pull
    MaxCrashes,   \* bound: crashes of the service process
    NoConn,
    NoMsg,
    NoUser

ASSUME StoreAssumption ==
    /\ MaxRetries \in Nat
    /\ Limit \in Nat \ {0}
    /\ MaxCrashes \in Nat
    /\ NoConn \notin Conns
    /\ NoMsg \notin Msgs
    /\ NoUser \notin Users

VARIABLES
    receiverOf, \* the receiver that each client message names
    uniqueKey,  \* message_index has the unique key idx_receiver_seq
    bodies,     \* how many documents MongoDB has for each message
    rows,       \* message_index: records [id, msg, by]
    nextId,     \* AUTO_INCREMENT of message_index
    lastId,     \* LAST_INSERT_ID() of each connection
    free,       \* connections in the pool
    broken,     \* connections that lost their server
    pc,         \* where each call is
    msgOf,      \* the message it saves: several calls may retry one message
    attempt,    \* attempt of the DAO the call is in
    conn,       \* the connection of the call's guard
    result,     \* what SaveMessage returned
    faulty,     \* the call met a fault of a store
    floor,      \* history: the largest number returned before the call began
    pull,       \* the state of the one pull modelled
    crashes

stores == <<receiverOf, uniqueKey, bodies, rows, nextId>>
calls == <<pc, msgOf, attempt, conn, result, faulty, floor>>
vars == <<stores, lastId, free, broken, calls, pull, crashes>>

NoSeq == 0

Receiver(row) == receiverOf[row.msg]

(* The numbers that calls have returned, for user u or for anybody. *)
Returned == {result[s] : s \in {x \in Calls : pc[x] = "done"}} \ {NoSeq}
ReturnedTo(u) ==
    {result[s] : s \in {x \in Calls : pc[x] = "done" /\ receiverOf[msgOf[x]] = u}} \ {NoSeq}

MaxOf(S) == CHOOSE x \in S \union {0} : \A y \in S : x >= y

IdlePull == [pc |-> "idle", user |-> NoUser, cursor |-> 0,
             attempt |-> 0, ids |-> {}, got |-> {}, clean |-> TRUE, due |-> {}]

Init ==
    /\ receiverOf \in [Msgs -> Users]
    /\ uniqueKey \in BOOLEAN
    /\ bodies = [m \in Msgs |-> 0]
    /\ rows = {}
    /\ nextId = 1
    /\ lastId = [c \in Conns |-> 0]
    /\ free = Conns
    /\ broken = {}
    /\ pc = [s \in Calls |-> "idle"]
    /\ msgOf = [s \in Calls |-> NoMsg]
    /\ attempt = [s \in Calls |-> 0]
    /\ conn = [s \in Calls |-> NoConn]
    /\ result = [s \in Calls |-> NoSeq]
    /\ faulty = [s \in Calls |-> FALSE]
    /\ floor = [s \in Calls |-> 0]
    /\ pull = IdlePull
    /\ crashes = 0

-----------------------------------------------------------------------------
(* Steps shared by the DAO calls of a SaveMessage.                         *)

(* SaveMessage returns seq. *)
Return(s, seq) ==
    /\ pc' = [pc EXCEPT ![s] = "done"]
    /\ result' = [result EXCEPT ![s] = seq]
    /\ attempt' = [attempt EXCEPT ![s] = 0]

(* The lambda throws: sleep and try again, or give up, in which case the   *)
(* DAO returns its failure value and SaveMessage the empty string.         *)
Throw(s, again) ==
    \/ /\ attempt[s] < MaxRetries
       /\ attempt' = [attempt EXCEPT ![s] = @ + 1]
       /\ pc' = [pc EXCEPT ![s] = again]
       /\ UNCHANGED result
    \/ /\ attempt[s] >= MaxRetries
       /\ Return(s, NoSeq)

GiveBack(s) ==
    /\ conn' = [conn EXCEPT ![s] = NoConn]
    /\ free' = free \union {conn[s]}

Fault(s) == faulty' = [faulty EXCEPT ![s] = TRUE]

-----------------------------------------------------------------------------
(* SaveMessage.                                                            *)

SaveBegin(s) ==
    /\ pc[s] = "idle"
    /\ pc' = [pc EXCEPT ![s] = "body"]
    /\ \E m \in Msgs : msgOf' = [msgOf EXCEPT ![s] = m]
    /\ floor' = [floor EXCEPT ![s] = MaxOf(Returned)]
    /\ UNCHANGED <<stores, lastId, free, broken, attempt, conn, result, faulty,
                   pull, crashes>>

(* insert_one does not look for msg_id: the collection gets one more document. *)
OneMore(s) == [bodies EXCEPT ![msgOf[s]] = @ + 1]

Stored == {m \in Msgs : bodies[m] > 0}

(* Fault: the retry loop does not stop at the first success. *)
InsertBodyAgain(s) ==
    /\ pc[s] = "body"
    /\ bodies' = OneMore(s)
    /\ pc' = [pc EXCEPT ![s] = IF attempt[s] < MaxRetries THEN "body" ELSE "connect"]
    /\ attempt' = [attempt EXCEPT ![s] = IF @ < MaxRetries THEN @ + 1 ELSE 0]
    /\ UNCHANGED <<receiverOf, uniqueKey, rows, nextId, lastId, free, broken, conn, result,
                   faulty, floor, pull, crashes, msgOf>>

(* MsgBodyDao::Insert: insert_one is acknowledged, and the index is next. *)
InsertBody(s) ==
    /\ pc[s] = "body"
    /\ bodies' = OneMore(s)
    /\ pc' = [pc EXCEPT ![s] = "connect"]
    /\ attempt' = [attempt EXCEPT ![s] = 0]
    /\ UNCHANGED <<receiverOf, uniqueKey, rows, nextId, lastId, free, broken, conn, result,
                   faulty, floor, pull, crashes, msgOf>>

(* Fault: SaveMessage goes on when the body could not be stored. *)
InsertBodyThrowsIgnored(s) ==
    /\ pc[s] = "body"
    /\ pc' = [pc EXCEPT ![s] = "connect"]
    /\ attempt' = [attempt EXCEPT ![s] = 0]
    /\ Fault(s)
    /\ UNCHANGED <<stores, lastId, free, broken, conn, result, floor, pull, crashes, msgOf>>

(* insert_one throws, before or after the document was stored. *)
InsertBodyThrows(s) ==
    /\ pc[s] = "body"
    /\ bodies' \in {bodies, OneMore(s)}
    /\ Fault(s)
    /\ Throw(s, "body")
    /\ UNCHANGED <<receiverOf, uniqueKey, rows, nextId, lastId, free, broken, conn, floor,
                   pull, crashes, msgOf>>

(* Fault: a connection that is in use is handed out again. *)
AcquireConnectionShared(s) ==
    /\ pc[s] = "connect"
    /\ \E c \in free : conn' = [conn EXCEPT ![s] = c]
    /\ pc' = [pc EXCEPT ![s] = "index"]
    /\ UNCHANGED <<stores, lastId, free, broken, attempt, result, faulty, floor,
                   pull, crashes, msgOf>>

(* The guard of MsgIndexDao::Insert takes a connection. *)
AcquireConnection(s) ==
    /\ pc[s] = "connect"
    /\ \E c \in free :
          /\ conn' = [conn EXCEPT ![s] = c]
          /\ free' = free \ {c}
    /\ pc' = [pc EXCEPT ![s] = "index"]
    /\ UNCHANGED <<stores, lastId, broken, attempt, result, faulty, floor,
                   pull, crashes, msgOf>>

(* The INSERT binds index.seq_id, which SaveMessage leaves empty: a second *)
(* row for a receiver has the key of the first one.                        *)
DuplicateKey(s) ==
    uniqueKey /\ \E row \in rows : Receiver(row) = receiverOf[msgOf[s]]

NewRow(s) == [id |-> nextId, msg |-> msgOf[s], by |-> s]

InsertIndex(s) ==
    /\ pc[s] = "index"
    /\ conn[s] \notin broken
    /\ ~DuplicateKey(s)
    /\ rows' = rows \union {NewRow(s)}
    /\ nextId' = nextId + 1
    /\ lastId' = [lastId EXCEPT ![conn[s]] = nextId]
    /\ pc' = [pc EXCEPT ![s] = "ident"]
    /\ UNCHANGED <<receiverOf, uniqueKey, bodies, free, broken, attempt, conn, result,
                   faulty, floor, pull, crashes, msgOf>>

(* MySQL rejects the row; the number it allocated stays used. *)
InsertIndexRejected(s) ==
    /\ pc[s] = "index"
    /\ conn[s] \notin broken
    /\ DuplicateKey(s)
    /\ nextId' = nextId + 1
    /\ GiveBack(s)
    /\ Throw(s, "connect")
    /\ UNCHANGED <<receiverOf, uniqueKey, bodies, rows, lastId, broken, faulty, floor,
                   pull, crashes, msgOf>>

(* executeUpdate throws: the statement failed, or the connection broke     *)
(* before or after the row was stored.  The guard gives it back as it is.  *)
InsertIndexThrows(s) ==
    /\ pc[s] = "index"
    /\ \/ UNCHANGED <<rows, nextId, broken>>
       \/ /\ broken' = broken \union {conn[s]}
          /\ UNCHANGED <<rows, nextId>>
       \/ /\ conn[s] \notin broken
          /\ ~DuplicateKey(s)
          /\ broken' = broken \union {conn[s]}
          /\ rows' = rows \union {NewRow(s)}
          /\ nextId' = nextId + 1
    /\ Fault(s)
    /\ GiveBack(s)
    /\ Throw(s, "connect")
    /\ UNCHANGED <<receiverOf, uniqueKey, bodies, lastId, floor, pull, crashes, msgOf>>

(* Fault: the query runs on a connection of its own. *)
SelectOnOtherConnection(s) ==
    /\ pc[s] = "ident"
    /\ GiveBack(s)
    /\ \E c \in free \union {conn[s]} : Return(s, lastId[c])
    /\ UNCHANGED <<stores, lastId, broken, faulty, floor, pull, crashes, msgOf>>

(* SELECT LAST_INSERT_ID() on the same connection; its answer is returned. *)
SelectLastInsertId(s) ==
    /\ pc[s] = "ident"
    /\ GiveBack(s)
    /\ Return(s, lastId[conn[s]])
    /\ UNCHANGED <<stores, lastId, broken, faulty, floor, pull, crashes, msgOf>>

(* The query throws, and the whole lambda, INSERT included, runs again. *)
SelectThrows(s) ==
    /\ pc[s] = "ident"
    /\ broken' \in {broken, broken \union {conn[s]}}
    /\ Fault(s)
    /\ GiveBack(s)
    /\ Throw(s, "connect")
    /\ UNCHANGED <<stores, lastId, floor, pull, crashes, msgOf>>

-----------------------------------------------------------------------------
(* PullOfflineMessages.                                                    *)

(* A client asks with a number it was given, or with none. *)
PullBegin ==
    /\ pull.pc \in {"idle", "done"}
    /\ \E u \in Users : \E last \in ReturnedTo(u) \union {0} :
          pull' = [IdlePull EXCEPT !.pc = "query", !.user = u, !.cursor = last]
    /\ UNCHANGED <<stores, lastId, free, broken, calls, crashes>>

(* Fault: WHERE ... id >= ? *)
SelectedFromCursor ==
    LET above == {row \in rows : Receiver(row) = pull.user /\ row.id >= pull.cursor}
    IN  {row \in above : Cardinality({x \in above : x.id < row.id}) < Limit}

(* WHERE receiver_id = ? AND id > ? ORDER BY id LIMIT ? *)
Selected ==
    LET above == {row \in rows : Receiver(row) = pull.user /\ row.id > pull.cursor}
    IN  {row \in above : Cardinality({x \in above : x.id < row.id}) < Limit}

MsgsIn(R) == {row.msg : row \in R}

(* FetchOfflineMsgIds: no ids, no second query. *)
PullQuery ==
    /\ pull.pc = "query"
    /\ free \ broken # {}
    /\ LET ids == pull.ids \union MsgsIn(Selected)
       IN  pull' = [pull EXCEPT !.ids = ids, !.attempt = 0, !.due = Selected,
                                !.pc = IF ids = {} THEN "done" ELSE "fetch"]
    /\ UNCHANGED <<stores, lastId, free, broken, calls, crashes>>

(* The query throws, perhaps half way through its rows: msg_ids is not     *)
(* cleared for the next attempt, and is what the failed call returns.      *)
PullQueryThrows ==
    /\ pull.pc = "query"
    /\ free # {}
    /\ \E part \in SUBSET Selected :
          LET ids == pull.ids \union MsgsIn(part)
              more == pull.attempt < MaxRetries
          IN  pull' = [pull EXCEPT
                         !.ids = ids, !.clean = FALSE,
                         !.attempt = IF more THEN @ + 1 ELSE 0,
                         !.pc = IF more THEN "query"
                                ELSE IF ids = {} THEN "done" ELSE "fetch"]
    /\ UNCHANGED <<stores, lastId, free, broken, calls, crashes>>

(* BatchGet: find by $in over msg_id. *)
PullFetch ==
    /\ pull.pc = "fetch"
    /\ pull' = [pull EXCEPT !.got = @ \union (pull.ids \intersect Stored),
                            !.attempt = 0, !.pc = "done"]
    /\ UNCHANGED <<stores, lastId, free, broken, calls, crashes>>

(* The cursor throws: what was read stays in the result. *)
PullFetchThrows ==
    /\ pull.pc = "fetch"
    /\ \E part \in SUBSET (pull.ids \intersect Stored) :
          LET more == pull.attempt < MaxRetries
          IN  pull' = [pull EXCEPT
                         !.got = @ \union part, !.clean = FALSE, !.due = {},
                         !.attempt = IF more THEN @ + 1 ELSE 0,
                         !.pc = IF more THEN "fetch" ELSE "done"]
    /\ UNCHANGED <<stores, lastId, free, broken, calls, crashes>>

-----------------------------------------------------------------------------
Active(s) == pc[s] \notin {"idle", "done", "crashed"}

(* The service process dies and is restarted with a new pool; the stores   *)
(* keep what they have.                                                    *)
Crash ==
    /\ crashes < MaxCrashes
    /\ crashes' = crashes + 1
    /\ pc' = [s \in Calls |-> IF Active(s) THEN "crashed" ELSE pc[s]]
    /\ conn' = [s \in Calls |-> NoConn]
    /\ free' = Conns
    /\ broken' = {}
    /\ lastId' = [c \in Conns |-> 0]
    /\ pull' = IdlePull
    /\ attempt' = [s \in Calls |-> 0]
    /\ UNCHANGED <<stores, result, faulty, floor, msgOf>>

SaveStep(s) ==
    \/ InsertBody(s) \/ InsertBodyThrows(s) \/ AcquireConnection(s)
    \/ InsertIndex(s) \/ InsertIndexRejected(s) \/ InsertIndexThrows(s)
    \/ SelectLastInsertId(s) \/ SelectThrows(s)

PullStep == PullQuery \/ PullQueryThrows \/ PullFetch \/ PullFetchThrows

Next ==
    \/ \E s \in Calls : SaveBegin(s) \/ SaveStep(s)
    \/ PullBegin \/ PullStep
    \/ Crash

Spec == Init /\ [][Next]_vars

-----------------------------------------------------------------------------
CallPcs == {"idle", "body", "connect", "index", "ident", "done", "crashed"}

(* Types of the stores, of the pool and of the calls. *)
TypeOK ==
    /\ receiverOf \in [Msgs -> Users]
    /\ uniqueKey \in BOOLEAN
    /\ bodies \in [Msgs -> Nat]
    /\ rows \subseteq [id : Nat \ {0}, msg : Msgs, by : Calls]
    /\ nextId \in Nat \ {0}
    /\ lastId \in [Conns -> Nat]
    /\ free \subseteq Conns
    /\ broken \subseteq Conns
    /\ pc \in [Calls -> CallPcs]
    /\ msgOf \in [Calls -> Msgs \union {NoMsg}]
    /\ attempt \in [Calls -> 0..MaxRetries]
    /\ conn \in [Calls -> Conns \union {NoConn}]
    /\ result \in [Calls -> Nat]
    /\ faulty \in [Calls -> BOOLEAN]
    /\ floor \in [Calls -> Nat]
    /\ pull \in [pc : {"idle", "query", "fetch", "done"}, user : Users \union {NoUser},
                 cursor : Nat, attempt : 0..MaxRetries, ids : SUBSET Msgs,
                 got : SUBSET Msgs, clean : BOOLEAN, due : SUBSET rows]
    /\ crashes \in 0..MaxCrashes

(* No index row without a body, whatever fails or crashes: SaveMessage     *)
(* writes to MongoDB first and stops if that fails.                        *)
BodyBeforeIndex == \A row \in rows : bodies[row.msg] > 0

(* A number that SaveMessage returned is the id of a row that this very    *)
(* call stored for its message, and the body is there too: LAST_INSERT_ID  *)
(* was not read from another call's INSERT.                                *)
SavedIsOwn ==
    \A s \in Calls : pc[s] = "done" /\ result[s] # NoSeq =>
        /\ \E row \in rows : row.id = result[s] /\ row.by = s /\ row.msg = msgOf[s]
        /\ bodies[msgOf[s]] > 0

(* The numbers grow: one that is returned is larger than every number that *)
(* had been returned when its call began, also across a crash.             *)
SeqOrder ==
    \A s \in Calls : pc[s] = "done" /\ result[s] # NoSeq => result[s] > floor[s]

(* Retries store nothing twice unless a store failed: without a fault      *)
(* every call has at most one document and one row.                        *)
CopiesNeedFaults ==
    \A m \in Msgs :
        LET of == {s \in Calls : msgOf[s] = m /\ pc[s] # "idle"}
        IN  (\A s \in of : ~faulty[s]) =>
                /\ bodies[m] <= Cardinality(of)
                /\ Cardinality({row \in rows : row.msg = m}) <= Cardinality(of)

(* A pull that met no error returns the body of every row its query found. *)
PullComplete ==
    pull.pc = "done" /\ pull.clean => pull.got = MsgsIn(pull.due)

(* A pull, failed or not, returns only messages that have a row of that    *)
(* user above the cursor.                                                  *)
PullSound ==
    pull.pc = "done" => \A m \in pull.got :
        \E row \in rows : row.msg = m /\ Receiver(row) = pull.user /\ row.id > pull.cursor

(* init_db.sql and the proto files promise a strictly increasing seq_id    *)
(* for each saved message: a call that met no fault returns a number.      *)
FaultFreeSaveReturnsSeq ==
    \A s \in Calls : pc[s] = "done" /\ ~faulty[s] => result[s] # NoSeq

=============================================================================

---------------------------- MODULE SendPipeline ----------------------------
(***************************************************************************)
(* One message from the client to the stores and back: the gateway calls   *)
(* LogicService.SendMessage, whose handler validates the message and calls *)
(* MessageService.SaveMsg.  Both callers retry under ExecuteWithRetry and  *)
(* set a deadline of 3 seconds, shorter than the retries of the layer      *)
(* below, and no handler looks at whether its caller still waits.  So a    *)
(* handler whose call was given up goes on, beside the one of the retry.   *)
(*                                                                         *)
(* Requests 1..N come over one connection: the read is armed again when    *)
(* the handler of the previous request has sent its reply (TcpGateway).    *)
(* SaveMsg is what MessageStore promises of SaveMessage; the RPC handler   *)
(* that calls it is not part of the repository and answers with an error   *)
(* code when SaveMessage returns the empty string.                         *)
(***************************************************************************)
EXTENDS Integers

CONSTANTS
    N,         \* number of requests
    Session,   \* session_type of each request
    Sender,    \* sender_id
    Receiver,  \* receiver_id
    GMax,      \* max_retries of the gateway
    LMax,      \* max_retries of the logic service
    Copies     \* rows one SaveMessage may insert: attempts of its DAO

ASSUME PipelineAssumption ==
    /\ N \in Nat
    /\ Session \in [1..N -> Nat]
    /\ Sender \in [1..N -> Nat]
    /\ Receiver \in [1..N -> Nat]
    /\ GMax \in Nat
    /\ LMax \in Nat
    /\ Copies \in Nat \ {0}

Reqs == 1..N

VARIABLES
    cur,       \* the request the connection is at
    gPc,       \* its handler: read, call, wait, or dead with its thread
    gAttempt,
    logic,     \* SendMessage handlers, by request and gateway attempt
    save,      \* SaveMsg handlers, by request, gateway and logic attempt
    rows,      \* message_index: records [req, id]
    nextId,
    outcome,   \* what the client was told
    seq

gateway == <<cur, gPc, gAttempt>>
client == <<outcome, seq>>
vars == <<gateway, logic, save, rows, nextId, client>>

GAttempts == 0..GMax
LAttempts == 0..LMax

NoLogic == [pc |-> "none", attempt |-> 0, answer |-> 0]
NoSave == [pc |-> "none", last |-> 0, inserts |-> 0, answer |-> 0]

Init ==
    /\ cur = 1
    /\ gPc = "read"
    /\ gAttempt = 0
    /\ logic = [i \in Reqs \X GAttempts |-> NoLogic]
    /\ save = [j \in Reqs \X GAttempts \X LAttempts |-> NoSave]
    /\ rows = {}
    /\ nextId = 1
    /\ outcome = [r \in Reqs |-> "pending"]
    /\ seq = [r \in Reqs |-> 0]

-----------------------------------------------------------------------------
(* The gateway's read handler, ForwardToLogicService.                      *)

Read ==
    /\ gPc = "read"
    /\ cur \in Reqs
    /\ gPc' = "call"
    /\ gAttempt' = 0
    /\ UNCHANGED <<cur, logic, save, rows, nextId, client>>

(* SendMessage is called; the request reaches the logic service or not. *)
GatewayCall ==
    /\ gPc = "call"
    /\ gPc' = "wait"
    /\ \/ logic' = [logic EXCEPT ![<<cur, gAttempt>>].pc = "check"]
       \/ UNCHANGED logic
    /\ UNCHANGED <<cur, gAttempt, save, rows, nextId, client>>

(* The answer is passed on to the client and the read is armed again. *)
GatewayAnswered ==
    /\ gPc = "wait"
    /\ logic[<<cur, gAttempt>>].pc = "done"
    /\ LET ans == logic[<<cur, gAttempt>>].answer
       IN  /\ outcome' = [outcome EXCEPT ![cur] = IF ans = 0 THEN "refused" ELSE "acked"]
           /\ seq' = [seq EXCEPT ![cur] = ans]
    /\ cur' = cur + 1
    /\ gPc' = "read"
    /\ UNCHANGED <<gAttempt, logic, save, rows, nextId>>

(* Fault: one attempt too many. *)
GatewayGivesUpLate ==
    /\ gPc = "wait"
    /\ \/ /\ gAttempt < GMax + 1
          /\ gAttempt' = gAttempt + 1
          /\ gPc' = "call"
          /\ UNCHANGED outcome
       \/ /\ gAttempt >= GMax + 1
          /\ gPc' = "dead"
          /\ outcome' = [outcome EXCEPT ![cur] = "abandoned"]
          /\ UNCHANGED gAttempt
    /\ UNCHANGED <<cur, logic, save, rows, nextId, seq>>

(* Fault: the retries never end. *)
GatewayNeverGivesUp ==
    /\ gPc = "wait"
    /\ gPc' = "call"
    /\ gAttempt' = (gAttempt + 1) % (GMax + 1)
    /\ UNCHANGED <<cur, logic, save, rows, nextId, client>>

(* The call fails or its deadline passes: retry, or let the exception end  *)
(* the handler and its thread.                                             *)
GatewayGivesUp ==
    /\ gPc = "wait"
    /\ \/ /\ gAttempt < GMax
          /\ gAttempt' = gAttempt + 1
          /\ gPc' = "call"
          /\ UNCHANGED outcome
       \/ /\ gAttempt >= GMax
          /\ gPc' = "dead"
          /\ outcome' = [outcome EXCEPT ![cur] = "abandoned"]
          /\ UNCHANGED gAttempt
    /\ UNCHANGED <<cur, logic, save, rows, nextId, seq>>

-----------------------------------------------------------------------------
(* LogicServiceImpl::SendMessage, ProcessIncomingMessage.                  *)

(* The handler answers with a number, or with code 500 (0). *)
LogicReturns(i, ans) ==
    logic' = [logic EXCEPT ![i].pc = "done", ![i].answer = ans]

(* SingleChatHandler::Validate and GroupChatHandler::Validate. *)
SingleValid(r) ==
    Sender[r] # Receiver[r]

GroupValid(r) ==
    Receiver[r] # 0

(* GetHandler finds a handler for the session type, and it validates. *)
Accepted(r) ==
    \/ Session[r] = 1 /\ SingleValid(r)
    \/ Session[r] = 2 /\ GroupValid(r)

(* ProcessIncomingMessage refuses before anything is stored; ProcessSend   *)
(* only rewrites the content (SensitiveFilter).                            *)
LogicCheck(i) ==
    /\ logic[i].pc = "check"
    /\ \/ /\ ~Accepted(i[1])
          /\ LogicReturns(i, 0)
       \/ /\ Accepted(i[1])
          /\ logic' = [logic EXCEPT ![i].pc = "call"]
    /\ UNCHANGED <<gateway, save, rows, nextId, client>>

(* CallMessageServiceToSave: SaveMsg is called and arrives or not. *)
LogicCall(i) ==
    /\ logic[i].pc = "call"
    /\ logic' = [logic EXCEPT ![i].pc = "wait"]
    /\ \/ save' = [save EXCEPT ![<<i[1], i[2], logic[i].attempt>>].pc = "running"]
       \/ UNCHANGED save
    /\ UNCHANGED <<gateway, rows, nextId, client>>

(* The lambda throws. *)
LogicThrows(i) ==
    \/ /\ logic[i].attempt < LMax
       /\ logic' = [logic EXCEPT ![i].pc = "call", ![i].attempt = @ + 1]
    \/ /\ logic[i].attempt >= LMax
       /\ LogicReturns(i, 0)

SaveOf(i) == save[<<i[1], i[2], logic[i].attempt>>]

(* SaveMsg answers with code 0 and a number, or with an error code. *)
LogicAnswered(i) ==
    /\ logic[i].pc = "wait"
    /\ SaveOf(i).pc = "done"
    /\ \/ /\ SaveOf(i).answer # 0
          /\ LogicReturns(i, SaveOf(i).answer)
       \/ /\ SaveOf(i).answer = 0
          /\ LogicThrows(i)
    /\ UNCHANGED <<gateway, save, rows, nextId, client>>

(* The call fails or its deadline passes. *)
LogicGivesUp(i) ==
    /\ logic[i].pc = "wait"
    /\ LogicThrows(i)
    /\ UNCHANGED <<gateway, save, rows, nextId, client>>

-----------------------------------------------------------------------------
(* SaveMsg.                                                                *)

(* An attempt of MsgIndexDao::Insert stores a row. *)
SaveInserts(j) ==
    /\ save[j].pc = "running"
    /\ save[j].inserts < Copies
    /\ rows' = rows \union {[req |-> j[1], id |-> nextId]}
    /\ nextId' = nextId + 1
    /\ save' = [save EXCEPT ![j].inserts = @ + 1, ![j].last = nextId]
    /\ UNCHANGED <<gateway, logic, client>>

(* Fault: the number is made up before the row is stored. *)
SaveReturnsEarly(j) ==
    /\ save[j].pc = "running"
    /\ \E ans \in {nextId, 0} :
          save' = [save EXCEPT ![j].pc = "done", ![j].answer = ans]
    /\ UNCHANGED <<gateway, logic, rows, nextId, client>>

(* SaveMessage returns the number of the row it stored last, or fails. *)
SaveReturns(j) ==
    /\ save[j].pc = "running"
    /\ \E ans \in {save[j].last, 0} :
          save' = [save EXCEPT ![j].pc = "done", ![j].answer = ans]
    /\ UNCHANGED <<gateway, logic, rows, nextId, client>>

-----------------------------------------------------------------------------
GatewayStep == Read \/ GatewayCall \/ GatewayAnswered \/ GatewayGivesUp

LogicStep(i) == LogicCheck(i) \/ LogicCall(i) \/ LogicAnswered(i) \/ LogicGivesUp(i)

SaveStep(j) == SaveInserts(j) \/ SaveReturns(j)

Next ==
    \/ GatewayStep
    \/ \E i \in DOMAIN logic : LogicStep(i)
    \/ \E j \in DOMAIN save : SaveStep(j)

Spec == Init /\ [][Next]_vars

(* The gateway's calls have deadlines, so its handler goes on whatever the *)
(* other services do; they may hang or crash.                              *)
FairSpec == Spec /\ WF_vars(GatewayStep)

-----------------------------------------------------------------------------
(* Types of the three layers' handlers. *)
TypeOK ==
    /\ cur \in 1..(N + 1)
    /\ gPc \in {"read", "call", "wait", "dead"}
    /\ gAttempt \in GAttempts
    /\ logic \in [Reqs \X GAttempts ->
                    [pc : {"none", "check", "call", "wait", "done"},
                     attempt : LAttempts, answer : Nat]]
    /\ save \in [Reqs \X GAttempts \X LAttempts ->
                    [pc : {"none", "running", "done"}, last : Nat,
                     inserts : 0..Copies, answer : Nat]]
    /\ rows \subseteq [req : Reqs, id : Nat \ {0}]
    /\ nextId \in Nat \ {0}
    /\ outcome \in [Reqs -> {"pending", "acked", "refused", "abandoned"}]
    /\ seq \in [Reqs -> Nat]

(* Requests that must never be stored: from a user to himself, to group 0, *)
(* or with a session type other than 1 and 2.                              *)
Unsendable ==
    {r \in Reqs : \/ Session[r] \notin {1, 2}
                  \/ Session[r] = 1 /\ Sender[r] = Receiver[r]
                  \/ Session[r] = 2 /\ Receiver[r] = 0}

Delivery == INSTANCE MessageDelivery WITH Invalid <- Unsendable

(* The three layers implement at-least-once delivery: an acknowledged      *)
(* message is stored under the number the client got, numbers grow, and an *)
(* invalid message is never stored, although calls that were given up go   *)
(* on and their answers come late.                                         *)
ImplementsDelivery == Delivery!Spec

(* The client hears of its request, or the handler gives up on it. *)
RequestSettles ==
    \A r \in Reqs : cur = r /\ gPc = "call" ~> outcome[r] # "pending"

=============================================================================

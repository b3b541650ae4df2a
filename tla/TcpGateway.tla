----------------------------- MODULE TcpGateway -----------------------------
(***************************************************************************)
(* The gateway: TcpServer accepts connections, TcpConnection reads         *)
(* requests, forwards them to the logic service, writes replies and closes *)
(* itself when nothing was heard for kHeartbeatTimeoutSec, HttpServer      *)
(* answers HTTP requests, and GatewayServer runs the completion handlers   *)
(* of all of them on a pool of threads, without strands.  A thread whose   *)
(* handler lets an exception out leaves io_context::run and is not         *)
(* replaced; when all have left, Run returns and the process ends.         *)
(*                                                                         *)
(* One Tick is the 5 seconds of the heartbeat timer; ages stop counting    *)
(* once they are over the timeout or the connection is stopped, when no    *)
(* handler looks at them.  Requests and replies have no content: what      *)
(* matters of a request is how its handler ends, and of a reply whether    *)
(* its buffer, the connection's only write_msg_, was overwritten while it  *)
(* was being sent.  Nothing on the socket marks where a request ends: the  *)
(* inbox counts pieces, one or more to a request, and a read takes some of *)
(* them, at most 1024 bytes.  HttpServer's connections share the threads:  *)
(* one read, one answer, and no timer.                                     *)
(***************************************************************************)
EXTENDS Integers, Sequences, FiniteSets

CONSTANTS
    Threads,     \* io threads of GatewayServer
    Clients,     \* one TcpConnection for each
    HttpClients, \* one HttpConnection for each
    Timeout,     \* kHeartbeatTimeoutSec in ticks (30 s are 6)
    MaxInbox,    \* bound: pieces of requests a client has under way
    NoClient

ASSUME GatewayAssumption ==
    /\ Timeout \in Nat
    /\ MaxInbox \in Nat \ {0}
    /\ NoClient \notin Clients

VARIABLES
    accepting,   \* async_accept is armed
    phase,       \* of the client: none, backlog, open, gone (never started)
    is_stopped_,
    inbox,       \* pieces of requests that were sent and not read
    peerClosed,  \* the client closed its end
    reading,     \* async_read_some: off, armed, or data: its handler is ready
    timer,       \* off, armed, or fired: its handler is ready to run
    age,         \* ticks since last_active_time_
    writes,      \* replies being sent: intact or clobbered
    waiting,     \* an orderly client waits for its reply
    orderly,     \* the client sent well-typed requests, one at a time, and
                 \* each was taken by one read
    http,        \* of the HTTP client: none, backlog, reading, writing,
                 \* answered, or closed without an answer
    httpSent,    \* its request, or a part of it, arrived
    httpGone,    \* it closed its end, or its stream broke
    job,         \* what each thread runs: a record [at, c]
    signalled,   \* SIGINT or SIGTERM arrived
    exited       \* Run returned

dialogue == <<waiting, orderly>>
conns == <<phase, is_stopped_, inbox, peerClosed, reading, timer, age, writes,
           dialogue>>
https == <<http, httpSent, httpGone>>
env == <<https, signalled, exited>>
vars == <<accepting, conns, job, env>>

Idle == [at |-> "idle", c |-> NoClient]
Left == [at |-> "left", c |-> NoClient]
Job(at, c) == [at |-> at, c |-> c]

Init ==
    /\ accepting = TRUE
    /\ phase = [c \in Clients |-> "none"]
    /\ is_stopped_ = [c \in Clients |-> FALSE]
    /\ inbox = [c \in Clients |-> 0]
    /\ peerClosed = [c \in Clients |-> FALSE]
    /\ reading = [c \in Clients |-> "off"]
    /\ timer = [c \in Clients |-> "off"]
    /\ age = [c \in Clients |-> 0]
    /\ writes = [c \in Clients |-> <<>>]
    /\ waiting = [c \in Clients |-> FALSE]
    /\ orderly = [c \in Clients |-> TRUE]
    /\ http = [h \in HttpClients |-> "none"]
    /\ httpSent = [h \in HttpClients |-> FALSE]
    /\ httpGone = [h \in HttpClients |-> FALSE]
    /\ job = [t \in Threads |-> Idle]
    /\ signalled = FALSE
    /\ exited = FALSE

Open(c) == phase[c] = "open" /\ ~is_stopped_[c]

(* A thread may start a handler: io_context is not stopped. *)
Ready(t) == job[t] = Idle /\ ~signalled

Runs(t, j) == job' = [job EXCEPT ![t] = j]

-----------------------------------------------------------------------------
(* Clients, external to the gateway.                                       *)

Connect(c) ==
    /\ phase[c] = "none"
    /\ ~exited
    /\ phase' = [phase EXCEPT ![c] = "backlog"]
    /\ UNCHANGED <<accepting, is_stopped_, inbox, peerClosed, reading, timer,
                   age, writes, dialogue, job, env>>

(* A request goes out in any number of pieces.  A client that sends before *)
(* it has its reply is no longer orderly.                                  *)
ClientSend(c) ==
    /\ phase[c] \in {"backlog", "open"}
    /\ ~peerClosed[c] /\ ~is_stopped_[c]
    /\ \E n \in 1..(MaxInbox - inbox[c] - Len(writes[c])) :
          inbox' = [inbox EXCEPT ![c] = @ + n]
    /\ orderly' = [orderly EXCEPT ![c] = @ /\ ~waiting[c]]
    /\ waiting' = [waiting EXCEPT ![c] = orderly'[c]]
    /\ UNCHANGED <<accepting, phase, is_stopped_, peerClosed, reading, timer,
                   age, writes, job, env>>

ClientClose(c) ==
    /\ phase[c] \in {"backlog", "open"}
    /\ ~peerClosed[c]
    /\ peerClosed' = [peerClosed EXCEPT ![c] = TRUE]
    /\ UNCHANGED <<accepting, phase, is_stopped_, inbox, reading, timer, age,
                   writes, dialogue, job, env>>

-----------------------------------------------------------------------------
(* TcpServer::DoAccept.                                                    *)

(* The accept handler: TcpConnection::Start arms the read, whose handler   *)
(* may run at once on another thread, and goes on to CheckHeartbeat.       *)
Accept(t, c) ==
    /\ Ready(t) /\ accepting
    /\ phase[c] = "backlog"
    /\ phase' = [phase EXCEPT ![c] = "open"]
    /\ age' = [age EXCEPT ![c] = 0]
    /\ reading' = [reading EXCEPT ![c] = "armed"]
    /\ accepting' = FALSE
    /\ Runs(t, Job("start", c))
    /\ UNCHANGED <<is_stopped_, inbox, peerClosed, timer, writes, dialogue,
                   env>>

(* The peer has gone and remote_endpoint throws in Start: the connection   *)
(* is destroyed, async_accept is not armed again and the thread leaves.    *)
AcceptThrows(t, c) ==
    /\ Ready(t) /\ accepting
    /\ phase[c] = "backlog"
    /\ peerClosed[c]
    /\ phase' = [phase EXCEPT ![c] = "gone"]
    /\ is_stopped_' = [is_stopped_ EXCEPT ![c] = TRUE]
    /\ accepting' = FALSE
    /\ Runs(t, Left)
    /\ UNCHANGED <<inbox, peerClosed, reading, timer, age, writes, dialogue,
                   env>>

-----------------------------------------------------------------------------
(* TcpConnection.                                                          *)

(* Stop: the exchange of is_stopped_ lets one caller cancel the timer,     *)
(* whose handler then runs with an error, and close the socket.            *)
Stop(c) ==
    /\ is_stopped_' = [is_stopped_ EXCEPT ![c] = TRUE]
    /\ timer' = [timer EXCEPT ![c] = IF @ = "armed" THEN "fired" ELSE @]

(* Send: write_msg_ is replaced under the writes that are still using it. *)
Send(c) ==
    writes' = IF is_stopped_[c] THEN writes
              ELSE [writes EXCEPT ![c] =
                       Append([i \in DOMAIN @ |-> "clobbered"], "intact")]

(* Fault: the end of the stream is taken for a request. *)
ReadReadyEmpty(c) ==
    /\ reading[c] = "armed"
    /\ Open(c)
    /\ \E t \in Threads : Ready(t)
    /\ inbox' = [inbox EXCEPT ![c] = @ - 1]
    /\ reading' = [reading EXCEPT ![c] = "data"]
    /\ UNCHANGED <<accepting, phase, is_stopped_, peerClosed, timer, age,
                   writes, dialogue, job, env>>

(* A thread in io_context::run finds data for the armed read; its handler  *)
(* is queued, and is run even if Stop comes first.  async_read_some takes  *)
(* a part of a request, a request, or more, and each read is handled, and  *)
(* answered, as if it were one request.                                    *)
ReadReady(c) ==
    /\ reading[c] = "armed"
    /\ Open(c)
    /\ \E t \in Threads : Ready(t)
    /\ \E k \in 1..inbox[c] :
          /\ inbox' = [inbox EXCEPT ![c] = @ - k]
          /\ orderly' = [orderly EXCEPT ![c] = @ /\ k = inbox[c]]
    /\ waiting' = [waiting EXCEPT ![c] = @ /\ orderly'[c]]
    /\ reading' = [reading EXCEPT ![c] = "data"]
    /\ UNCHANGED <<accepting, phase, is_stopped_, peerClosed, timer, age,
                   writes, job, env>>

(* The read handler with data. *)
ReadBegin(t, c) ==
    /\ Ready(t)
    /\ reading[c] = "data"
    /\ age' = [age EXCEPT ![c] = 0]
    /\ reading' = [reading EXCEPT ![c] = "off"]
    /\ Runs(t, Job("parse", c))
    /\ UNCHANGED <<accepting, phase, is_stopped_, inbox, peerClosed, timer,
                   writes, dialogue, env>>

(* Fault: the read is armed again after an error. *)
ReadErrorReads(t, c) ==
    /\ Ready(t)
    /\ reading[c] = "armed"
    /\ is_stopped_[c] \/ (peerClosed[c] /\ inbox[c] = 0)
    /\ Stop(c)
    /\ UNCHANGED <<accepting, phase, inbox, peerClosed, reading, age, writes,
                   dialogue, job, env>>

(* The read handler with an error: end of stream, or the socket was closed. *)
ReadError(t, c) ==
    /\ Ready(t)
    /\ reading[c] = "armed"
    /\ is_stopped_[c] \/ (peerClosed[c] /\ inbox[c] = 0)
    /\ reading' = [reading EXCEPT ![c] = "off"]
    /\ Stop(c)
    /\ UNCHANGED <<accepting, phase, inbox, peerClosed, age, writes, dialogue,
                   job, env>>

(* Fault: the reply is sent from a loop that runs once more. *)
SendAndReadTwice(t, c) ==
    /\ Send(c)
    /\ \/ /\ reading' = [reading EXCEPT ![c] = "armed"]
          /\ Runs(t, Idle)
       \/ /\ UNCHANGED reading
          /\ Runs(t, Job("forward", c))
    /\ UNCHANGED <<accepting, phase, is_stopped_, inbox, peerClosed, timer,
                   age, dialogue, env>>

(* Send and DoRead, with which a read handler ends. *)
SendAndRead(t, c) ==
    /\ Send(c)
    /\ reading' = [reading EXCEPT ![c] = "armed"]
    /\ Runs(t, Idle)
    /\ UNCHANGED <<accepting, phase, is_stopped_, inbox, peerClosed, timer,
                   age, dialogue, env>>

(* ParseAndRouteMessage: PONG, 400 or 404 is sent at once. *)
ParseReplies(t, c) ==
    /\ job[t] = Job("parse", c)
    /\ SendAndRead(t, c)

(* Fault: the read is armed before the request is dealt with. *)
ParseForwardsAndReads(t, c) ==
    /\ job[t] = Job("parse", c)
    /\ Runs(t, Job("forward", c))
    /\ reading' = [reading EXCEPT ![c] = "armed"]
    /\ UNCHANGED <<accepting, phase, is_stopped_, inbox, peerClosed, timer,
                   age, writes, dialogue, env>>

(* send_msg goes to ForwardToLogicService, which blocks the thread. *)
ParseForwards(t, c) ==
    /\ job[t] = Job("parse", c)
    /\ Runs(t, Job("forward", c))
    /\ UNCHANGED <<accepting, conns, env>>

(* An attempt of the RPC is answered, with success or an error code. *)
ForwardAnswered(t, c) ==
    /\ job[t] = Job("forward", c)
    /\ SendAndRead(t, c)

(* An exception leaves the read handler: nobody catches it, the read is    *)
(* not armed again and the thread leaves io_context::run.                  *)
HandlerThrows(t) ==
    /\ Runs(t, Left)
    /\ UNCHANGED <<accepting, phase, is_stopped_, inbox, peerClosed, reading,
                   timer, age, writes, env>>

(* A jsoncpp accessor throws on a value of another type. *)
ParseThrows(t, c) ==
    /\ job[t] = Job("parse", c)
    /\ HandlerThrows(t)
    /\ orderly' = [orderly EXCEPT ![c] = FALSE]
    /\ waiting' = [waiting EXCEPT ![c] = FALSE]

(* The last attempt of ExecuteWithRetryVoid fails and it rethrows. *)
ForwardFails(t, c) ==
    /\ job[t] = Job("forward", c)
    /\ HandlerThrows(t)
    /\ UNCHANGED <<dialogue>>

(* The kernel takes the oldest reply; its completion handler does nothing. *)
WriteDone(c) ==
    /\ writes[c] # <<>>
    /\ Open(c)
    /\ writes' = [writes EXCEPT ![c] = Tail(@)]
    /\ waiting' = [waiting EXCEPT ![c] = FALSE]
    /\ UNCHANGED <<accepting, phase, is_stopped_, inbox, peerClosed, reading,
                   timer, age, orderly, job, env>>

(* A write fails and its handler stops the connection. *)
WriteError(t, c) ==
    /\ Ready(t)
    /\ writes[c] # <<>>
    /\ peerClosed[c] \/ is_stopped_[c]
    /\ writes' = [writes EXCEPT ![c] = Tail(@)]
    /\ Stop(c)
    /\ UNCHANGED <<accepting, phase, inbox, peerClosed, reading, age, dialogue,
                   job, env>>

-----------------------------------------------------------------------------
(* CheckHeartbeat.                                                         *)

(* Fault: the handler arms the timer only when data came since the last run. *)
HeartbeatBeginForgets(t, c) ==
    /\ Ready(t)
    /\ timer[c] = "fired"
    /\ timer' = [timer EXCEPT ![c] = "off"]
    /\ IF is_stopped_[c] \/ age[c] > 0
         THEN UNCHANGED job
         ELSE Runs(t, Job("beat", c))
    /\ UNCHANGED <<accepting, phase, is_stopped_, inbox, peerClosed, reading,
                   age, writes, dialogue, env>>

(* Fault: the silence is never acted upon. *)
HeartbeatBeginTolerates(t, c) ==
    /\ Ready(t)
    /\ timer[c] = "fired"
    /\ timer' = [timer EXCEPT ![c] = "off"]
    /\ IF is_stopped_[c] THEN UNCHANGED job ELSE Runs(t, Job("beat", c))
    /\ UNCHANGED <<accepting, phase, is_stopped_, inbox, peerClosed, reading,
                   age, writes, dialogue, env>>

(* The timer handler: stopped, silent for too long, or to be armed again. *)
HeartbeatBegin(t, c) ==
    /\ Ready(t)
    /\ timer[c] = "fired"
    /\ timer' = [timer EXCEPT ![c] = "off"]
    /\ \/ /\ is_stopped_[c]
          /\ UNCHANGED <<is_stopped_, job>>
       \/ /\ ~is_stopped_[c]
          /\ age[c] > Timeout
          /\ is_stopped_' = [is_stopped_ EXCEPT ![c] = TRUE]
          /\ UNCHANGED job
       \/ /\ ~is_stopped_[c]
          /\ age[c] <= Timeout
          /\ Runs(t, Job("beat", c))
          /\ UNCHANGED is_stopped_
    /\ UNCHANGED <<accepting, phase, inbox, peerClosed, reading, age, writes,
                   dialogue, env>>

(* Fault: a connection that is stopped before its first timer is taken for *)
(* an accept that failed.                                                  *)
AfterHeartbeatArmed(t) ==
    /\ accepting' = (accepting \/ job[t].at = "startArm")
    /\ Runs(t, Idle)

(* The thread is done with CheckHeartbeat.  When it was called by Start,   *)
(* DoAccept follows and arms async_accept again.                           *)
AfterHeartbeat(t) ==
    /\ accepting' = (accepting \/ job[t].at \in {"start", "startArm"})
    /\ Runs(t, Idle)

(* CheckHeartbeat tests is_stopped_ ... *)
HeartbeatTest(t, c) ==
    /\ job[t] \in {Job("beat", c), Job("start", c)}
    /\ \/ /\ is_stopped_[c]
          /\ AfterHeartbeat(t)
       \/ /\ ~is_stopped_[c]
          /\ Runs(t, Job(IF job[t].at = "beat" THEN "arm" ELSE "startArm", c))
          /\ UNCHANGED accepting
    /\ UNCHANGED <<conns, env>>

(* ... and arms the timer, although Stop may have come between. *)
HeartbeatArm(t, c) ==
    /\ job[t] \in {Job("arm", c), Job("startArm", c)}
    /\ timer' = [timer EXCEPT ![c] = "armed"]
    /\ AfterHeartbeat(t)
    /\ UNCHANGED <<phase, is_stopped_, inbox, peerClosed, reading, age, writes,
                   dialogue, env>>

(* Five seconds pass. *)
Tick ==
    /\ ~exited
    /\ \E c \in Clients : phase[c] = "open"
    /\ timer' = [c \in Clients |-> IF timer[c] = "armed" THEN "fired" ELSE timer[c]]
    /\ age' = [c \in Clients |->
                 IF Open(c) /\ age[c] <= Timeout THEN age[c] + 1 ELSE age[c]]
    /\ UNCHANGED <<accepting, phase, is_stopped_, inbox, peerClosed, reading,
                   writes, dialogue, job, env>>

-----------------------------------------------------------------------------
(* HttpServer and HttpConnection.                                          *)

HttpOnly == UNCHANGED <<accepting, conns, job, signalled, exited>>

HttpConnect(h) ==
    /\ http[h] = "none"
    /\ ~exited
    /\ http' = [http EXCEPT ![h] = "backlog"]
    /\ UNCHANGED <<httpSent, httpGone>>
    /\ HttpOnly

HttpClientSends(h) ==
    /\ http[h] \in {"backlog", "reading"}
    /\ ~httpSent[h] /\ ~httpGone[h]
    /\ httpSent' = [httpSent EXCEPT ![h] = TRUE]
    /\ UNCHANGED <<http, httpGone>>
    /\ HttpOnly

(* The client closes its end before it has an answer, or its stream        *)
(* breaks; what went wrong earlier is met by the read as well.             *)
HttpClientGoes(h) ==
    /\ http[h] \in {"reading", "writing"}
    /\ ~httpGone[h]
    /\ httpGone' = [httpGone EXCEPT ![h] = TRUE]
    /\ UNCHANGED <<http, httpSent>>
    /\ HttpOnly

(* The handlers of an HTTP connection neither block nor throw. *)
HttpHandled(h, from, to) ==
    /\ \E t \in Threads : Ready(t)
    /\ http[h] = from
    /\ http' = [http EXCEPT ![h] = to]
    /\ UNCHANGED <<httpSent, httpGone>>
    /\ HttpOnly

(* DoAccept: the read is armed, and async_accept again. *)
HttpAccept(h) == HttpHandled(h, "backlog", "reading")

(* Fault: a request that is not well-formed is not answered. *)
HttpReadCloses(h) == httpSent[h] /\ HttpHandled(h, "reading", "closed")

(* The read handler: HandleRequest answers whatever was read, ... *)
HttpRead(h) == httpSent[h] /\ HttpHandled(h, "reading", "writing")

(* ... or, when the client has gone, lets go of the connection. *)
HttpReadError(h) == httpGone[h] /\ HttpHandled(h, "reading", "closed")

(* The answer is written, and the socket shut down; ... *)
HttpWritten(h) == HttpHandled(h, "writing", "answered")

(* ... a write fails when the client has gone. *)
HttpWriteError(h) == httpGone[h] /\ HttpHandled(h, "writing", "closed")

HttpHandler(h) ==
    \/ HttpAccept(h)
    \/ HttpRead(h) \/ HttpReadError(h)
    \/ HttpWritten(h) \/ HttpWriteError(h)

-----------------------------------------------------------------------------
(* GatewayServer and main.                                                 *)

(* signal_handler calls io_context::stop. *)
Signal ==
    /\ ~signalled /\ ~exited
    /\ signalled' = TRUE
    /\ UNCHANGED <<accepting, conns, https, job, exited>>

(* io_context::run returns in a thread that has no handler to finish. *)
ThreadReturns(t) ==
    /\ signalled
    /\ job[t] = Idle
    /\ Runs(t, Left)
    /\ UNCHANGED <<accepting, conns, env>>

(* Run has joined every thread: main returns, and the destruction of the   *)
(* io_context destroys the handlers and with them the connections.         *)
Exit ==
    /\ ~exited
    /\ \A t \in Threads : job[t] = Left
    /\ exited' = TRUE
    /\ accepting' = FALSE
    /\ is_stopped_' = [c \in Clients |-> phase[c] # "none"]
    /\ reading' = [c \in Clients |-> "off"]
    /\ timer' = [c \in Clients |-> "off"]
    /\ writes' = [c \in Clients |-> <<>>]
    /\ http' = [h \in HttpClients |->
                  IF http[h] \in {"none", "answered"} THEN http[h] ELSE "closed"]
    /\ UNCHANGED <<phase, inbox, peerClosed, age, dialogue, httpSent, httpGone,
                   job, signalled>>

(* The handlers of connection c, on any thread. *)
TimerHandler(c) == \E t \in Threads : HeartbeatBegin(t, c)
ReadHandler(c) == \E t \in Threads : ReadBegin(t, c) \/ ReadError(t, c)
WriteHandler(c) == \E t \in Threads : WriteError(t, c)

(* A thread goes on with the handler it runs. *)
ThreadStep(t) ==
    \/ \E c \in Clients :
          \/ ParseReplies(t, c) \/ ParseForwards(t, c) \/ ForwardAnswered(t, c)
          \/ ParseThrows(t, c) \/ ForwardFails(t, c)
          \/ HeartbeatTest(t, c) \/ HeartbeatArm(t, c)
    \/ ThreadReturns(t)

Next ==
    \/ \E c \in Clients :
          \/ Connect(c) \/ ClientSend(c) \/ ClientClose(c)
          \/ TimerHandler(c) \/ ReadHandler(c) \/ WriteHandler(c)
          \/ ReadReady(c) \/ WriteDone(c)
          \/ \E t \in Threads : Accept(t, c) \/ AcceptThrows(t, c)
    \/ \E h \in HttpClients :
          HttpConnect(h) \/ HttpClientSends(h) \/ HttpClientGoes(h) \/ HttpHandler(h)
    \/ \E t \in Threads : ThreadStep(t)
    \/ Tick \/ Signal \/ Exit

Spec == Init /\ [][Next]_vars

(* Time passes; a thread finishes the handler it runs, since the RPCs have *)
(* deadlines and a bounded number of attempts; a handler that is ready     *)
(* again and again is run, since io_context queues handlers in order.      *)
(* Clients need not send, nor take the replies they are sent.              *)
FairSpec ==
    /\ Spec
    /\ WF_vars(Tick) /\ WF_vars(Exit)
    /\ \A t \in Threads : WF_vars(ThreadStep(t))
    /\ \A c \in Clients : SF_vars(TimerHandler(c)) /\ SF_vars(ReadHandler(c))
                          /\ SF_vars(WriteHandler(c))
    /\ \A h \in HttpClients : SF_vars(HttpHandler(h))

-----------------------------------------------------------------------------
(* Inside CheckHeartbeat. *)
Beating == {"beat", "arm", "start", "startArm"}

Jobs == [at : {"idle", "left", "parse", "forward"} \union Beating,
         c : Clients \union {NoClient}]

HttpStates == {"none", "backlog", "reading", "writing", "answered", "closed"}

(* Types of the connections and of the threads. *)
TypeOK ==
    /\ accepting \in BOOLEAN /\ signalled \in BOOLEAN /\ exited \in BOOLEAN
    /\ phase \in [Clients -> {"none", "backlog", "open", "gone"}]
    /\ is_stopped_ \in [Clients -> BOOLEAN] /\ peerClosed \in [Clients -> BOOLEAN]
    /\ inbox \in [Clients -> 0..MaxInbox]
    /\ reading \in [Clients -> {"off", "armed", "data"}]
    /\ timer \in [Clients -> {"off", "armed", "fired"}]
    /\ age \in [Clients -> 0..(Timeout + 1)]
    /\ writes \in [Clients -> Seq({"intact", "clobbered"})]
    /\ waiting \in [Clients -> BOOLEAN] /\ orderly \in [Clients -> BOOLEAN]
    /\ http \in [HttpClients -> HttpStates]
    /\ httpSent \in [HttpClients -> BOOLEAN] /\ httpGone \in [HttpClients -> BOOLEAN]
    /\ job \in [Threads -> Jobs]

(* The threads inside a handler of connection c. *)
InHandler(c, ats) == {t \in Threads : job[t].c = c /\ job[t].at \in ats}

(* A connection that is open is watched: its timer is armed or its handler *)
(* runs, also when its read handler died with an exception.                *)
HeartbeatWatches ==
    \A c \in Clients : Open(c) /\ ~exited =>
        timer[c] # "off" \/ InHandler(c, Beating) # {}

(* read_buffer_ has one user: a read is armed or one handler processes the *)
(* data, never both and never two.                                         *)
OneReader ==
    \A c \in Clients :
        LET readers == InHandler(c, {"parse", "forward"})
        IN  Cardinality(readers) + (IF reading[c] # "off" THEN 1 ELSE 0) <= 1

(* write_msg_ is shared by all replies of a connection: a reply is intact  *)
(* as long as the client waited for each reply before it sent the next     *)
(* request and each request was taken by one read.  A request that comes   *)
(* in parts, or is longer than read_buffer_, is answered once for each     *)
(* read, and its replies may overwrite each other although the client      *)
(* waits.                                                                  *)
OrderlyRepliesIntact ==
    \A c \in Clients : orderly[c] =>
        \A i \in DOMAIN writes[c] : writes[c][i] = "intact"

(* The server stops accepting only because a peer had gone when its        *)
(* connection was started: every other way through the accept handler,     *)
(* also beside a connection that is stopped at once, arms it again.        *)
AcceptingUnlessPeerGone ==
    accepting \/ exited \/ (\E c \in Clients : phase[c] = "gone")
    \/ (\E t \in Threads : job[t].at \in {"start", "startArm"})

(* A connection stays open only if it is heard of again and again: one     *)
(* that falls silent, or whose reader died, is closed.                     *)
SilentIsClosed ==
    \A c \in Clients : <>[]Open(c) => []<>(age[c] = 0)

(* No handler refers to the connection any more. *)
Released(c) ==
    reading[c] = "off" /\ timer[c] = "off" /\ writes[c] = <<>>
    /\ InHandler(c, {"parse", "forward"} \union Beating) = {}

(* A stopped connection loses its last reference, although a timer may be  *)
(* armed after Stop.                                                       *)
StoppedIsReleased ==
    \A c \in Clients : is_stopped_[c] ~> Released(c)

(* The gateway tolerates a logic service that is away for a while, as the  *)
(* comment in ForwardToLogicService says: with orderly clients that stay,  *)
(* it ends on a signal only.                                               *)
ExitsOnSignalOnly ==
    exited /\ (\A c \in Clients : orderly[c] /\ ~peerClosed[c]) => signalled

(* A client that sends an HTTP request and stays has its answer written    *)
(* although TCP handlers block the threads for seconds and take them away  *)
(* one by one, until the process is stopped or the last thread is lost.    *)
HttpAnswered ==
    \A h \in HttpClients :
        httpSent[h] ~> http[h] = "answered" \/ httpGone[h] \/ signalled \/ exited

=============================================================================

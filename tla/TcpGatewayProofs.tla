-------------------------- MODULE TcpGatewayProofs --------------------------
(***************************************************************************)
(* The safety invariants of TcpGateway, for any number of threads and      *)
(* connections.                                                            *)
(***************************************************************************)
EXTENDS TcpGateway, FiniteSetTheorems, TLAPS

(* What a job is: a read handler of e, CheckHeartbeat for e, or an accept  *)
(* handler that will arm async_accept again.                               *)
ReadJob(j, e) == j.c = e /\ j.at \in {"parse", "forward"}
BeatJob(j, e) == j.c = e /\ j.at \in Beating
StartJob(j) == j.at \in {"start", "startArm"}

(* The threads by their jobs. *)
Reads(t, e) == ReadJob(job[t], e)
Beats(t, e) == BeatJob(job[t], e)
Starts(t) == StartJob(job[t])

(* A connection that was not started has no read and no read handler. *)
NotStarted ==
    \A e \in Clients : phase[e] # "open" =>
        reading[e] = "off" /\ \A t \in Threads : ~Reads(t, e)

(* While a read handler runs, no read is armed and no other one runs. *)
OneUser ==
    \A e \in Clients, t \in Threads : Reads(t, e) =>
        reading[e] = "off" /\ \A u \in Threads : Reads(u, e) => u = t

(* HeartbeatWatches. *)
Watched ==
    \A e \in Clients : Open(e) /\ ~exited =>
        timer[e] # "off" \/ \E t \in Threads : Beats(t, e)

(* The request of connection e is on its way to the read handler, or in it. *)
UnderWay(e) ==
    inbox[e] # 0 \/ reading[e] = "data" \/ \E t \in Threads : Reads(t, e)

(* There is one request, whose pieces are all unread or were all read, or  *)
(* one reply, and the client waits for it.                                 *)
InTurn(e) ==
    /\ inbox[e] # 0 => reading[e] # "data" /\ \A t \in Threads : ~Reads(t, e)
    /\ writes[e] \in {<<>>, <<"intact">>}
    /\ UnderWay(e) => waiting[e] /\ writes[e] = <<>>
    /\ writes[e] # <<>> => waiting[e]

OneAtATime ==
    \A e \in Clients : orderly[e] => InTurn(e)

(* AcceptingUnlessPeerGone. *)
Accepts ==
    accepting \/ exited \/ (\E e \in Clients : phase[e] = "gone")
    \/ (\E t \in Threads : Starts(t))

(* The inductive invariant. *)
GatewayInv ==
    TypeOK /\ NotStarted /\ OneUser /\ Watched /\ OneAtATime /\ Accepts

-----------------------------------------------------------------------------
(* What Send and the completion of a write make of the replies. *)
LEMMA Replies ==
    ASSUME NEW s \in Seq({"intact", "clobbered"})
    PROVE  /\ Append([i \in DOMAIN s |-> "clobbered"], "intact")
                 \in Seq({"intact", "clobbered"})
           /\ s = <<>> => Append([i \in DOMAIN s |-> "clobbered"], "intact") = <<"intact">>
           /\ s # <<>> => Tail(s) \in Seq({"intact", "clobbered"})
           /\ s = <<"intact">> => Tail(s) = <<>>
<1> DEFINE r == [i \in DOMAIN s |-> "clobbered"]
<1>1. r \in Seq({"intact", "clobbered"}) /\ Len(r) = Len(s)
  OBVIOUS
<1>2. s = <<>> => r = <<>>
  BY <1>1
<1>3. Append(<<>>, "intact") = <<"intact">>
  OBVIOUS
<1> HIDE DEF r
<1>4. Append(r, "intact") \in Seq({"intact", "clobbered"})
  BY <1>1
<1>5. s # <<>> => Tail(s) \in Seq({"intact", "clobbered"})
  OBVIOUS
<1>6. s = <<"intact">> => Tail(s) = <<>>
  OBVIOUS
<1> QED
  BY <1>2, <1>3, <1>4, <1>5, <1>6 DEF r

-----------------------------------------------------------------------------
(* Threads.                                                                *)

(* The kinds of jobs. *)
LEMMA Kinds ==
    ASSUME NEW e \in Clients
    PROVE  /\ ~ReadJob(Idle, e) /\ ~BeatJob(Idle, e) /\ ~StartJob(Idle) /\ Idle \in Jobs
           /\ ~ReadJob(Left, e) /\ ~BeatJob(Left, e) /\ ~StartJob(Left) /\ Left \in Jobs
           /\ \A c \in Clients, at \in {"parse", "forward"} :
                 /\ ReadJob(Job(at, c), e) <=> c = e
                 /\ ~BeatJob(Job(at, c), e) /\ ~StartJob(Job(at, c)) /\ Job(at, c) \in Jobs
           /\ \A c \in Clients, at \in {"beat", "arm", "start", "startArm"} :
                 /\ BeatJob(Job(at, c), e) <=> c = e
                 /\ ~ReadJob(Job(at, c), e) /\ Job(at, c) \in Jobs
                 /\ StartJob(Job(at, c)) <=> at \in {"start", "startArm"}
BY DEF Idle, Left, Job, Jobs, Beating, ReadJob, BeatJob, StartJob

(* The threads other than t, or all of them, do what they did. *)
OthersGoOn(t) ==
    /\ \A e \in Clients, u \in Threads : u # t =>
          (Reads(u, e)' <=> Reads(u, e)) /\ (Beats(u, e)' <=> Beats(u, e))
    /\ \A u \in Threads : u # t => (Starts(u)' <=> Starts(u))

AllGoOn ==
    /\ \A e \in Clients, u \in Threads :
          (Reads(u, e)' <=> Reads(u, e)) /\ (Beats(u, e)' <=> Beats(u, e))
    /\ \A u \in Threads : Starts(u)' <=> Starts(u)

(* A step of thread t changes its job and no other. *)
LEMMA Moves ==
    ASSUME TypeOK, NEW t \in Threads, NEW j \in Jobs, Runs(t, j)
    PROVE  /\ job' \in [Threads -> Jobs]
           /\ \A e \in Clients : /\ Reads(t, e)' <=> ReadJob(j, e)
                                 /\ Beats(t, e)' <=> BeatJob(j, e)
           /\ Starts(t)' <=> StartJob(j)
           /\ OthersGoOn(t)
<1>1. job \in [Threads -> Jobs] /\ job' = [job EXCEPT ![t] = j]
  BY DEF TypeOK, Runs
<1>2. \A u \in Threads : job'[u] = IF u = t THEN j ELSE job[u]
  BY <1>1
<1> QED
  BY <1>1, <1>2 DEF OthersGoOn, Reads, Beats, Starts

(* A step that leaves the jobs alone. *)
LEMMA Stays ==
    ASSUME UNCHANGED job
    PROVE  AllGoOn
BY DEF AllGoOn, Reads, Beats, Starts

(* Initially nothing is connected and all threads are idle. *)
LEMMA InitGatewayInv == Init => GatewayInv
<1> USE GatewayAssumption
<1> SUFFICES ASSUME Init PROVE GatewayInv
  OBVIOUS
<1>1. Idle \in Jobs
  BY DEF Idle, Jobs
<1>2. TypeOK
  <2>1. job \in [Threads -> Jobs]
    BY <1>1 DEF Init
  <2>2. writes \in [Clients -> Seq({"intact", "clobbered"})]
    BY DEF Init
  <2>3. inbox \in [Clients -> 0..MaxInbox] /\ age \in [Clients -> 0..(Timeout + 1)]
    BY DEF Init
  <2> QED
    BY <2>1, <2>2, <2>3 DEF Init, TypeOK, HttpStates
<1>3. \A t \in Threads, e \in Clients : ~Reads(t, e)
  BY Kinds DEF Init, Reads
<1>4. NotStarted /\ OneUser
  BY <1>3 DEF Init, NotStarted, OneUser
<1>5. Watched
  BY DEF Init, Watched, Open
<1>6. OneAtATime
  BY <1>3 DEF Init, OneAtATime, InTurn, UnderWay
<1>7. Accepts
  BY DEF Init, Accepts
<1> QED
  BY <1>2, <1>4, <1>5, <1>6, <1>7 DEF GatewayInv

(* Clients, and the data and replies on their sockets. *)
LEMMA ClientsKeep ==
    ASSUME GatewayInv, NEW c \in Clients,
           \/ Connect(c)
           \/ ClientSend(c)
           \/ ClientClose(c)
           \/ ReadReady(c)
           \/ WriteDone(c)
    PROVE  GatewayInv'
<1> USE GatewayAssumption DEF GatewayInv, OthersGoOn, AllGoOn, conns, dialogue, env, https
<1>1. CASE Connect(c)
  <2>1. job' = job /\ AllGoOn
    BY <1>1, Stays DEF Connect
  <2>2. TypeOK'
    BY <1>1, <2>1 DEF Connect, TypeOK
  <2>3. NotStarted' /\ OneUser'
    BY <1>1, <2>1 DEF Connect, TypeOK, NotStarted, OneUser
  <2>4. Watched'
    BY <1>1, <2>1 DEF Connect, TypeOK, Watched, Open
  <2>5. OneAtATime'
    BY <1>1, <2>1 DEF Connect, TypeOK, NotStarted, OneUser, OneAtATime, InTurn, UnderWay
  <2>6. Accepts'
    BY <1>1, <2>1 DEF Connect, TypeOK, Accepts
  <2> QED
    BY <2>2, <2>3, <2>4, <2>5, <2>6
<1>2. CASE ClientSend(c)
  <2>1. job' = job /\ AllGoOn
    BY <1>2, Stays DEF ClientSend
  <2>2. TypeOK'
    BY <1>2, <2>1 DEF ClientSend, TypeOK
  <2>3. NotStarted' /\ OneUser'
    BY <1>2, <2>1 DEF ClientSend, TypeOK, NotStarted, OneUser
  <2>4. Watched'
    BY <1>2, <2>1 DEF ClientSend, TypeOK, Watched, Open
  <2>5. OneAtATime'
    BY <1>2, <2>1
       DEF ClientSend, TypeOK, NotStarted, OneUser, OneAtATime, InTurn, UnderWay
  <2>6. Accepts'
    BY <1>2, <2>1 DEF ClientSend, TypeOK, Accepts
  <2> QED
    BY <2>2, <2>3, <2>4, <2>5, <2>6
<1>3. CASE ClientClose(c)
  <2>1. job' = job /\ AllGoOn
    BY <1>3, Stays DEF ClientClose
  <2>2. TypeOK'
    BY <1>3, <2>1 DEF ClientClose, TypeOK
  <2>3. NotStarted' /\ OneUser'
    BY <1>3, <2>1 DEF ClientClose, TypeOK, NotStarted, OneUser
  <2>4. Watched'
    BY <1>3, <2>1 DEF ClientClose, TypeOK, Watched, Open
  <2>5. OneAtATime'
    BY <1>3, <2>1
       DEF ClientClose, TypeOK, NotStarted, OneUser, OneAtATime, InTurn, UnderWay
  <2>6. Accepts'
    BY <1>3, <2>1 DEF ClientClose, TypeOK, Accepts
  <2> QED
    BY <2>2, <2>3, <2>4, <2>5, <2>6
<1>4. CASE ReadReady(c)
  <2>1. job' = job /\ AllGoOn
    BY <1>4, Stays DEF ReadReady
  <2>2. TypeOK'
    BY <1>4, <2>1 DEF ReadReady, TypeOK
  <2>3. NotStarted' /\ OneUser'
    BY <1>4, <2>1 DEF ReadReady, TypeOK, NotStarted, OneUser
  <2>4. Watched'
    BY <1>4, <2>1 DEF ReadReady, TypeOK, Watched, Open
  <2>5. OneAtATime'
    <3> SUFFICES ASSUME NEW e \in Clients, orderly'[e]
                 PROVE  InTurn(e)'
      BY DEF OneAtATime
    <3>1. CASE e # c
      <4>1. /\ orderly[e] /\ inbox'[e] = inbox[e] /\ reading'[e] = reading[e]
            /\ waiting'[e] = waiting[e] /\ writes' = writes
        BY <1>4, <3>1 DEF ReadReady, TypeOK
      <4> QED
        BY <2>1, <4>1 DEF OneAtATime, InTurn, UnderWay
    <3>2. CASE e = c
      <4>1. PICK k \in 1..inbox[c] :
               /\ inbox' = [inbox EXCEPT ![c] = @ - k]
               /\ orderly' = [orderly EXCEPT ![c] = @ /\ k = inbox[c]]
        BY <1>4 DEF ReadReady
      <4>2. orderly'[c] = (orderly[c] /\ k = inbox[c])
        BY <4>1, ZenonT(20) DEF TypeOK
      <4>3. orderly[c] /\ k = inbox[c]
        BY <3>2, <4>2
      <4>4. inbox'[c] = 0 /\ inbox[c] # 0
        BY <4>1, <4>3 DEF TypeOK
      <4>5. reading'[c] = "data" /\ writes' = writes
        BY <1>4 DEF ReadReady, TypeOK
      <4>6. waiting'[c] = (waiting[c] /\ orderly'[c])
        BY <1>4, ZenonT(20) DEF ReadReady, TypeOK
      <4>7. waiting[c] /\ writes[c] = <<>> /\ \A t \in Threads : ~Reads(t, c)
        BY <4>3, <4>4 DEF OneAtATime, InTurn, UnderWay
      <4> QED
        BY <2>1, <3>2, <4>4, <4>5, <4>6, <4>7 DEF InTurn, UnderWay
    <3> QED
      BY <3>1, <3>2
  <2>6. Accepts'
    BY <1>4, <2>1 DEF ReadReady, TypeOK, Accepts
  <2> QED
    BY <2>2, <2>3, <2>4, <2>5, <2>6
<1>5. CASE WriteDone(c)
  <2>1. job' = job /\ AllGoOn
    BY <1>5, Stays DEF WriteDone
  <2>2. /\ orderly[c] => writes'[c] \in {<<>>}
        /\ \A e \in Clients : e # c => writes'[e] = writes[e]
    BY <1>5, Replies DEF WriteDone, TypeOK, OneAtATime, InTurn, UnderWay
  <2>3. TypeOK'
    BY <1>5, <2>1, Replies DEF WriteDone, TypeOK
  <2>4. NotStarted' /\ OneUser'
    BY <1>5, <2>1 DEF WriteDone, TypeOK, NotStarted, OneUser
  <2>5. Watched'
    BY <1>5, <2>1 DEF WriteDone, TypeOK, Watched, Open
  <2>6. OneAtATime'
    BY <1>5, <2>1, <2>2
       DEF WriteDone, TypeOK, NotStarted, OneUser, OneAtATime, InTurn, UnderWay
  <2>7. Accepts'
    BY <1>5, <2>1 DEF WriteDone, TypeOK, Accepts
  <2> QED
    BY <2>3, <2>4, <2>5, <2>6, <2>7
<1> QED
  BY <1>1, <1>2, <1>3, <1>4, <1>5

(* The accept handler. *)
LEMMA AcceptKeeps ==
    ASSUME GatewayInv, NEW t \in Threads, NEW c \in Clients,
           \/ Accept(t, c)
           \/ AcceptThrows(t, c)
    PROVE  GatewayInv'
<1> USE GatewayAssumption DEF GatewayInv, OthersGoOn, AllGoOn, conns, dialogue, env, https
<1>1. CASE Accept(t, c)
  <2>1. \A e \in Clients : ~Reads(t, e) /\ ~Beats(t, e) /\ ~Starts(t)
    BY <1>1, Kinds DEF Accept, Ready, Reads, Beats, Starts
  <2>2. Job("start", c) \in Jobs /\ Runs(t, Job("start", c))
    BY <1>1, Kinds DEF Accept, Ready
  <2>3. /\ job' \in [Threads -> Jobs]
        /\ \A e \in Clients : ~Reads(t, e)' /\ (Beats(t, e)' <=> e = c) /\ Starts(t)'
        /\ OthersGoOn(t)
    BY <2>2, Moves, Kinds
  <2>4. age' \in [Clients -> 0..(Timeout + 1)]
    BY <1>1 DEF Accept, TypeOK
  <2>5. TypeOK'
    BY <1>1, <2>3, <2>4 DEF Accept, Ready, TypeOK
  <2>6. NotStarted' /\ OneUser'
    BY <1>1, <2>1, <2>3 DEF Accept, Ready, TypeOK, NotStarted, OneUser
  <2>7. Watched'
    BY <1>1, <2>1, <2>3 DEF Accept, Ready, TypeOK, Watched, Open
  <2>8. OneAtATime'
    BY <1>1, <2>1, <2>3
       DEF Accept, Ready, TypeOK, NotStarted, OneUser, OneAtATime, InTurn, UnderWay
  <2>9. Accepts'
    BY <1>1, <2>1, <2>3 DEF Accept, Ready, TypeOK, Accepts
  <2> QED
    BY <2>5, <2>6, <2>7, <2>8, <2>9
<1>2. CASE AcceptThrows(t, c)
  <2>1. \A e \in Clients : ~Reads(t, e) /\ ~Beats(t, e) /\ ~Starts(t)
    BY <1>2, Kinds DEF AcceptThrows, Ready, Reads, Beats, Starts
  <2>2. Left \in Jobs /\ Runs(t, Left)
    BY <1>2, Kinds DEF AcceptThrows, Ready
  <2>3. /\ job' \in [Threads -> Jobs]
        /\ \A e \in Clients : ~Reads(t, e)' /\ ~Beats(t, e)' /\ ~Starts(t)'
        /\ OthersGoOn(t)
    BY <2>2, Moves, Kinds
  <2>4. TypeOK'
    BY <1>2, <2>3 DEF AcceptThrows, Ready, TypeOK
  <2>5. NotStarted' /\ OneUser'
    BY <1>2, <2>1, <2>3 DEF AcceptThrows, Ready, TypeOK, NotStarted, OneUser
  <2>6. Watched'
    BY <1>2, <2>1, <2>3 DEF AcceptThrows, Ready, TypeOK, Watched, Open
  <2>7. OneAtATime'
    BY <1>2, <2>1, <2>3
       DEF AcceptThrows, Ready, TypeOK, NotStarted, OneUser, OneAtATime, InTurn,
           UnderWay
  <2>8. Accepts'
    BY <1>2, <2>1, <2>3 DEF AcceptThrows, Ready, TypeOK, Accepts
  <2> QED
    BY <2>4, <2>5, <2>6, <2>7, <2>8
<1> QED
  BY <1>1, <1>2

(* Handlers that meet an error. *)
LEMMA ErrorKeeps ==
    ASSUME GatewayInv, NEW t \in Threads, NEW c \in Clients,
           \/ WriteError(t, c)
           \/ ReadError(t, c)
    PROVE  GatewayInv'
<1> USE GatewayAssumption DEF GatewayInv, OthersGoOn, AllGoOn, conns, dialogue, env, https
<1>1. CASE WriteError(t, c)
  <2>1. job' = job /\ AllGoOn
    BY <1>1, Stays DEF WriteError, Stop
  <2>2. /\ orderly[c] => writes'[c] \in {<<>>}
        /\ \A e \in Clients : e # c => writes'[e] = writes[e]
    BY <1>1, Replies DEF WriteError, Stop, TypeOK, OneAtATime, InTurn, UnderWay
  <2>3. TypeOK'
    BY <1>1, <2>1, Replies DEF WriteError, Stop, TypeOK
  <2>4. NotStarted' /\ OneUser'
    BY <1>1, <2>1 DEF WriteError, Stop, TypeOK, NotStarted, OneUser
  <2>5. Watched'
    BY <1>1, <2>1 DEF WriteError, Stop, TypeOK, Watched, Open
  <2>6. OneAtATime'
    BY <1>1, <2>1, <2>2
       DEF WriteError, Stop, TypeOK, NotStarted, OneUser, OneAtATime, InTurn,
           UnderWay
  <2>7. Accepts'
    BY <1>1, <2>1 DEF WriteError, Stop, TypeOK, Accepts
  <2> QED
    BY <2>3, <2>4, <2>5, <2>6, <2>7
<1>2. CASE ReadError(t, c)
  <2>1. job' = job /\ AllGoOn
    BY <1>2, Stays DEF ReadError, Stop
  <2>2. TypeOK'
    BY <1>2, <2>1 DEF ReadError, Stop, TypeOK
  <2>3. NotStarted' /\ OneUser'
    BY <1>2, <2>1 DEF ReadError, Stop, TypeOK, NotStarted, OneUser
  <2>4. Watched'
    BY <1>2, <2>1 DEF ReadError, Stop, TypeOK, Watched, Open
  <2>5. OneAtATime'
    BY <1>2, <2>1
       DEF ReadError, Stop, TypeOK, NotStarted, OneUser, OneAtATime, InTurn,
           UnderWay
  <2>6. Accepts'
    BY <1>2, <2>1 DEF ReadError, Stop, TypeOK, Accepts
  <2> QED
    BY <2>2, <2>3, <2>4, <2>5, <2>6
<1> QED
  BY <1>1, <1>2

(* The read handler: it replies, blocks in the RPC, or dies with its       *)
(* thread.                                                                 *)
LEMMA ReadKeeps ==
    ASSUME GatewayInv, NEW t \in Threads, NEW c \in Clients,
           \/ ReadBegin(t, c)
           \/ ParseForwards(t, c)
           \/ ParseReplies(t, c)
           \/ ForwardAnswered(t, c)
           \/ ParseThrows(t, c)
           \/ ForwardFails(t, c)
    PROVE  GatewayInv'
<1> USE GatewayAssumption DEF GatewayInv, OthersGoOn, AllGoOn, conns, dialogue, env, https
<1>1. CASE ReadBegin(t, c)
  <2>1. \A e \in Clients : ~Reads(t, e) /\ ~Beats(t, e) /\ ~Starts(t)
    BY <1>1, Kinds DEF ReadBegin, Ready, Reads, Beats, Starts
  <2>2. Job("parse", c) \in Jobs /\ Runs(t, Job("parse", c))
    BY <1>1, Kinds DEF ReadBegin, Ready
  <2>3. /\ job' \in [Threads -> Jobs]
        /\ \A e \in Clients : (Reads(t, e)' <=> e = c) /\ ~Beats(t, e)' /\ ~Starts(t)'
        /\ OthersGoOn(t)
    BY <2>2, Moves, Kinds
  <2>4. TypeOK'
    BY <1>1, <2>3 DEF ReadBegin, Ready, TypeOK
  <2>5. NotStarted' /\ OneUser'
    BY <1>1, <2>1, <2>3 DEF ReadBegin, Ready, TypeOK, NotStarted, OneUser
  <2>6. Watched'
    BY <1>1, <2>1, <2>3 DEF ReadBegin, Ready, TypeOK, Watched, Open
  <2>7. OneAtATime'
    BY <1>1, <2>1, <2>3
       DEF ReadBegin, Ready, TypeOK, NotStarted, OneUser, OneAtATime, InTurn,
           UnderWay
  <2>8. Accepts'
    BY <1>1, <2>1, <2>3 DEF ReadBegin, Ready, TypeOK, Accepts
  <2> QED
    BY <2>4, <2>5, <2>6, <2>7, <2>8
<1>2. CASE ParseForwards(t, c)
  <2>1. \A e \in Clients : (Reads(t, e) <=> e = c) /\ ~Beats(t, e) /\ ~Starts(t)
    BY <1>2, Kinds DEF ParseForwards, Reads, Beats, Starts
  <2>2. Job("forward", c) \in Jobs /\ Runs(t, Job("forward", c))
    BY <1>2, Kinds DEF ParseForwards
  <2>3. /\ job' \in [Threads -> Jobs]
        /\ \A e \in Clients : (Reads(t, e)' <=> e = c) /\ ~Beats(t, e)' /\ ~Starts(t)'
        /\ OthersGoOn(t)
    BY <2>2, Moves, Kinds
  <2>4. TypeOK'
    BY <1>2, <2>3 DEF ParseForwards, TypeOK
  <2>5. NotStarted' /\ OneUser'
    BY <1>2, <2>1, <2>3 DEF ParseForwards, TypeOK, NotStarted, OneUser
  <2>6. Watched'
    BY <1>2, <2>1, <2>3 DEF ParseForwards, TypeOK, Watched, Open
  <2>7. OneAtATime'
    BY <1>2, <2>1, <2>3
       DEF ParseForwards, TypeOK, NotStarted, OneUser, OneAtATime, InTurn, UnderWay
  <2>8. Accepts'
    BY <1>2, <2>1, <2>3 DEF ParseForwards, TypeOK, Accepts
  <2> QED
    BY <2>4, <2>5, <2>6, <2>7, <2>8
<1>3. CASE ParseReplies(t, c) \/ ForwardAnswered(t, c)
  <2>1. \A e \in Clients : (Reads(t, e) <=> e = c) /\ ~Beats(t, e) /\ ~Starts(t)
    BY <1>3, Kinds DEF ParseReplies, ForwardAnswered, SendAndRead, Reads, Beats, Starts
  <2>2. Idle \in Jobs /\ Runs(t, Idle)
    BY <1>3, Kinds DEF ParseReplies, ForwardAnswered, SendAndRead
  <2>3. /\ job' \in [Threads -> Jobs]
        /\ \A e \in Clients : ~Reads(t, e)' /\ ~Beats(t, e)' /\ ~Starts(t)'
        /\ OthersGoOn(t)
    BY <2>2, Moves, Kinds
  <2>4. SendAndRead(t, c)
    BY <1>3 DEF ParseReplies, ForwardAnswered
  <2>5. /\ orderly[c] => writes'[c] \in {<<>>, <<"intact">>}
        /\ \A e \in Clients : e # c => writes'[e] = writes[e]
    BY <2>4, <2>1, Replies DEF SendAndRead, Send, TypeOK, OneAtATime, InTurn, UnderWay
  <2>6. TypeOK'
    BY <2>4, <2>3, Replies DEF SendAndRead, Send, TypeOK
  <2>7. NotStarted' /\ OneUser'
    BY <2>1, <2>3, <2>4 DEF SendAndRead, TypeOK, NotStarted, OneUser
  <2>8. Watched'
    BY <2>1, <2>3, <2>4 DEF SendAndRead, TypeOK, Watched, Open
  <2>9. OneAtATime'
    <3> SUFFICES ASSUME NEW e \in Clients, orderly'[e] PROVE InTurn(e)'
      BY DEF OneAtATime
    <3>1. orderly[e] /\ InTurn(e) /\ waiting'[e] = waiting[e] /\ inbox'[e] = inbox[e]
      BY <2>4 DEF SendAndRead, OneAtATime
    <3>2. CASE e = c
      <4>1. waiting[c] /\ inbox[c] = 0
        BY <2>1, <3>1, <3>2 DEF InTurn, UnderWay
      <4>2. reading'[c] = "armed"
        BY <2>4 DEF SendAndRead, TypeOK
      <4>3. \A u \in Threads : ~Reads(u, c)'
        BY <2>1, <2>3 DEF OneUser
      <4> QED
        BY <2>5, <3>1, <3>2, <4>1, <4>2, <4>3 DEF InTurn, UnderWay
    <3>3. CASE e # c
      <4>1. reading'[e] = reading[e] /\ \A u \in Threads : Reads(u, e)' <=> Reads(u, e)
        BY <2>1, <2>3, <3>3, <2>4 DEF SendAndRead, TypeOK
      <4> QED
        BY <2>5, <3>1, <3>3, <4>1 DEF InTurn, UnderWay
    <3> QED
      BY <3>2, <3>3
  <2>10. Accepts'
    BY <2>1, <2>3, <2>4 DEF SendAndRead, TypeOK, Accepts
  <2> QED
    BY <2>6, <2>7, <2>8, <2>9, <2>10
<1>4. CASE ParseThrows(t, c) \/ ForwardFails(t, c)
  <2>1. \A e \in Clients : (Reads(t, e) <=> e = c) /\ ~Beats(t, e) /\ ~Starts(t)
    BY <1>4, Kinds DEF ParseThrows, ForwardFails, HandlerThrows, Reads, Beats, Starts
  <2>2. Left \in Jobs /\ Runs(t, Left)
    BY <1>4, Kinds DEF ParseThrows, ForwardFails, HandlerThrows
  <2>3. /\ job' \in [Threads -> Jobs]
        /\ \A e \in Clients : ~Reads(t, e)' /\ ~Beats(t, e)' /\ ~Starts(t)'
        /\ OthersGoOn(t)
    BY <2>2, Moves, Kinds
  <2>4. TypeOK'
    BY <1>4, <2>3 DEF ParseThrows, ForwardFails, HandlerThrows, TypeOK
  <2>5. NotStarted' /\ OneUser'
    BY <1>4, <2>1, <2>3
       DEF ParseThrows, ForwardFails, HandlerThrows, TypeOK, NotStarted, OneUser
  <2>6. Watched'
    BY <1>4, <2>1, <2>3
       DEF ParseThrows, ForwardFails, HandlerThrows, TypeOK, Watched, Open
  <2>7. OneAtATime'
    BY <1>4, <2>1, <2>3
       DEF ParseThrows, ForwardFails, HandlerThrows, TypeOK, NotStarted, OneUser,
           OneAtATime, InTurn, UnderWay
  <2>8. Accepts'
    BY <1>4, <2>1, <2>3 DEF ParseThrows, ForwardFails, HandlerThrows, TypeOK, Accepts
  <2> QED
    BY <2>4, <2>5, <2>6, <2>7, <2>8
<1> QED
  BY <1>1, <1>2, <1>3, <1>4

(* CheckHeartbeat. *)
LEMMA HeartbeatKeeps ==
    ASSUME GatewayInv, NEW t \in Threads, NEW c \in Clients,
           \/ HeartbeatBegin(t, c)
           \/ HeartbeatTest(t, c)
           \/ HeartbeatArm(t, c)
    PROVE  GatewayInv'
<1> USE GatewayAssumption DEF GatewayInv, OthersGoOn, AllGoOn, conns, dialogue, env, https
<1>1. CASE HeartbeatBegin(t, c) /\ UNCHANGED job
  <2>1. \A e \in Clients : ~Beats(t, e)
    BY <1>1, Kinds DEF HeartbeatBegin, Ready, Beats
  <2>2. AllGoOn
    BY <1>1, Stays
  <2>3. /\ timer' = [timer EXCEPT ![c] = "off"]
        /\ is_stopped_' \in [Clients -> BOOLEAN] /\ is_stopped_'[c]
        /\ \A e \in Clients : e # c => is_stopped_'[e] = is_stopped_[e]
    <3>1. CASE is_stopped_[c] /\ UNCHANGED is_stopped_
      BY <1>1, <3>1 DEF HeartbeatBegin, TypeOK
    <3>2. CASE is_stopped_' = [is_stopped_ EXCEPT ![c] = TRUE]
      BY <1>1, <3>2 DEF HeartbeatBegin, TypeOK
    <3>3. CASE Runs(t, Job("beat", c))
      <4>1. job[t] = Idle /\ Job("beat", c) # Idle
        BY <1>1 DEF HeartbeatBegin, Ready, Job, Idle
      <4> QED
        BY <1>1, <3>3, <4>1 DEF Runs, TypeOK
    <3> QED
      BY <1>1, <3>1, <3>2, <3>3 DEF HeartbeatBegin
  <2>4. TypeOK'
    <3>1. UNCHANGED <<accepting, phase, inbox, peerClosed, reading, age, writes,
                      dialogue, env>>
      BY <1>1 DEF HeartbeatBegin
    <3> QED
      BY <1>1, <2>3, <3>1 DEF TypeOK
  <2>5. NotStarted' /\ OneUser'
    BY <1>1, <2>2 DEF HeartbeatBegin, NotStarted, OneUser
  <2>6. Watched'
    BY <1>1, <2>2, <2>3 DEF HeartbeatBegin, TypeOK, Watched, Open
  <2>7. OneAtATime'
    BY <1>1, <2>2 DEF HeartbeatBegin, OneAtATime, InTurn, UnderWay
  <2>8. Accepts'
    BY <1>1, <2>2 DEF HeartbeatBegin, Accepts
  <2> QED
    BY <2>4, <2>5, <2>6, <2>7, <2>8
<1>2. CASE HeartbeatBegin(t, c) /\ Runs(t, Job("beat", c)) /\ UNCHANGED is_stopped_
  <2>1. \A e \in Clients : ~Reads(t, e) /\ ~Beats(t, e) /\ ~Starts(t)
    BY <1>2, Kinds DEF HeartbeatBegin, Ready, Reads, Beats, Starts
  <2>2. Job("beat", c) \in Jobs
    BY Kinds
  <2>3. /\ job' \in [Threads -> Jobs]
        /\ \A e \in Clients : ~Reads(t, e)' /\ (Beats(t, e)' <=> e = c) /\ ~Starts(t)'
        /\ OthersGoOn(t)
    BY <1>2, <2>2, Moves, Kinds
  <2>4. TypeOK'
    BY <1>2, <2>3 DEF HeartbeatBegin, TypeOK
  <2>5. NotStarted' /\ OneUser'
    BY <1>2, <2>1, <2>3 DEF HeartbeatBegin, NotStarted, OneUser
  <2>6. Watched'
    BY <1>2, <2>1, <2>3 DEF HeartbeatBegin, TypeOK, Watched, Open
  <2>7. OneAtATime'
    BY <1>2, <2>1, <2>3 DEF HeartbeatBegin, OneAtATime, InTurn, UnderWay
  <2>8. Accepts'
    BY <1>2, <2>1, <2>3 DEF HeartbeatBegin, Accepts
  <2> QED
    BY <2>4, <2>5, <2>6, <2>7, <2>8
<1>3. CASE HeartbeatTest(t, c) \/ HeartbeatArm(t, c)
  <2>1. PICK at \in {"beat", "arm", "start", "startArm"} : job[t] = Job(at, c)
    BY <1>3 DEF HeartbeatTest, HeartbeatArm
  <2>2. /\ \A e \in Clients : ~Reads(t, e) /\ (Beats(t, e) <=> e = c)
        /\ Starts(t) <=> job[t].at \in {"start", "startArm"}
    BY <2>1, Kinds DEF Reads, Beats, Starts, StartJob
  <2>3. CASE HeartbeatTest(t, c) /\ ~is_stopped_[c]
    <3>1. PICK at2 \in {"arm", "startArm"} :
             Runs(t, Job(at2, c)) /\ (at2 = "arm" <=> job[t].at = "beat")
      BY <2>3 DEF HeartbeatTest
    <3>2. job[t].at \in {"beat", "start"}
      BY <2>3 DEF HeartbeatTest, Job
    <3>3. Job(at2, c) \in Jobs
      BY Kinds
    <3>4. /\ job' \in [Threads -> Jobs]
          /\ \A e \in Clients : ~Reads(t, e)' /\ (Beats(t, e)' <=> e = c)
          /\ Starts(t)' <=> at2 = "startArm"
          /\ OthersGoOn(t)
      BY <3>1, <3>3, Moves, Kinds
    <3>5. AllGoOn
      BY <2>2, <3>1, <3>2, <3>4
    <3>6. UNCHANGED <<accepting, conns, env>>
      BY <2>3 DEF HeartbeatTest
    <3>7. TypeOK'
      BY <3>4, <3>6 DEF TypeOK
    <3>8. NotStarted' /\ OneUser' /\ Watched' /\ OneAtATime' /\ Accepts'
      BY <3>5, <3>6
         DEF NotStarted, OneUser, Watched, Open, OneAtATime, InTurn, UnderWay,
             Accepts
    <3> QED
      BY <3>7, <3>8
  <2>4. CASE /\ AfterHeartbeat(t)
             /\ HeartbeatArm(t, c) \/ (HeartbeatTest(t, c) /\ is_stopped_[c])
    <3>1. Idle \in Jobs /\ Runs(t, Idle)
      BY <2>4, Kinds DEF AfterHeartbeat
    <3>2. /\ job' \in [Threads -> Jobs]
          /\ \A e \in Clients : ~Reads(t, e)' /\ ~Beats(t, e)'
          /\ ~Starts(t)'
          /\ OthersGoOn(t)
      BY <3>1, Moves, Kinds
    <3>3. /\ UNCHANGED <<phase, is_stopped_, inbox, peerClosed, reading, age, writes,
                         dialogue, env>>
          /\ timer' \in [Clients -> {"off", "armed", "fired"}]
          /\ \A e \in Clients : e # c => timer'[e] = timer[e]
          /\ is_stopped_[c] \/ timer'[c] = "armed"
      BY <2>4 DEF HeartbeatArm, HeartbeatTest, TypeOK
    <3>4. accepting' \in BOOLEAN /\ (accepting => accepting') /\ (Starts(t) => accepting')
      BY <2>2, <2>4 DEF AfterHeartbeat, TypeOK
    <3>5. TypeOK'
      BY <3>2, <3>3, <3>4 DEF TypeOK
    <3>6. NotStarted' /\ OneUser'
      BY <2>2, <3>2, <3>3 DEF NotStarted, OneUser
    <3>7. Watched'
      BY <2>2, <3>2, <3>3 DEF Watched, Open
    <3>8. OneAtATime'
      BY <2>2, <3>2, <3>3 DEF OneAtATime, InTurn, UnderWay
    <3>9. Accepts'
      BY <3>2, <3>3, <3>4 DEF Accepts
    <3> QED
      BY <3>5, <3>6, <3>7, <3>8, <3>9
  <2> QED
    BY <1>3, <2>3, <2>4 DEF HeartbeatTest, HeartbeatArm
<1> QED
  BY <1>1, <1>2, <1>3 DEF HeartbeatBegin

(* Time, signals, HTTP connections, and steps that change nothing. *)
LEMMA OthersKeep ==
    ASSUME GatewayInv,
           \/ Tick
           \/ Signal
           \/ \E h \in HttpClients :
                 HttpConnect(h) \/ HttpClientSends(h) \/ HttpClientGoes(h) \/ HttpHandler(h)
           \/ UNCHANGED vars
    PROVE  GatewayInv'
<1> USE GatewayAssumption DEF GatewayInv, OthersGoOn, AllGoOn, conns, dialogue, env, https
<1>1. CASE Tick
  <2>1. UNCHANGED <<accepting, phase, is_stopped_, inbox, peerClosed, reading, writes,
                    dialogue, job, env>>
    BY <1>1 DEF Tick
  <2>2. /\ timer' \in [Clients -> {"off", "armed", "fired"}]
        /\ \A e \in Clients : timer[e] # "off" => timer'[e] # "off"
    BY <1>1 DEF Tick, TypeOK
  <2>3. age' \in [Clients -> 0..(Timeout + 1)]
    BY <1>1 DEF Tick, TypeOK
  <2>4. TypeOK'
    BY <2>1, <2>2, <2>3 DEF TypeOK
  <2>5. NotStarted' /\ OneUser' /\ Watched' /\ OneAtATime' /\ Accepts'
    BY <2>1, <2>2, Stays
       DEF NotStarted, OneUser, Watched, Open, OneAtATime, InTurn, UnderWay, Accepts
  <2> QED
    BY <2>4, <2>5
<1>2. ASSUME UNCHANGED <<accepting, conns, job, exited>>, signalled' \in BOOLEAN,
             http' \in [HttpClients -> HttpStates],
             httpSent' \in [HttpClients -> BOOLEAN], httpGone' \in [HttpClients -> BOOLEAN]
      PROVE  GatewayInv'
  <2>1. TypeOK'
    BY <1>2 DEF TypeOK
  <2>2. NotStarted' /\ OneUser' /\ Watched' /\ OneAtATime' /\ Accepts'
    BY <1>2, Stays
       DEF NotStarted, OneUser, Watched, Open, OneAtATime, InTurn, UnderWay, Accepts
  <2> QED
    BY <2>1, <2>2
<1>3. CASE Signal
  BY <1>2, <1>3 DEF Signal, TypeOK
<1>4. ASSUME NEW h \in HttpClients,
             HttpConnect(h) \/ HttpClientSends(h) \/ HttpClientGoes(h) \/ HttpHandler(h)
      PROVE  GatewayInv'
  <2>1. /\ UNCHANGED <<accepting, conns, job, signalled, exited>>
        /\ http' \in [HttpClients -> HttpStates]
        /\ httpSent' \in [HttpClients -> BOOLEAN] /\ httpGone' \in [HttpClients -> BOOLEAN]
    BY <1>4
       DEF HttpConnect, HttpClientSends, HttpClientGoes, HttpHandler, HttpAccept,
           HttpRead, HttpReadError, HttpWritten, HttpWriteError, HttpHandled,
           HttpOnly, HttpStates, TypeOK
  <2>2. signalled' \in BOOLEAN
    BY <2>1 DEF TypeOK
  <2> QED
    BY <1>2, <2>1, <2>2
<1>5. CASE UNCHANGED vars
  BY <1>2, <1>5 DEF vars, TypeOK
<1> QED
  BY <1>1, <1>3, <1>4, <1>5

(* Threads that return, and the end of the process. *)
LEMMA EndKeeps ==
    ASSUME GatewayInv, (\E t \in Threads : ThreadReturns(t)) \/ Exit
    PROVE  GatewayInv'
<1> USE GatewayAssumption DEF GatewayInv, OthersGoOn, AllGoOn, conns, dialogue, env, https
<1>1. ASSUME NEW t \in Threads, ThreadReturns(t)
      PROVE  GatewayInv'
  <2>1. \A e \in Clients : ~Reads(t, e) /\ ~Beats(t, e) /\ ~StartJob(job[t])
    BY <1>1, Kinds DEF ThreadReturns, Reads, Beats
  <2>2. Left \in Jobs /\ Idle.at = "idle" /\ Left.at = "left"
    BY DEF Left, Idle, Jobs
  <2>3. ~Starts(t) /\ ~StartJob(Left)
    BY <1>1, <2>2 DEF ThreadReturns, Starts, StartJob
  <2>4. Runs(t, Left) /\ UNCHANGED <<accepting, conns, env>>
    BY <1>1 DEF ThreadReturns
  <2>5. job' \in [Threads -> Jobs]
    BY <2>2, <2>4, Moves
  <2>6. AllGoOn
    BY <2>1, <2>2, <2>3, <2>4, Moves, Kinds
  <2>7. TypeOK'
    BY <2>4, <2>5 DEF TypeOK
  <2>8. NotStarted' /\ OneUser' /\ Watched' /\ OneAtATime' /\ Accepts'
    BY <2>4, <2>6
       DEF NotStarted, OneUser, Watched, Open, OneAtATime, InTurn, UnderWay, Accepts
  <2> QED
    BY <2>7, <2>8
<1>2. CASE Exit
  <2>1. \A e \in Clients, u \in Threads : ~Reads(u, e)'
    BY <1>2, Kinds DEF Exit, Reads
  <2>2. /\ writes' \in [Clients -> Seq({"intact", "clobbered"})]
        /\ \A e \in Clients : writes'[e] = <<>>
    BY <1>2 DEF Exit
  <2>3. TypeOK'
    BY <1>2, <2>2 DEF Exit, TypeOK, HttpStates
  <2>4. NotStarted' /\ OneUser'
    BY <1>2, <2>1 DEF Exit, NotStarted, OneUser
  <2>5. Watched' /\ Accepts'
    BY <1>2 DEF Exit, Watched, Accepts
  <2>6. OneAtATime'
    BY <1>2, <2>1, <2>2 DEF Exit, OneAtATime, InTurn, UnderWay
  <2> QED
    BY <2>3, <2>4, <2>5, <2>6
<1> QED
  BY <1>1, <1>2

(* Every step preserves the invariant. *)
LEMMA GatewayInvStep == GatewayInv /\ [Next]_vars => GatewayInv'
<1> SUFFICES ASSUME GatewayInv, [Next]_vars PROVE GatewayInv'
  OBVIOUS
<1>1. ASSUME NEW c \in Clients,
             \/ Connect(c) \/ ClientSend(c) \/ ClientClose(c)
             \/ TimerHandler(c) \/ ReadHandler(c) \/ WriteHandler(c)
             \/ ReadReady(c) \/ WriteDone(c)
             \/ \E t \in Threads : Accept(t, c) \/ AcceptThrows(t, c)
      PROVE  GatewayInv'
  <2>1. CASE Connect(c) \/ ClientSend(c) \/ ClientClose(c) \/ ReadReady(c) \/ WriteDone(c)
    BY <2>1, ClientsKeep
  <2>2. CASE TimerHandler(c)
    BY <2>2, HeartbeatKeeps DEF TimerHandler
  <2>3. CASE ReadHandler(c)
    BY <2>3, ReadKeeps, ErrorKeeps DEF ReadHandler
  <2>4. CASE WriteHandler(c)
    BY <2>4, ErrorKeeps DEF WriteHandler
  <2>5. CASE \E t \in Threads : Accept(t, c) \/ AcceptThrows(t, c)
    BY <2>5, AcceptKeeps
  <2> QED
    BY <1>1, <2>1, <2>2, <2>3, <2>4, <2>5
<1>2. ASSUME NEW t \in Threads, ThreadStep(t)
      PROVE  GatewayInv'
  BY <1>2, ReadKeeps, HeartbeatKeeps, EndKeeps DEF ThreadStep
<1> QED
  BY <1>1, <1>2, OthersKeep, EndKeeps DEF Next

(* The invariant holds throughout. *)
LEMMA GatewayInvariant == Spec => []GatewayInv
BY InitGatewayInv, GatewayInvStep, PTL DEF Spec

-----------------------------------------------------------------------------
(* Connections and threads keep their types. *)
THEOREM GatewayTypeCorrect == Spec => []TypeOK
BY GatewayInvariant, PTL DEF GatewayInv

(* Every open connection is watched by CheckHeartbeat, whatever becomes of *)
(* its read handler.                                                       *)
THEOREM GatewayHeartbeatWatches == Spec => []HeartbeatWatches
<1>1. GatewayInv => HeartbeatWatches
  BY DEF GatewayInv, Watched, HeartbeatWatches, InHandler, Beats, BeatJob
<1> QED
  BY <1>1, GatewayInvariant, PTL

(* read_buffer_ has one user at a time: the armed read or one handler. *)
THEOREM GatewayOneReader == Spec => []OneReader
<1>1. GatewayInv => OneReader
  <2> SUFFICES ASSUME GatewayInv, NEW c \in Clients
               PROVE  Cardinality(InHandler(c, {"parse", "forward"}))
                         + (IF reading[c] # "off" THEN 1 ELSE 0) <= 1
    BY DEF OneReader
  <2> DEFINE readers == InHandler(c, {"parse", "forward"})
  <2>1. CASE readers = {}
    <3>1. Cardinality(readers) = 0
      BY <2>1, FS_EmptySet
    <3> QED
      BY <3>1
  <2>2. CASE readers # {}
    <3>1. PICK t \in Threads : t \in readers /\ Reads(t, c)
      BY <2>2 DEF InHandler, Reads, ReadJob
    <3>2. readers = {t} /\ reading[c] = "off"
      BY <3>1 DEF GatewayInv, OneUser, InHandler, Reads, ReadJob
    <3>3. Cardinality(readers) = 1
      BY <3>2, FS_Singleton
    <3> QED
      BY <3>2, <3>3
  <2> QED
    BY <2>1, <2>2
<1> QED
  BY <1>1, GatewayInvariant, PTL

(* write_msg_ is not replaced under a reply to a client that waits for its *)
(* replies, as long as each of its requests was taken by one read.         *)
THEOREM GatewayOrderlyRepliesIntact == Spec => []OrderlyRepliesIntact
<1>1. GatewayInv => OrderlyRepliesIntact
  BY DEF GatewayInv, OneAtATime, InTurn, OrderlyRepliesIntact
<1> QED
  BY <1>1, GatewayInvariant, PTL

(* async_accept is armed again after every connection but one whose peer   *)
(* had gone before it was started.                                         *)
THEOREM GatewayAccepting == Spec => []AcceptingUnlessPeerGone
<1>1. GatewayInv => AcceptingUnlessPeerGone
  BY DEF GatewayInv, Accepts, Starts, StartJob, AcceptingUnlessPeerGone
<1> QED
  BY <1>1, GatewayInvariant, PTL

=============================================================================

---------------------------- MODULE UserService ----------------------------
(***************************************************************************)
(* The user service: AuthService (Register, Login, Logout), TokenManager   *)
(* over RedisClient, FriendService (AddFriend, GetFriendList) and the two  *)
(* DAOs.  Each call runs on a thread of its own; what it knows is what its *)
(* last statement told it, and the tables may have changed since.          *)
(*                                                                         *)
(* A user's id is the place of the row in users (gaps in AUTO_INCREMENT do *)
(* not matter).  A token TK_<id>_<type>_<ms>_<random> is presented by the  *)
(* user it was issued to, so its last two parts, one number, tell it from  *)
(* the others; two logins of one millisecond may draw the same.            *)
(***************************************************************************)
EXTENDS Integers, Sequences, FiniteSets, FiniteSetsExt

CONSTANTS
    Calls,          \* threads that serve requests
    Names,          \* login names
    Passwords,
    PageSize,       \* page_size of GetFriendList
    MaxPage,        \* largest page a client asks for
    MaxRetries,     \* max_retries of every DAO call (3 in the code)
    MaxRequests,    \* bound: requests served in a behaviour
    Seeded          \* bound: users who may have friends or a session at first

ASSUME UserServiceAssumption ==
    /\ IsFiniteSet(Names)
    /\ PageSize \in Nat \ {0}
    /\ {MaxPage, MaxRetries, MaxRequests} \subseteq Nat
    /\ Seeded \subseteq Nat

VARIABLES
    users,      \* table users: sequence of [name, pw], key idx_username
    friends,    \* table user_friends: pairs <<user_id, friend_id>>, status 1
    redis,      \* redis[u]: the token under "user:token:<u>"
    clock,      \* the last number a token was made of
    served,     \* how many requests have been accepted
    req,        \* req[c]: the request c serves or served last
    pc,         \* pc[c]: the statement c is at
    loc,        \* loc[c]: locals of c
    out,        \* out[c]: what c returned
    hist        \* hist[c]: history, read by properties only

stores == <<users, friends, redis, clock>>
vars == <<stores, served, req, pc, loc, out, hist>>

Ids == 1..Cardinality(Names)
NoToken == -1
Tokens == {NoToken} \union 0..MaxRequests

Requests ==
    [op : {"Register", "Login"}, name : Names, pw : Passwords]
    \union [op : {"Logout", "VerifyToken"}, uid : Ids, token : Tokens]
    \union [op : {"AddFriend"}, uid : Ids, peer : Ids]
    \union [op : {"GetFriendList"}, uid : Ids, page : 0..MaxPage]

NoRequest == [op |-> "none"]

FirstStep == [Register |-> "find", Login |-> "find", Logout |-> "verify",
              VerifyToken |-> "verify", AddFriend |-> "target",
              GetFriendList |-> "count"]

FreshLoc == [attempt |-> 0, row |-> 0, total |-> 0, list |-> [i \in Ids |-> 0]]

RowsOf(n) == {i \in DOMAIN users : users[i].name = n}
FriendsOf(u) == {f \in Ids : <<u, f>> \in friends}

(* FindById, when one of its attempts is answered. *)
FindById(u) == u \in DOMAIN users

(* The tables outlive the process: it may start on any content that       *)
(* earlier runs leave behind, with a session open or not.                  *)
Init ==
    /\ \E n \in 0..Cardinality(Names) :
          users \in {s \in [1..n -> [name : Names, pw : Passwords]] :
                       \A i, j \in 1..n : s[i].name = s[j].name => i = j}
    /\ friends \in SUBSET {p \in (Seeded \intersect DOMAIN users) \X DOMAIN users : p[1] # p[2]}
    /\ redis \in {r \in [Ids -> {NoToken, 0}] :
                    \A u \in Ids : r[u] = 0 => u \in Seeded \intersect DOMAIN users}
    /\ clock = 0
    /\ served = 0
    /\ req = [c \in Calls |-> NoRequest]
    /\ pc = [c \in Calls |-> "idle"]
    /\ loc = [c \in Calls |-> FreshLoc]
    /\ out = [c \in Calls |-> "none"]
    /\ hist = [c \in Calls |-> [fault |-> FALSE, seen |-> 0]]

-----------------------------------------------------------------------------
(* Steps that all requests share.                                          *)

Goto(c, step) == pc' = [pc EXCEPT ![c] = step]

(* The method returns r to the client. *)
Return(c, r) == Goto(c, "idle") /\ out' = [out EXCEPT ![c] = r]

Continue(c, step) == Goto(c, step) /\ UNCHANGED out

SetLoc(c, field, v) == loc' = [loc EXCEPT ![c][field] = v]

Fault(c) == hist' = [hist EXCEPT ![c].fault = TRUE]

(* An attempt of ExecuteWithRetry threw: the next one begins, or it was    *)
(* the last one and the catch (...) of the method follows.                 *)
Again(c, step) ==
    /\ loc[c].attempt < MaxRetries
    /\ SetLoc(c, "attempt", loc[c].attempt + 1)
    /\ Continue(c, step)

Exhausted(c) == loc[c].attempt >= MaxRetries /\ UNCHANGED loc

Request(c) ==
    /\ pc[c] = "idle"
    /\ served < MaxRequests
    /\ served' = served + 1
    /\ \E r \in Requests :
          /\ r.op \in {"Logout", "VerifyToken"} => r.token <= clock
          /\ req' = [req EXCEPT ![c] = r]
          /\ pc' = [pc EXCEPT ![c] = FirstStep[r.op]]
    /\ loc' = [loc EXCEPT ![c] = FreshLoc]
    /\ out' = [out EXCEPT ![c] = "none"]
    /\ hist' = [hist EXCEPT ![c] = [fault |-> FALSE, seen |-> Len(users)]]
    /\ UNCHANGED stores

-----------------------------------------------------------------------------
(* AuthService.                                                            *)

(* Fault: Login does not test the password. *)
AfterFindUntested(c, i) ==
    \/ req[c].op = "Register" /\ i # 0 /\ Return(c, "USER_ALREADY_EXISTS")
    \/ req[c].op = "Register" /\ i = 0 /\ Continue(c, "insert")
    \/ req[c].op = "Login" /\ i = 0 /\ Return(c, "USER_NOT_FOUND")
    \/ req[c].op = "Login" /\ i # 0 /\ Continue(c, "token")

(* What Register and Login do with the row that FindByUsername returned;   *)
(* rows never change, so the password test may be taken with it.           *)
AfterFind(c, i) ==
    \/ req[c].op = "Register" /\ i # 0 /\ Return(c, "USER_ALREADY_EXISTS")
    \/ req[c].op = "Register" /\ i = 0 /\ Continue(c, "insert")
    \/ req[c].op = "Login" /\ i = 0 /\ Return(c, "USER_NOT_FOUND")
    \/ /\ req[c].op = "Login" /\ i # 0
       /\ users[i].pw # req[c].pw
       /\ Return(c, "PASSWORD_ERROR")
    \/ /\ req[c].op = "Login" /\ i # 0
       /\ users[i].pw = req[c].pw
       /\ Continue(c, "token")

(* FindByUsername: one attempt answers, or all of them threw, which the    *)
(* callers cannot tell from a name that is not there.                      *)
FindByUsername(c) ==
    /\ pc[c] = "find"
    /\ \/ \E i \in IF RowsOf(req[c].name) = {} THEN {0} ELSE RowsOf(req[c].name) :
             SetLoc(c, "row", i) /\ AfterFind(c, i) /\ UNCHANGED hist
       \/ AfterFind(c, 0) /\ Fault(c) /\ UNCHANGED loc
    /\ UNCHANGED <<stores, served, req>>

NewRow(c) == [name |-> req[c].name, pw |-> req[c].pw]

(* The attempt of UserDao::Insert threw. *)
InsertThrew(c) ==
    \/ Again(c, "insert")
    \/ Exhausted(c) /\ Return(c, "SERVER_INTERNAL_ERROR")

(* Fault: INSERT ... ON DUPLICATE KEY UPDATE, as the friends use it. *)
InsertOrUpdate(c) ==
    /\ pc[c] = "insert"
    /\ \/ \E i \in RowsOf(req[c].name) :
             /\ SetLoc(c, "row", i)
             /\ Return(c, "SUCCESS")
             /\ UNCHANGED <<users, hist>>
       \/ /\ RowsOf(req[c].name) = {}
          /\ users' = Append(users, NewRow(c))
          /\ SetLoc(c, "row", Len(users) + 1)
          /\ Return(c, "SUCCESS")
          /\ UNCHANGED hist
       \/ InsertThrew(c) /\ Fault(c) /\ UNCHANGED users
    /\ UNCHANGED <<friends, redis, clock, served, req>>

(* UserDao::Insert: the row is refused by idx_username, inserted and its   *)
(* id read back, inserted with the answer (or the id) lost, or nothing     *)
(* reaches the server.                                                     *)
Insert(c) ==
    /\ pc[c] = "insert"
    /\ \/ /\ RowsOf(req[c].name) # {}
          /\ InsertThrew(c)
          /\ UNCHANGED <<users, hist>>
       \/ /\ RowsOf(req[c].name) = {}
          /\ users' = Append(users, NewRow(c))
          /\ SetLoc(c, "row", Len(users) + 1)
          /\ Return(c, "SUCCESS")
          /\ UNCHANGED hist
       \/ /\ RowsOf(req[c].name) = {}
          /\ users' = Append(users, NewRow(c))
          /\ InsertThrew(c)
          /\ Fault(c)
       \/ InsertThrew(c) /\ Fault(c) /\ UNCHANGED users
    /\ UNCHANGED <<friends, redis, clock, served, req>>

(* RedisClient: a command is executed and answered; the exception of one   *)
(* that is not answered is caught, executed or not.                        *)
SetKey(u, t) == [redis EXCEPT ![u] = t]
SetDone(u, t) == redis' = SetKey(u, t) /\ UNCHANGED hist
SetFails(c, u, t) == redis' \in {redis, SetKey(u, t)} /\ Fault(c)

(* GenerateAndSaveToken: a number of this millisecond or a later one, set  *)
(* in Redis; a SET that throws may have been executed.                     *)
GenerateAndSaveToken(c) ==
    /\ pc[c] = "token"
    /\ \E t \in {clock, clock + 1} :
          /\ clock' = t
          /\ \/ SetDone(loc[c].row, t) /\ Return(c, "SUCCESS")
             \/ SetFails(c, loc[c].row, t) /\ Return(c, "SERVER_INTERNAL_ERROR")
    /\ UNCHANGED <<users, friends, served, req, loc>>

(* VerifyToken compares the token with itself (the lookup is commented     *)
(* out) and stores it again; what Set returns is ignored.                  *)
VerifyToken(c) ==
    /\ pc[c] = "verify"
    /\ \/ /\ req[c].token = NoToken
          /\ Return(c, "FALSE")
          /\ UNCHANGED <<redis, hist>>
       \/ /\ req[c].token # NoToken
          /\ \/ SetDone(req[c].uid, req[c].token)
             \/ SetFails(c, req[c].uid, req[c].token)
          /\ IF req[c].op = "Logout" THEN Continue(c, "delete") ELSE Return(c, "TRUE")
    /\ UNCHANGED <<users, friends, clock, served, req, loc>>

(* RedisClient::Delete: DEL answers how many keys it removed, or throws,   *)
(* executed or not.                                                        *)
DelDone(u) == SetDone(u, NoToken)
DelFails(c, u) == SetFails(c, u, NoToken)

DeleteToken(c) ==
    LET u == req[c].uid IN
    /\ pc[c] = "delete"
    /\ \/ /\ DelDone(u)
          /\ Return(c, IF redis[u] # NoToken THEN "TRUE" ELSE "FALSE")
       \/ DelFails(c, u) /\ Return(c, "FALSE")
    /\ UNCHANGED <<users, friends, clock, served, req, loc>>

(* Redis drops a key whose seven days are over. *)
Expire(u) ==
    /\ redis[u] # NoToken
    /\ redis' = SetKey(u, NoToken)
    /\ UNCHANGED <<users, friends, clock, served, req, pc, loc, out, hist>>

-----------------------------------------------------------------------------
(* FriendService.                                                          *)

(* Fault: the target is not looked up. *)
FindTargetUnchecked(c) ==
    /\ pc[c] = "target"
    /\ IF req[c].uid = req[c].peer THEN Return(c, "FALSE") ELSE Continue(c, "already")
    /\ UNCHANGED <<stores, served, req, loc, hist>>

(* Nobody adds himself.  FindById(target): a lookup whose attempts all     *)
(* threw is "not found".                                                   *)
FindTarget(c) ==
    LET self == req[c].uid = req[c].peer
        known == FindById(req[c].peer)
    IN
    /\ pc[c] = "target"
    /\ \/ (self \/ ~known) /\ Return(c, "FALSE") /\ UNCHANGED hist
       \/ ~self /\ known /\ Continue(c, "already") /\ UNCHANGED hist
       \/ ~self /\ Return(c, "FALSE") /\ Fault(c)
    /\ UNCHANGED <<stores, served, req, loc>>

(* IsFriend: a lookup whose attempts all threw is "no friend". *)
IsFriend(c) ==
    /\ pc[c] = "already"
    /\ \/ req[c].peer \in FriendsOf(req[c].uid) /\ Return(c, "FALSE") /\ UNCHANGED hist
       \/ req[c].peer \notin FriendsOf(req[c].uid) /\ Continue(c, "add") /\ UNCHANGED hist
       \/ Continue(c, "add") /\ Fault(c)
    /\ UNCHANGED <<stores, served, req, loc>>

(* FriendDao::AddFriend: an upsert, so executing it twice does no harm. *)
AddFriend(c) ==
    /\ pc[c] = "add"
    /\ \/ /\ friends' = friends \union {<<req[c].uid, req[c].peer>>}
          /\ Return(c, "TRUE")
          /\ UNCHANGED <<loc, hist>>
       \/ /\ friends' \in {friends, friends \union {<<req[c].uid, req[c].peer>>}}
          /\ \/ Again(c, "add")
             \/ Exhausted(c) /\ Return(c, "FALSE")
          /\ Fault(c)
    /\ UNCHANGED <<users, redis, clock, served, req>>

(* Fault: pages counted from 0. *)
OffsetFromZero(page) == page * PageSize

Offset(page) == (page - 1) * PageSize

(* What a page query may return: it has no ORDER BY. *)
Pages(u, page) ==
    LET left == Cardinality(FriendsOf(u)) - Offset(page)
    IN  {S \in SUBSET FriendsOf(u) :
           Cardinality(S) = Max({0, Min({PageSize, left})})}

(* An attempt of GetFriendList threw; the catch leaves what was read. *)
ListThrew(c) ==
    \/ Again(c, "count")
    \/ Exhausted(c) /\ Continue(c, "resolve")

CountFriends(c) ==
    /\ pc[c] = "count"
    /\ \/ /\ SetLoc(c, "total", Cardinality(FriendsOf(req[c].uid)))
          /\ Continue(c, "page")
          /\ UNCHANGED hist
       \/ ListThrew(c) /\ Fault(c)
    /\ UNCHANGED <<stores, served, req>>

(* result is declared outside of the lambda: what an attempt read before   *)
(* it threw stays in it.                                                   *)
Extended(c, S) == [i \in Ids |-> loc[c].list[i] + (IF i \in S THEN 1 ELSE 0)]

PageFriends(c) ==
    /\ pc[c] = "page"
    /\ \/ /\ Offset(req[c].page) < 0        \* MySQL rejects the statement
          /\ ListThrew(c)
          /\ UNCHANGED hist
       \/ /\ Offset(req[c].page) >= 0
          /\ \E S \in Pages(req[c].uid, req[c].page) :
               \/ /\ SetLoc(c, "list", Extended(c, S))
                  /\ Continue(c, "resolve")
                  /\ UNCHANGED hist
               \/ \E part \in SUBSET S :
                    LET read == [loc[c] EXCEPT !.list = Extended(c, part)] IN
                    /\ Fault(c)
                    /\ UNCHANGED out
                    /\ \/ /\ loc[c].attempt < MaxRetries
                          /\ loc' = [loc EXCEPT ![c] = [read EXCEPT !.attempt = @ + 1]]
                          /\ Goto(c, "count")
                       \/ /\ loc[c].attempt >= MaxRetries
                          /\ loc' = [loc EXCEPT ![c] = read]
                          /\ Goto(c, "resolve")
    /\ UNCHANGED <<stores, served, req>>

(* FindById of every entry; those it does not find are left out, and any   *)
(* of its lookups may fail.                                                *)
ResolveFriends(c) ==
    LET found == [i \in Ids |-> IF FindById(i) THEN loc[c].list[i] ELSE 0] IN
    /\ pc[c] = "resolve"
    /\ \/ SetLoc(c, "list", found) /\ UNCHANGED hist
       \/ /\ \E l \in [Ids -> 0..(MaxRetries + 1)] \ {found} :
               (\A i \in Ids : l[i] <= found[i]) /\ SetLoc(c, "list", l)
          /\ Fault(c)
    /\ Return(c, "TRUE")
    /\ UNCHANGED <<stores, served, req>>

-----------------------------------------------------------------------------
Step(c) ==
    \/ FindByUsername(c) \/ Insert(c) \/ GenerateAndSaveToken(c)
    \/ VerifyToken(c) \/ DeleteToken(c)
    \/ FindTarget(c) \/ IsFriend(c) \/ AddFriend(c)
    \/ CountFriends(c) \/ PageFriends(c) \/ ResolveFriends(c)

Next ==
    \/ \E c \in Calls : Request(c) \/ Step(c)
    \/ \E u \in Ids : Expire(u)

Spec == Init /\ [][Next]_vars

-----------------------------------------------------------------------------
(* Types of the variables. *)
TypeOK ==
    /\ users \in Seq([name : Names, pw : Passwords]) /\ Len(users) <= Cardinality(Names)
    /\ friends \subseteq Ids \X Ids
    /\ redis \in [Ids -> Tokens]
    /\ clock \in 0..MaxRequests
    /\ served \in 0..MaxRequests
    /\ req \in [Calls -> Requests \union {NoRequest}]
    /\ pc \in [Calls -> {"idle", "find", "insert", "token", "verify", "delete",
                         "target", "already", "add", "count", "page", "resolve"}]
    /\ loc \in [Calls -> [attempt : 0..MaxRetries, row : 0..Cardinality(Names),
                          total : Nat, list : [Ids -> 0..(MaxRetries + 1)]]]
    /\ out \in [Calls -> {"none", "SUCCESS", "TRUE", "FALSE", "USER_ALREADY_EXISTS",
                          "USER_NOT_FOUND", "PASSWORD_ERROR", "SERVER_INTERNAL_ERROR"}]
    /\ hist \in [Calls -> [fault : BOOLEAN, seen : 0..Cardinality(Names)]]

Returned(c, op) == req[c].op = op /\ pc[c] = "idle"

(* Register: a name has one account, and the id a client is given is that  *)
(* of a row with its name and password that was not there before and that  *)
(* no other client was given, although Register tests for the name in one  *)
(* statement and inserts it in another.                                    *)
RegistrationOwn ==
    /\ \A i, j \in DOMAIN users : users[i].name = users[j].name => i = j
    /\ \A c \in Calls : Returned(c, "Register") /\ out[c] = "SUCCESS" =>
          /\ loc[c].row \in DOMAIN users
          /\ users[loc[c].row] = NewRow(c)
          /\ loc[c].row > hist[c].seen
          /\ \A d \in Calls \ {c} :
                Returned(d, "Register") /\ out[d] = "SUCCESS" => loc[d].row # loc[c].row

(* Register and Login: each verdict has its reason.  Without a failing     *)
(* statement an internal error means that another registration of the      *)
(* name came in between, and an account that was there when Login began    *)
(* is found.                                                               *)
VerdictsRight ==
    \A c \in Calls :
        /\ Returned(c, "Register") /\ out[c] = "USER_ALREADY_EXISTS" =>
              RowsOf(req[c].name) # {}
        /\ Returned(c, "Register") /\ out[c] = "SERVER_INTERNAL_ERROR" =>
              hist[c].fault \/ \E i \in RowsOf(req[c].name) : i > hist[c].seen
        /\ Returned(c, "Login") /\ out[c] = "USER_NOT_FOUND" =>
              hist[c].fault \/ \A i \in RowsOf(req[c].name) : i > hist[c].seen
        /\ Returned(c, "Login") /\ out[c] \in {"SUCCESS", "PASSWORD_ERROR"} =>
              \E i \in RowsOf(req[c].name) :
                 out[c] = "SUCCESS" <=> users[i].pw = req[c].pw

(* Login stored a token for the row with its name and password. *)
SignedIn(c, u) ==
    /\ req[c].op = "Login"
    /\ u \in RowsOf(req[c].name) /\ users[u].pw = req[c].pw
    /\ redis'[u] = clock'

(* A call that presented a token for u stored it again or, if it is a      *)
(* Logout, took it away.                                                   *)
Presented(c, u) ==
    /\ req[c].op \in {"Logout", "VerifyToken"}
    /\ req[c].uid = u /\ req[c].token # NoToken
    /\ redis'[u] = req[c].token \/ (redis'[u] = NoToken /\ req[c].op = "Logout")

(* The session of a user is opened, replaced and ended by nobody else: it  *)
(* changes when its key expires or by a step of a Login that found the     *)
(* user's password right a statement earlier, or of a call that presented  *)
(* a token for this user, whichever calls run beside.                      *)
SessionsAuthorised ==
    [][\A u \in Ids : redis'[u] # redis[u] =>
          \/ redis'[u] = NoToken /\ UNCHANGED pc
          \/ \E c \in Calls : pc'[c] # pc[c] /\ (SignedIn(c, u) \/ Presented(c, u))]_vars

(* AddFriend: every entry names an existing other user, a TRUE is in the   *)
(* table, and a FALSE without a failing statement was due.                 *)
FriendsRecorded ==
    /\ \A p \in friends : p[1] # p[2] /\ p[2] \in DOMAIN users
    /\ \A c \in Calls : Returned(c, "AddFriend") =>
          LET p == <<req[c].uid, req[c].peer>> IN
          /\ out[c] = "TRUE" => p \in friends
          /\ out[c] = "FALSE" =>
                \/ p[1] = p[2] \/ p \in friends
                \/ p[2] > hist[c].seen \/ hist[c].fault

(* GetFriendList: only friends are listed, whatever failed; without a      *)
(* failing statement none is listed twice, and the page is as full as the  *)
(* total of the same answer says.                                          *)
PageExact ==
    \A c \in Calls : Returned(c, "GetFriendList") =>
        LET listed == {i \in Ids : loc[c].list[i] > 0} IN
        /\ listed \subseteq FriendsOf(req[c].uid) \intersect DOMAIN users
        /\ ~hist[c].fault /\ req[c].page > 0 =>
              /\ \A i \in Ids : loc[c].list[i] <= 1
              /\ Cardinality(listed) <= PageSize
              /\ Cardinality(listed) >=
                    Min({PageSize, loc[c].total - (req[c].page - 1) * PageSize})

=============================================================================

------------------------- MODULE UserServiceProofs --------------------------
(***************************************************************************)
(* The safety invariants of UserService, for any number of threads, names, *)
(* passwords, retries and requests, and any page size.                     *)
(***************************************************************************)
EXTENDS UserService, FiniteSetTheorems, TLAPS

Rows == [name : Names, pw : Passwords]
Steps == {"idle", "find", "insert", "token", "verify", "delete",
          "target", "already", "add", "count", "page", "resolve"}
Verdicts == {"none", "SUCCESS", "TRUE", "FALSE", "USER_ALREADY_EXISTS",
             "USER_NOT_FOUND", "PASSWORD_ERROR", "SERVER_INTERNAL_ERROR"}
Locals == [attempt : 0..MaxRetries, row : Nat, total : Nat, list : [Ids -> Nat]]
Histories == [fault : BOOLEAN, seen : Nat]

(* The types, without the bounds of TypeOK. *)
Typed ==
    /\ users \in Seq(Rows)
    /\ friends \subseteq Ids \X Ids
    /\ redis \in [Ids -> Int]
    /\ clock \in Nat
    /\ served \in Nat
    /\ req \in [Calls -> Requests \union {NoRequest}]
    /\ pc \in [Calls -> Steps]
    /\ loc \in [Calls -> Locals]
    /\ out \in [Calls -> Verdicts]
    /\ hist \in [Calls -> Histories]

(* The key idx_username. *)
UniqueNames == \A i, j \in DOMAIN users : users[i].name = users[j].name => i = j

(* Entries of user_friends name other users, who exist. *)
FriendsExist == \A p \in friends : p[1] # p[2] /\ p[2] \in DOMAIN users

(* Each statement belongs to its request. *)
KindOK(c) ==
    /\ pc[c] = "find" => req[c].op \in {"Register", "Login"}
    /\ pc[c] = "insert" => req[c].op = "Register"
    /\ pc[c] = "token" => req[c].op = "Login"
    /\ pc[c] = "verify" => req[c].op \in {"Logout", "VerifyToken"}
    /\ pc[c] = "delete" => req[c].op = "Logout"
    /\ pc[c] \in {"target", "already", "add"} => req[c].op = "AddFriend"
    /\ pc[c] \in {"count", "page", "resolve"} => req[c].op = "GetFriendList"
    /\ hist[c].seen <= Len(users)

(* The rows of the name of c came in after its request began. *)
AllLater(c) == \A i \in RowsOf(req[c].name) : i > hist[c].seen

(* Register gave its client an account. *)
Registered(c) == Returned(c, "Register") /\ out[c] = "SUCCESS"

(* What c knows of its name when it inserts, and what it returned. *)
RegisterOK(c) ==
    /\ pc[c] = "insert" => hist[c].fault \/ AllLater(c)
    /\ Registered(c) =>
          /\ loc[c].row \in DOMAIN users
          /\ users[loc[c].row] = NewRow(c)
          /\ loc[c].row > hist[c].seen
    /\ Returned(c, "Register") /\ out[c] = "USER_ALREADY_EXISTS" =>
          RowsOf(req[c].name) # {}
    /\ Returned(c, "Register") /\ out[c] = "SERVER_INTERNAL_ERROR" =>
          hist[c].fault \/ \E i \in RowsOf(req[c].name) : i > hist[c].seen

LoginOK(c) ==
    /\ pc[c] = "token" =>
          loc[c].row \in RowsOf(req[c].name) /\ users[loc[c].row].pw = req[c].pw
    /\ Returned(c, "Login") /\ out[c] = "USER_NOT_FOUND" => hist[c].fault \/ AllLater(c)
    /\ Returned(c, "Login") /\ out[c] \in {"SUCCESS", "PASSWORD_ERROR"} =>
          \E i \in RowsOf(req[c].name) :
             out[c] = "SUCCESS" <=> users[i].pw = req[c].pw

(* A Logout deletes only after it was given a token. *)
LogoutOK(c) == pc[c] = "delete" => req[c].token # NoToken

FriendOK(c) ==
    /\ pc[c] \in {"already", "add"} =>
          req[c].uid # req[c].peer /\ req[c].peer \in DOMAIN users
    /\ Returned(c, "AddFriend") /\ out[c] = "TRUE" =>
          <<req[c].uid, req[c].peer>> \in friends
    /\ Returned(c, "AddFriend") /\ out[c] = "FALSE" =>
          \/ req[c].uid = req[c].peer \/ <<req[c].uid, req[c].peer>> \in friends
          \/ req[c].peer > hist[c].seen \/ hist[c].fault

Listed(c) == {i \in Ids : loc[c].list[i] > 0}
Due(c) == Min({PageSize, loc[c].total - Offset(req[c].page)})
Undisturbed(c) == ~hist[c].fault /\ req[c].page > 0

(* The list of c holds friends only.  Without a fault it is empty until    *)
(* the page was read, and then as long as the total demands.               *)
ListOK(c) ==
    /\ pc[c] \in {"count", "page", "resolve"} \/ Returned(c, "GetFriendList") =>
          Listed(c) \subseteq FriendsOf(req[c].uid)
    /\ pc[c] \in {"count", "page"} /\ Undisturbed(c) => \A i \in Ids : loc[c].list[i] = 0
    /\ pc[c] = "page" => loc[c].total <= Cardinality(FriendsOf(req[c].uid))
    /\ (pc[c] = "resolve" \/ Returned(c, "GetFriendList")) /\ Undisturbed(c) =>
          /\ \A i \in Ids : loc[c].list[i] <= 1
          /\ Cardinality(Listed(c)) <= PageSize
          /\ Cardinality(Listed(c)) >= Due(c)

CallOK(c) ==
    KindOK(c) /\ RegisterOK(c) /\ LoginOK(c) /\ LogoutOK(c) /\ FriendOK(c) /\ ListOK(c)

(* No two clients were given the same account. *)
IdsDistinct ==
    \A c, d \in Calls : Registered(c) /\ Registered(d) /\ c # d =>
        loc[c].row # loc[d].row

(* The inductive invariant. *)
UserInv ==
    /\ Typed /\ UniqueNames /\ FriendsExist /\ IdsDistinct
    /\ \A c \in Calls : CallOK(c)

-----------------------------------------------------------------------------
(* Requests, locals and pages.                                             *)

LEMMA RequestFields ==
    ASSUME NEW r \in Requests
    PROVE  /\ r.op \in {"Register", "Login"} => r.name \in Names /\ r.pw \in Passwords
           /\ r.op \in {"Logout", "VerifyToken"} => r.uid \in Ids /\ r.token \in Tokens
           /\ r.op = "AddFriend" => r.uid \in Ids /\ r.peer \in Ids
           /\ r.op = "GetFriendList" => r.uid \in Ids /\ r.page \in 0..MaxPage
           /\ r.op \in {"Register", "Login", "Logout", "VerifyToken", "AddFriend",
                        "GetFriendList"}
BY DEF Requests

(* A call at a statement has a request. *)
LEMMA HasRequest ==
    ASSUME Typed, NEW c \in Calls, req[c].op # "none"
    PROVE  req[c] \in Requests
BY DEF Typed, NoRequest

LEMMA IdsFacts ==
    /\ Cardinality(Names) \in Nat /\ Ids \subseteq Nat \ {0} /\ IsFiniteSet(Ids)
<1>1. Cardinality(Names) \in Nat
  BY UserServiceAssumption, FS_CardinalityType
<1>2. IsFiniteSet(1..Cardinality(Names))
  BY <1>1, FS_Interval
<1> QED
  BY <1>1, <1>2 DEF Ids

LEMMA UsersFacts ==
    ASSUME Typed
    PROVE  /\ Len(users) \in Nat /\ DOMAIN users = 1..Len(users)
           /\ \A i \in DOMAIN users : users[i] \in Rows
BY DEF Typed

(* The friends of a user are finitely many. *)
LEMMA FriendsFinite ==
    ASSUME NEW S \in SUBSET Ids
    PROVE  IsFiniteSet(S) /\ Cardinality(S) \in Nat
BY IdsFacts, FS_Subset, FS_CardinalityType

(* The smaller and the larger of two numbers. *)
LEMMA MinMax ==
    ASSUME NEW a \in Int, NEW b \in Int
    PROVE  /\ Min({a, b}) = IF a <= b THEN a ELSE b
           /\ Max({a, b}) = IF a <= b THEN b ELSE a
<1>1. \E x \in {a, b} : \A y \in {a, b} : x =< y
  OBVIOUS
<1>2. Min({a, b}) \in {a, b} /\ \A y \in {a, b} : Min({a, b}) =< y
  BY <1>1 DEF Min
<1>3. \E x \in {a, b} : \A y \in {a, b} : x >= y
  OBVIOUS
<1>4. Max({a, b}) \in {a, b} /\ \A y \in {a, b} : Max({a, b}) >= y
  BY <1>3 DEF Max
<1> QED
  BY <1>2, <1>4

LEMMA OffsetInt ==
    ASSUME NEW p \in Nat
    PROVE  Offset(p) \in Int /\ (p > 0 => Offset(p) >= 0)
<1>1. PageSize \in Nat
  BY UserServiceAssumption
<1>2. p > 0 => p - 1 \in Nat
  OBVIOUS
<1>3. p > 0 => (p - 1) * PageSize \in Nat
  BY <1>1, <1>2
<1> QED
  BY <1>1, <1>3 DEF Offset

-----------------------------------------------------------------------------
(* What the shared steps do.                                               *)

OthersPc(c) == \A d \in Calls : d # c => pc'[d] = pc[d] /\ out'[d] = out[d]
OthersLoc(c) == \A d \in Calls : d # c => loc'[d] = loc[d]

LEMMA ReturnEffect ==
    ASSUME Typed, NEW c \in Calls, NEW r \in Verdicts, Return(c, r)
    PROVE  /\ pc' \in [Calls -> Steps] /\ out' \in [Calls -> Verdicts] /\ OthersPc(c)
           /\ pc'[c] = "idle" /\ out'[c] = r
BY DEF Typed, Return, Goto, OthersPc, Steps

LEMMA ContinueEffect ==
    ASSUME Typed, NEW c \in Calls, NEW step \in Steps, Continue(c, step)
    PROVE  /\ pc' \in [Calls -> Steps] /\ out' \in [Calls -> Verdicts] /\ OthersPc(c)
           /\ pc'[c] = step
BY DEF Typed, Continue, Goto, OthersPc

LEMMA RowEffect ==
    ASSUME Typed, NEW c \in Calls, NEW i \in Nat, SetLoc(c, "row", i)
    PROVE  loc' \in [Calls -> Locals] /\ OthersLoc(c) /\ loc'[c].row = i
BY DEF Typed, SetLoc, OthersLoc, Locals

LEMMA TotalEffect ==
    ASSUME Typed, NEW c \in Calls, NEW n \in Nat, SetLoc(c, "total", n)
    PROVE  /\ loc' \in [Calls -> Locals] /\ OthersLoc(c)
           /\ loc'[c].total = n /\ loc'[c].list = loc[c].list
BY DEF Typed, SetLoc, OthersLoc, Locals

LEMMA ListEffect ==
    ASSUME Typed, NEW c \in Calls, NEW l \in [Ids -> Nat], SetLoc(c, "list", l)
    PROVE  /\ loc' \in [Calls -> Locals] /\ OthersLoc(c)
           /\ loc'[c].total = loc[c].total /\ loc'[c].list = l
BY DEF Typed, SetLoc, OthersLoc, Locals

(* An attempt that threw is made again, or was the last one. *)
LEMMA AgainEffect ==
    ASSUME Typed, NEW c \in Calls, NEW step \in Steps, Again(c, step)
    PROVE  /\ loc' \in [Calls -> Locals] /\ OthersLoc(c)
           /\ loc'[c].total = loc[c].total /\ loc'[c].list = loc[c].list
           /\ pc' \in [Calls -> Steps] /\ out' \in [Calls -> Verdicts] /\ OthersPc(c)
           /\ pc'[c] = step
<1>1. loc[c].attempt + 1 \in 0..MaxRetries
  BY UserServiceAssumption DEF Typed, Locals, Again
<1>2. SetLoc(c, "attempt", loc[c].attempt + 1) /\ Continue(c, step)
  BY DEF Again
<1>3. /\ loc' \in [Calls -> Locals] /\ OthersLoc(c)
      /\ loc'[c].total = loc[c].total /\ loc'[c].list = loc[c].list
  BY <1>1, <1>2 DEF Typed, SetLoc, OthersLoc, Locals
<1> QED
  BY <1>2, <1>3, ContinueEffect

OthersHist(c) == \A d \in Calls : d # c => hist'[d] = hist[d]

LEMMA FaultEffect ==
    ASSUME Typed, NEW c \in Calls, Fault(c)
    PROVE  /\ hist' \in [Calls -> Histories] /\ OthersHist(c)
           /\ hist'[c].fault /\ hist'[c].seen = hist[c].seen
BY DEF Typed, Fault, OthersHist, Histories

-----------------------------------------------------------------------------
(* The calls that do not move.                                             *)

(* The tables lose nothing, and rows keep their places. *)
TablesGrow ==
    /\ Len(users) <= Len(users')
    /\ \A i \in DOMAIN users : i \in DOMAIN users' /\ users'[i] = users[i]
    /\ \A i \in DOMAIN users' : i \in DOMAIN users \/ i > Len(users)
    /\ friends \subseteq friends'

Stays(d) ==
    /\ pc'[d] = pc[d] /\ req'[d] = req[d] /\ loc'[d] = loc[d] /\ out'[d] = out[d]
    /\ hist'[d].fault = hist[d].fault /\ hist'[d].seen = hist[d].seen

LEMMA RowsLater ==
    ASSUME Typed, Typed', TablesGrow, NEW n
    PROVE  /\ RowsOf(n) \subseteq RowsOf(n)'
           /\ \A i \in RowsOf(n)' : i \in RowsOf(n) \/ i > Len(users)
BY DEF TablesGrow, RowsOf

LEMMA FriendsLater ==
    ASSUME Typed, Typed', TablesGrow, NEW u
    PROVE  /\ FriendsOf(u) \subseteq FriendsOf(u)'
           /\ Cardinality(FriendsOf(u)) <= Cardinality(FriendsOf(u)')
           /\ Cardinality(FriendsOf(u)) \in Nat /\ Cardinality(FriendsOf(u)') \in Nat
<1>1. FriendsOf(u) \subseteq FriendsOf(u)' /\ FriendsOf(u)' \subseteq Ids
  BY DEF FriendsOf, TablesGrow
<1>2. IsFiniteSet(FriendsOf(u)')
  BY <1>1, FriendsFinite
<1> QED
  BY <1>1, <1>2, FriendsFinite, FS_Subset

(* What holds of a call that does not move goes on holding. *)
LEMMA StaysOK ==
    ASSUME Typed, Typed', TablesGrow, NEW d \in Calls, Stays(d), CallOK(d)
    PROVE  CallOK(d)'
<1> USE UsersFacts
<1>1. KindOK(d)'
  BY DEF CallOK, KindOK, Stays, TablesGrow, Typed, Histories
<1>2. /\ RowsOf(req[d].name) \subseteq RowsOf(req[d].name)'
      /\ hist[d].fault \/ AllLater(d) => (hist[d].fault \/ AllLater(d))'
      /\ \A i \in RowsOf(req[d].name) : users'[i] = users[i]
  <2>1. /\ RowsOf(req[d].name) \subseteq RowsOf(req[d].name)'
        /\ \A i \in RowsOf(req[d].name)' : i \in RowsOf(req[d].name) \/ i > Len(users)
    BY DEF TablesGrow, RowsOf, Stays
  <2>2. hist[d].seen <= Len(users) /\ hist[d].seen \in Nat
    BY DEF CallOK, KindOK, Typed, Histories
  <2>3. \A i \in RowsOf(req[d].name)' : i \in Nat
    BY DEF RowsOf, Typed
  <2> QED
    BY <2>1, <2>2, <2>3 DEF AllLater, Stays, RowsOf, TablesGrow
<1>3. RegisterOK(d)'
  BY <1>2 DEF CallOK, RegisterOK, Registered, Returned, NewRow, Stays, TablesGrow
<1>4. LoginOK(d)'
  BY <1>2 DEF CallOK, LoginOK, Returned, Stays, RowsOf
<1>5. LogoutOK(d)'
  BY DEF CallOK, LogoutOK, Stays
<1>6. FriendOK(d)'
  BY DEF CallOK, FriendOK, Returned, Stays, TablesGrow
<1>7. ListOK(d)'
  <2>1. /\ FriendsOf(req[d].uid) \subseteq FriendsOf(req[d].uid)'
        /\ Cardinality(FriendsOf(req[d].uid)) <= Cardinality(FriendsOf(req[d].uid)')
        /\ Cardinality(FriendsOf(req[d].uid)) \in Nat
        /\ Cardinality(FriendsOf(req[d].uid)') \in Nat
    BY FriendsLater DEF Stays, FriendsOf
  <2>2. Listed(d)' = Listed(d) /\ Due(d)' = Due(d) /\ (Undisturbed(d)' <=> Undisturbed(d))
    BY DEF Listed, Due, Undisturbed, Stays
  <2>3. loc[d].total \in Nat
    BY DEF Typed, Locals
  <2> QED
    BY <2>1, <2>2, <2>3 DEF CallOK, ListOK, Returned, Stays
<1> QED
  BY <1>1, <1>3, <1>4, <1>5, <1>6, <1>7 DEF CallOK

(* A request makes only its own part of CallOK say anything. *)
LEMMA OwnPart ==
    ASSUME NEW c \in Calls, KindOK(c)'
    PROVE  /\ req'[c].op # "Register" => RegisterOK(c)'
           /\ req'[c].op # "Login" => LoginOK(c)'
           /\ req'[c].op # "Logout" => LogoutOK(c)'
           /\ req'[c].op # "AddFriend" => FriendOK(c)'
           /\ req'[c].op # "GetFriendList" => ListOK(c)'
BY DEF KindOK, RegisterOK, Registered, LoginOK, LogoutOK, FriendOK, ListOK, Returned

(* The other calls stay where they are. *)
LEMMA OthersStay ==
    ASSUME NEW c \in Calls, OthersPc(c), OthersLoc(c), OthersHist(c),
           \A d \in Calls : d # c => req'[d] = req[d]
    PROVE  \A d \in Calls : d # c => Stays(d)
BY DEF OthersPc, OthersLoc, OthersHist, Stays

(* A step of one call, which may add a row or an entry. *)
LEMMA CallStep ==
    ASSUME UserInv, Typed', TablesGrow, UniqueNames', FriendsExist', NEW c \in Calls,
           \A d \in Calls : d # c => Stays(d),
           CallOK(c)',
           Registered(c)' => \A d \in Calls : d # c /\ Registered(d) => loc'[c].row # loc[d].row
    PROVE  UserInv'
<1>1. \A d \in Calls : CallOK(d)'
  BY StaysOK DEF UserInv
<1>2. \A d \in Calls : d # c => (Registered(d)' <=> Registered(d)) /\ loc'[d] = loc[d]
  BY DEF Registered, Returned, Stays
<1>3. IdsDistinct'
  BY <1>2 DEF UserInv, IdsDistinct
<1> QED
  BY <1>1, <1>3 DEF UserInv

(* A step of one call that changes no table. *)
LEMMA QuietStep ==
    ASSUME UserInv, Typed', NEW c \in Calls, users' = users, friends' = friends,
           \A d \in Calls : d # c => Stays(d), CallOK(c)', ~Registered(c)'
    PROVE  UserInv'
<1>1. TablesGrow
  BY UsersFacts DEF TablesGrow, UserInv
<1>2. UniqueNames' /\ FriendsExist'
  BY DEF UserInv, UniqueNames, FriendsExist
<1> QED
  BY <1>1, <1>2, CallStep

-----------------------------------------------------------------------------
(* The invariant holds at first and is kept.                               *)

LEMMA InitInv == Init => UserInv
<1> SUFFICES ASSUME Init PROVE UserInv
  OBVIOUS
<1> USE IdsFacts
<1>1. PICK n \in 0..Cardinality(Names) :
          users \in {s \in [1..n -> Rows] : \A i, j \in 1..n : s[i].name = s[j].name => i = j}
  BY DEF Init, Rows
<1>2. users \in Seq(Rows) /\ DOMAIN users = 1..n /\ Len(users) = n /\ n \in Nat
  BY <1>1
<1>3. friends \subseteq Ids \X Ids
  BY <1>2 DEF Init, Ids
<1>4. redis \in [Ids -> Int]
  BY DEF Init, NoToken
<1>5. FreshLoc \in Locals
  BY UserServiceAssumption DEF FreshLoc, Locals
<1>6. Typed
  BY <1>2, <1>3, <1>4, <1>5 DEF Init, Typed, Steps, Verdicts, Histories
<1>7. UniqueNames
  BY <1>1, <1>2 DEF UniqueNames
<1>8. FriendsExist
  BY DEF Init, FriendsExist
<1>9. IdsDistinct /\ \A c \in Calls : CallOK(c)
  BY <1>2 DEF Init, NoRequest, IdsDistinct, Registered, Returned, CallOK, KindOK,
     RegisterOK, LoginOK, LogoutOK, FriendOK, ListOK
<1> QED
  BY <1>6, <1>7, <1>8, <1>9 DEF UserInv

LEMMA RequestStep ==
    ASSUME UserInv, NEW c \in Calls, Request(c)
    PROVE  UserInv'
<1> USE IdsFacts
<1>1. Typed /\ Len(users) \in Nat
  BY UsersFacts DEF UserInv
<1>2. PICK r \in Requests :
          req' = [req EXCEPT ![c] = r] /\ pc' = [pc EXCEPT ![c] = FirstStep[r.op]]
  BY DEF Request
<1>3. /\ FirstStep[r.op] \in Steps
      /\ FirstStep[r.op] = "find" => r.op \in {"Register", "Login"}
      /\ FirstStep[r.op] = "verify" => r.op \in {"Logout", "VerifyToken"}
      /\ FirstStep[r.op] = "target" => r.op = "AddFriend"
      /\ FirstStep[r.op] = "count" => r.op = "GetFriendList"
      /\ FirstStep[r.op] \in {"find", "verify", "target", "count"}
  BY RequestFields DEF FirstStep, Steps
<1>4. FreshLoc \in Locals /\ FreshLoc.list = [i \in Ids |-> 0]
  BY UserServiceAssumption DEF FreshLoc, Locals
<1>5. Typed'
  <2>1. req' \in [Calls -> Requests \union {NoRequest}] /\ pc' \in [Calls -> Steps]
    BY <1>1, <1>2, <1>3 DEF Typed
  <2>2. loc' \in [Calls -> Locals] /\ out' \in [Calls -> Verdicts]
    BY <1>1, <1>4 DEF Typed, Request, Verdicts
  <2>3. hist' \in [Calls -> Histories] /\ served' \in Nat
    BY <1>1 DEF Typed, Request, Histories
  <2> QED
    BY <1>1, <2>1, <2>2, <2>3 DEF Typed, Request, stores
<1>6. req'[c] = r /\ pc'[c] = FirstStep[r.op] /\ loc'[c] = FreshLoc /\ hist'[c].seen = Len(users)
  BY <1>1, <1>2 DEF Request, Typed
<1>7. \A d \in Calls : d # c => Stays(d)
  <2>1. OthersPc(c) /\ OthersLoc(c) /\ OthersHist(c)
    BY <1>1, <1>2 DEF Request, Typed, OthersPc, OthersLoc, OthersHist, stores
  <2> QED
    BY <1>1, <1>2, <2>1, OthersStay DEF Typed
<1>8. CallOK(c)'
  <2>1. KindOK(c)'
    BY <1>1, <1>3, <1>6 DEF KindOK, Request, stores
  <2>2. \A i \in Ids : loc'[c].list[i] = 0
    BY <1>4, <1>6
  <2>3. Listed(c)' = {}
    BY <2>2 DEF Listed
  <2> QED
    BY <1>3, <1>6, <2>1, <2>2, <2>3 DEF CallOK, RegisterOK, Registered, LoginOK, LogoutOK,
       FriendOK, ListOK, Returned
<1>9. ~Registered(c)'
  BY <1>3, <1>6 DEF Registered, Returned
<1> QED
  BY <1>5, <1>7, <1>8, <1>9, QuietStep DEF Request, stores

(* The steps that change no more than the locals and the verdict of c. *)
LEMMA LocalStep ==
    ASSUME UserInv, NEW c \in Calls, UNCHANGED <<stores, served, req>>,
           pc' \in [Calls -> Steps], out' \in [Calls -> Verdicts],
           loc' \in [Calls -> Locals], hist' \in [Calls -> Histories],
           OthersPc(c), OthersLoc(c), OthersHist(c), CallOK(c)', ~Registered(c)'
    PROVE  UserInv'
<1>1. Typed'
  BY DEF UserInv, Typed, stores
<1>2. \A d \in Calls : d # c => Stays(d)
  BY OthersStay
<1> QED
  BY <1>1, <1>2, QuietStep DEF stores

(* Types and histories of a step without a fault. *)
LEMMA NoFault ==
    ASSUME Typed, NEW c \in Calls, UNCHANGED hist
    PROVE  hist' \in [Calls -> Histories] /\ OthersHist(c) /\ hist'[c] = hist[c]
BY DEF Typed, OthersHist

LEMMA SameLoc ==
    ASSUME Typed, NEW c \in Calls, UNCHANGED loc
    PROVE  loc' \in [Calls -> Locals] /\ OthersLoc(c) /\ loc'[c] = loc[c]
BY DEF Typed, OthersLoc

LEMMA FindStep ==
    ASSUME UserInv, NEW c \in Calls, FindByUsername(c)
    PROVE  UserInv'
<1> USE UsersFacts, IdsFacts
<1>1. Typed /\ CallOK(c) /\ req[c].op \in {"Register", "Login"}
  BY DEF UserInv, CallOK, KindOK, FindByUsername
<1>2. req[c].name \in Names /\ req' = req /\ users' = users
  BY <1>1, HasRequest, RequestFields DEF FindByUsername, stores
<1>3. RowsOf(req[c].name)' = RowsOf(req[c].name) /\ RowsOf(req[c].name) \subseteq DOMAIN users
  BY <1>2 DEF RowsOf
<1>4. PICK i \in Nat :
         /\ AfterFind(c, i)
         /\ \/ /\ i \in RowsOf(req[c].name) \/ (i = 0 /\ RowsOf(req[c].name) = {})
               /\ SetLoc(c, "row", i) /\ UNCHANGED hist
            \/ i = 0 /\ Fault(c) /\ UNCHANGED loc
  <2>1. CASE AfterFind(c, 0) /\ Fault(c) /\ UNCHANGED loc
    BY <2>1
  <2>2. CASE \E i \in IF RowsOf(req[c].name) = {} THEN {0} ELSE RowsOf(req[c].name) :
                SetLoc(c, "row", i) /\ AfterFind(c, i) /\ UNCHANGED hist
    BY <1>1, <1>3, <2>2
  <2> QED
    BY <2>1, <2>2 DEF FindByUsername
<1>5. /\ loc' \in [Calls -> Locals] /\ OthersLoc(c)
      /\ hist' \in [Calls -> Histories] /\ OthersHist(c) /\ hist'[c].seen = hist[c].seen
      /\ \/ hist'[c].fault /\ i = 0
         \/ /\ i \in RowsOf(req[c].name) \/ (i = 0 /\ RowsOf(req[c].name) = {})
            /\ loc'[c].row = i
  BY <1>1, <1>4, RowEffect, FaultEffect, NoFault, SameLoc
<1>6. /\ pc' \in [Calls -> Steps] /\ out' \in [Calls -> Verdicts] /\ OthersPc(c)
      /\ \/ /\ req[c].op = "Register" /\ i # 0
            /\ pc'[c] = "idle" /\ out'[c] = "USER_ALREADY_EXISTS"
         \/ req[c].op = "Register" /\ i = 0 /\ pc'[c] = "insert"
         \/ /\ req[c].op = "Login" /\ i = 0
            /\ pc'[c] = "idle" /\ out'[c] = "USER_NOT_FOUND"
         \/ /\ req[c].op = "Login" /\ i # 0 /\ users[i].pw # req[c].pw
            /\ pc'[c] = "idle" /\ out'[c] = "PASSWORD_ERROR"
         \/ /\ req[c].op = "Login" /\ i # 0 /\ users[i].pw = req[c].pw
            /\ pc'[c] = "token"
  BY <1>1, <1>4, ReturnEffect, ContinueEffect DEF AfterFind, Verdicts, Steps
<1>7. KindOK(c)'
  BY <1>1, <1>2, <1>5, <1>6 DEF CallOK, KindOK
<1>8. ~Registered(c)'
  BY <1>2, <1>6 DEF Registered, Returned
<1>9. RegisterOK(c)'
  BY <1>1, <1>2, <1>3, <1>5, <1>6, <1>8 DEF RegisterOK, AllLater, Returned
<1>10. LoginOK(c)'
  BY <1>1, <1>2, <1>3, <1>5, <1>6 DEF LoginOK, AllLater, Returned
<1>11. CallOK(c)'
  BY <1>1, <1>2, <1>7, <1>9, <1>10, OwnPart DEF CallOK
<1> QED
  BY <1>5, <1>6, <1>8, <1>11, LocalStep DEF FindByUsername

(* An attempt to insert that threw. *)
LEMMA InsertThrewEffect ==
    ASSUME Typed, NEW c \in Calls, InsertThrew(c)
    PROVE  /\ loc' \in [Calls -> Locals] /\ OthersLoc(c)
           /\ pc' \in [Calls -> Steps] /\ out' \in [Calls -> Verdicts] /\ OthersPc(c)
           /\ pc'[c] = "insert" \/ (pc'[c] = "idle" /\ out'[c] = "SERVER_INTERNAL_ERROR")
BY AgainEffect, ReturnEffect, SameLoc DEF InsertThrew, Exhausted, Steps, Verdicts

(* A row for a name that has none. *)
LEMMA AppendEffect ==
    ASSUME Typed, UniqueNames, NEW row \in Rows, RowsOf(row.name) = {},
           users' = Append(users, row)
    PROVE  /\ users' \in Seq(Rows) /\ Len(users') = Len(users) + 1
           /\ users'[Len(users) + 1] = row /\ Len(users) + 1 \in DOMAIN users'
           /\ TablesGrow \/ ~(friends \subseteq friends')
           /\ UniqueNames'
<1> USE UsersFacts
<1>1. users \in Seq(Rows)
  BY DEF Typed
<1>2. users' \in Seq(Rows) /\ Len(users') = Len(users) + 1
  BY <1>1
<1>3. DOMAIN users' = 1..(Len(users) + 1)
  BY <1>2
<1>4. users'[Len(users) + 1] = row
  BY <1>1
<1>5. \A i \in DOMAIN users : users'[i] = users[i]
  BY <1>1
<1>6. TablesGrow \/ ~(friends \subseteq friends')
  BY <1>2, <1>3, <1>5 DEF TablesGrow
<1>7. UniqueNames'
  <2> SUFFICES ASSUME NEW i \in DOMAIN users', NEW j \in DOMAIN users',
                      users'[i].name = users'[j].name
               PROVE  i = j
    BY DEF UniqueNames
  <2>1. \A k \in DOMAIN users : users'[k].name # row.name
    BY <1>5 DEF RowsOf
  <2>2. \A k \in DOMAIN users' : k \in DOMAIN users \/ k = Len(users) + 1
    BY <1>3
  <2> QED
    BY <1>4, <1>5, <2>1, <2>2 DEF UniqueNames
<1> QED
  BY <1>2, <1>3, <1>4, <1>6, <1>7

LEMMA InsertStep ==
    ASSUME UserInv, NEW c \in Calls, Insert(c)
    PROVE  UserInv'
<1> USE UsersFacts, IdsFacts
<1>1. Typed /\ CallOK(c) /\ req[c].op = "Register" /\ UniqueNames
  BY DEF UserInv, CallOK, KindOK, Insert
<1>2. req' = req /\ friends' = friends /\ redis' = redis /\ clock' = clock /\ served' = served
  BY DEF Insert
<1>3. NewRow(c) \in Rows /\ NewRow(c).name = req[c].name
  BY <1>1, HasRequest, RequestFields DEF NewRow, Rows
<1>4. hist[c].seen \in Nat /\ hist[c].seen <= Len(users) /\ (hist[c].fault \/ AllLater(c))
  BY <1>1 DEF CallOK, KindOK, RegisterOK, Typed, Histories, Insert
<1>5. /\ pc' \in [Calls -> Steps] /\ out' \in [Calls -> Verdicts] /\ OthersPc(c)
      /\ loc' \in [Calls -> Locals] /\ OthersLoc(c)
      /\ hist' \in [Calls -> Histories] /\ OthersHist(c) /\ hist'[c].seen = hist[c].seen
      /\ \/ /\ users' = users
            /\ hist'[c].fault \/ (RowsOf(req[c].name) # {} /\ hist'[c] = hist[c])
            /\ pc'[c] = "insert" \/ (pc'[c] = "idle" /\ out'[c] = "SERVER_INTERNAL_ERROR")
         \/ /\ RowsOf(req[c].name) = {} /\ users' = Append(users, NewRow(c))
            /\ pc'[c] = "idle" /\ out'[c] = "SUCCESS" /\ loc'[c].row = Len(users) + 1
         \/ /\ RowsOf(req[c].name) = {} /\ users' = Append(users, NewRow(c))
            /\ hist'[c].fault
            /\ pc'[c] = "insert" \/ (pc'[c] = "idle" /\ out'[c] = "SERVER_INTERNAL_ERROR")
  <2>1. CASE RowsOf(req[c].name) # {} /\ InsertThrew(c) /\ UNCHANGED <<users, hist>>
    BY <1>1, <2>1, InsertThrewEffect, NoFault
  <2>2. CASE /\ RowsOf(req[c].name) = {} /\ users' = Append(users, NewRow(c))
             /\ SetLoc(c, "row", Len(users) + 1) /\ Return(c, "SUCCESS") /\ UNCHANGED hist
    <3>1. Len(users) + 1 \in Nat /\ "SUCCESS" \in Verdicts
      BY <1>1 DEF Verdicts
    <3> QED
      BY <1>1, <2>2, <3>1, RowEffect, ReturnEffect, NoFault
  <2>3. CASE /\ RowsOf(req[c].name) = {} /\ users' = Append(users, NewRow(c))
             /\ InsertThrew(c) /\ Fault(c)
    BY <1>1, <2>3, InsertThrewEffect, FaultEffect
  <2>4. CASE InsertThrew(c) /\ Fault(c) /\ UNCHANGED users
    BY <1>1, <2>4, InsertThrewEffect, FaultEffect
  <2> QED
    BY <2>1, <2>2, <2>3, <2>4 DEF Insert
<1>6. \/ users' = users /\ UniqueNames'
      \/ /\ users' \in Seq(Rows) /\ Len(users') = Len(users) + 1
         /\ users'[Len(users) + 1] = NewRow(c) /\ Len(users) + 1 \in DOMAIN users'
         /\ TablesGrow /\ UniqueNames'
  BY <1>1, <1>2, <1>3, <1>5, AppendEffect DEF UniqueNames
<1>7. Typed'
  <2>1. users' \in Seq(Rows)
    BY <1>1, <1>6 DEF Typed
  <2> QED
    BY <1>1, <1>2, <1>5, <2>1 DEF Typed
<1>8. TablesGrow /\ UniqueNames'
  BY <1>1, <1>2, <1>6 DEF TablesGrow
<1>9. FriendsExist'
  BY <1>2, <1>8 DEF UserInv, FriendsExist, TablesGrow
<1>10. \A d \in Calls : d # c => Stays(d)
  BY <1>2, <1>5, OthersStay
<1>11. KindOK(c)'
  BY <1>1, <1>2, <1>4, <1>5, <1>6 DEF KindOK
<1>12. RegisterOK(c)'
  <2>1. Returned(c, "Register")' /\ out'[c] = "SUCCESS" =>
            loc'[c].row = Len(users) + 1 /\ Len(users') = Len(users) + 1
    BY <1>5, <1>6, <1>1 DEF Returned
  <2>2. Registered(c)' =>
            /\ loc'[c].row \in DOMAIN users'
            /\ users'[loc'[c].row] = NewRow(c)'
            /\ loc'[c].row > hist'[c].seen
    BY <1>1, <1>2, <1>4, <1>5, <1>6, <2>1 DEF Registered, NewRow
  <2>3. hist'[c].fault \/ (pc'[c] = "idle" /\ out'[c] = "SUCCESS")
        \/ (AllLater(c)' /\ RowsOf(req[c].name)' # {})
    <3>1. users' = users => RowsOf(req[c].name)' = RowsOf(req[c].name)
      BY <1>2 DEF RowsOf
    <3> QED
      BY <1>2, <1>4, <1>5, <3>1 DEF AllLater
  <2> QED
    BY <1>2, <1>5, <2>2, <2>3 DEF RegisterOK, Registered, Returned, AllLater
<1>13. CallOK(c)'
  BY <1>1, <1>2, <1>11, <1>12, OwnPart DEF CallOK
<1>14. Registered(c)' => \A d \in Calls : d # c /\ Registered(d) => loc'[c].row # loc[d].row
  <2>1. Registered(c)' => loc'[c].row = Len(users) + 1
    BY <1>1, <1>5 DEF Registered, Returned
  <2>2. \A d \in Calls : Registered(d) => loc[d].row \in DOMAIN users
    BY DEF UserInv, CallOK, RegisterOK
  <2> QED
    BY <1>1, <2>1, <2>2
<1> QED
  BY <1>7, <1>8, <1>9, <1>10, <1>13, <1>14, CallStep

LEMMA SetKeyEffect ==
    ASSUME Typed, NEW u, NEW t \in Int
    PROVE  /\ SetKey(u, t) \in [Ids -> Int]
           /\ \A v \in Ids : SetKey(u, t)[v] = IF v = u THEN t ELSE redis[v]
<1>1. redis \in [Ids -> Int]
  BY DEF Typed
<1>2. SetKey(u, t) = [v \in Ids |-> IF v = u THEN t ELSE redis[v]]
  BY <1>1 DEF SetKey
<1> QED
  BY <1>1, <1>2

(* A SET or a DEL, answered or not. *)
LEMMA SetEffect ==
    ASSUME Typed, NEW c \in Calls, NEW u, NEW t \in Int, SetDone(u, t) \/ SetFails(c, u, t)
    PROVE  /\ redis' \in [Ids -> Int]
           /\ \A v \in Ids : redis'[v] # redis[v] => v = u /\ redis'[v] = t
           /\ hist' \in [Calls -> Histories] /\ OthersHist(c)
           /\ hist'[c].seen = hist[c].seen
<1>1. /\ SetKey(u, t) \in [Ids -> Int]
      /\ \A v \in Ids : SetKey(u, t)[v] = IF v = u THEN t ELSE redis[v]
  BY SetKeyEffect
<1>2. redis' \in {redis, SetKey(u, t)}
  BY DEF SetDone, SetFails
<1>3. /\ redis' \in [Ids -> Int]
      /\ \A v \in Ids : redis'[v] # redis[v] => v = u /\ redis'[v] = t
  BY <1>1, <1>2 DEF Typed
<1>4. CASE SetDone(u, t)
  BY <1>3, <1>4, NoFault DEF SetDone
<1>5. CASE SetFails(c, u, t)
  BY <1>3, <1>5, FaultEffect DEF SetFails
<1> QED
  BY <1>4, <1>5

(* The steps that also change keys of redis. *)
LEMMA RedisStep ==
    ASSUME UserInv, NEW c \in Calls, UNCHANGED <<users, friends, served, req>>,
           clock' \in Nat, redis' \in [Ids -> Int],
           pc' \in [Calls -> Steps], out' \in [Calls -> Verdicts],
           loc' \in [Calls -> Locals], hist' \in [Calls -> Histories],
           \A d \in Calls : d # c => Stays(d), CallOK(c)', ~Registered(c)'
    PROVE  UserInv'
<1>1. Typed'
  BY DEF UserInv, Typed
<1> QED
  BY <1>1, QuietStep

LEMMA TokenStep ==
    ASSUME UserInv, NEW c \in Calls, GenerateAndSaveToken(c)
    PROVE  UserInv'
<1>1. Typed /\ CallOK(c) /\ req[c].op = "Login"
  BY DEF UserInv, CallOK, KindOK, GenerateAndSaveToken
<1>2. UNCHANGED <<users, friends, served, req, loc>>
  BY DEF GenerateAndSaveToken
<1>3. PICK t \in {clock, clock + 1} :
          /\ clock' = t
          /\ \/ SetDone(loc[c].row, t) /\ Return(c, "SUCCESS")
             \/ SetFails(c, loc[c].row, t) /\ Return(c, "SERVER_INTERNAL_ERROR")
  BY DEF GenerateAndSaveToken
<1>4. t \in Nat
  BY <1>1 DEF Typed
<1>5. /\ redis' \in [Ids -> Int]
      /\ hist' \in [Calls -> Histories] /\ OthersHist(c) /\ hist'[c].seen = hist[c].seen
  BY <1>1, <1>3, <1>4, SetEffect
<1>6. /\ pc' \in [Calls -> Steps] /\ out' \in [Calls -> Verdicts] /\ OthersPc(c)
      /\ pc'[c] = "idle" /\ out'[c] \in {"SUCCESS", "SERVER_INTERNAL_ERROR"}
  BY <1>1, <1>3, ReturnEffect DEF Verdicts
<1>7. loc' \in [Calls -> Locals] /\ OthersLoc(c)
  BY <1>1, <1>2, SameLoc
<1>8. \A d \in Calls : d # c => Stays(d)
  BY <1>2, <1>5, <1>6, <1>7, OthersStay
<1>9. KindOK(c)'
  BY <1>1, <1>2, <1>5, <1>6 DEF CallOK, KindOK
<1>10. LoginOK(c)'
  BY <1>1, <1>2, <1>6 DEF CallOK, LoginOK, Returned, RowsOf, GenerateAndSaveToken
<1>11. CallOK(c)'
  BY <1>1, <1>2, <1>9, <1>10, OwnPart DEF CallOK
<1>12. ~Registered(c)'
  BY <1>1, <1>2 DEF Registered, Returned
<1> QED
  BY <1>2, <1>3, <1>4, <1>5, <1>6, <1>7, <1>8, <1>11, <1>12, RedisStep

LEMMA VerifyStep ==
    ASSUME UserInv, NEW c \in Calls, VerifyToken(c)
    PROVE  UserInv'
<1>1. Typed /\ CallOK(c) /\ req[c].op \in {"Logout", "VerifyToken"}
  BY DEF UserInv, CallOK, KindOK, VerifyToken
<1>2. UNCHANGED <<users, friends, clock, served, req, loc>>
  BY DEF VerifyToken
<1>3. req[c].uid \in Ids /\ req[c].token \in Tokens
  BY <1>1, HasRequest, RequestFields
<1>4. /\ redis' \in [Ids -> Int]
      /\ hist' \in [Calls -> Histories] /\ OthersHist(c) /\ hist'[c].seen = hist[c].seen
  <2>1. CASE req[c].token = NoToken /\ UNCHANGED <<redis, hist>>
    BY <1>1, <2>1, NoFault DEF Typed
  <2>2. CASE /\ req[c].token # NoToken
             /\ \/ SetDone(req[c].uid, req[c].token)
                \/ SetFails(c, req[c].uid, req[c].token)
    <3>1. req[c].token \in Nat
      BY <1>3, <2>2 DEF Tokens
    <3> QED
      BY <1>1, <1>3, <2>2, <3>1, SetEffect
  <2> QED
    BY <2>1, <2>2 DEF VerifyToken
<1>5. /\ pc' \in [Calls -> Steps] /\ out' \in [Calls -> Verdicts] /\ OthersPc(c)
      /\ \/ req[c].token = NoToken /\ pc'[c] = "idle" /\ out'[c] = "FALSE"
         \/ req[c].token # NoToken /\ req[c].op = "Logout" /\ pc'[c] = "delete"
         \/ req[c].op = "VerifyToken" /\ pc'[c] = "idle" /\ out'[c] = "TRUE"
  BY <1>1, ReturnEffect, ContinueEffect DEF VerifyToken, Verdicts, Steps
<1>6. loc' \in [Calls -> Locals] /\ OthersLoc(c)
  BY <1>1, <1>2, SameLoc
<1>7. \A d \in Calls : d # c => Stays(d)
  BY <1>2, <1>4, <1>5, <1>6, OthersStay
<1>8. KindOK(c)'
  BY <1>1, <1>2, <1>4, <1>5 DEF CallOK, KindOK
<1>9. LogoutOK(c)'
  BY <1>2, <1>5 DEF LogoutOK
<1>10. CallOK(c)'
  BY <1>1, <1>2, <1>8, <1>9, OwnPart DEF CallOK
<1>11. ~Registered(c)'
  BY <1>1, <1>2 DEF Registered, Returned
<1> QED
  BY <1>1, <1>2, <1>4, <1>5, <1>6, <1>7, <1>10, <1>11, RedisStep DEF Typed

LEMMA DeleteStep ==
    ASSUME UserInv, NEW c \in Calls, DeleteToken(c)
    PROVE  UserInv'
<1> DEFINE u == req[c].uid
<1>1. Typed /\ CallOK(c) /\ req[c].op = "Logout"
  BY DEF UserInv, CallOK, KindOK, DeleteToken
<1>2. UNCHANGED <<users, friends, clock, served, req, loc>>
  BY DEF DeleteToken
<1>3. SetDone(u, NoToken) \/ SetFails(c, u, NoToken)
  BY DEF DeleteToken, DelDone, DelFails
<1>4. /\ redis' \in [Ids -> Int]
      /\ hist' \in [Calls -> Histories] /\ OthersHist(c) /\ hist'[c].seen = hist[c].seen
  BY <1>1, <1>3, SetEffect DEF NoToken
<1>5. /\ pc' \in [Calls -> Steps] /\ out' \in [Calls -> Verdicts] /\ OthersPc(c)
      /\ pc'[c] = "idle"
  BY <1>1, ReturnEffect DEF DeleteToken, Verdicts
<1>6. loc' \in [Calls -> Locals] /\ OthersLoc(c)
  BY <1>1, <1>2, SameLoc
<1>7. \A d \in Calls : d # c => Stays(d)
  BY <1>2, <1>4, <1>5, <1>6, OthersStay
<1>8. KindOK(c)'
  BY <1>1, <1>2, <1>4, <1>5 DEF CallOK, KindOK
<1>9. LogoutOK(c)'
  BY <1>5 DEF LogoutOK
<1>10. CallOK(c)'
  BY <1>1, <1>2, <1>8, <1>9, OwnPart DEF CallOK
<1>11. ~Registered(c)'
  BY <1>1, <1>2 DEF Registered, Returned
<1> QED
  BY <1>1, <1>2, <1>4, <1>5, <1>6, <1>7, <1>10, <1>11, RedisStep DEF Typed

LEMMA ExpireStep ==
    ASSUME UserInv, NEW u \in Ids, Expire(u)
    PROVE  UserInv'
<1> USE UsersFacts
<1>1. Typed
  BY DEF UserInv
<1>2. UNCHANGED <<users, friends, clock, served, req, pc, loc, out, hist>>
  BY DEF Expire
<1>3. redis' \in [Ids -> Int]
  BY <1>1, SetKeyEffect DEF Expire, NoToken
<1>4. Typed'
  BY <1>1, <1>2, <1>3 DEF Typed
<1>5. TablesGrow /\ \A d \in Calls : Stays(d)
  BY <1>1, <1>2 DEF TablesGrow, Stays
<1>6. \A d \in Calls : CallOK(d)'
  BY <1>4, <1>5, StaysOK DEF UserInv
<1>7. UniqueNames' /\ FriendsExist' /\ IdsDistinct'
  BY <1>2 DEF UserInv, UniqueNames, FriendsExist, IdsDistinct, Registered, Returned
<1> QED
  BY <1>4, <1>6, <1>7 DEF UserInv

(* An AddFriend in progress. *)
LEMMA AddFriendRequest ==
    ASSUME UserInv, NEW c \in Calls, pc[c] \in {"target", "already", "add"}
    PROVE  /\ Typed /\ CallOK(c) /\ req[c].op = "AddFriend"
           /\ req[c].uid \in Ids /\ req[c].peer \in Ids
           /\ hist[c].seen \in Nat /\ hist[c].seen <= Len(users)
<1>1. Typed /\ CallOK(c) /\ req[c].op = "AddFriend"
  BY DEF UserInv, CallOK, KindOK
<1> QED
  BY <1>1, HasRequest, RequestFields DEF CallOK, KindOK, Typed, Histories

LEMMA TargetStep ==
    ASSUME UserInv, NEW c \in Calls, FindTarget(c)
    PROVE  UserInv'
<1> USE UsersFacts, IdsFacts
<1>1. /\ Typed /\ CallOK(c) /\ req[c].op = "AddFriend"
      /\ req[c].uid \in Ids /\ req[c].peer \in Ids
      /\ hist[c].seen \in Nat /\ hist[c].seen <= Len(users)
  BY AddFriendRequest DEF FindTarget
<1>2. UNCHANGED <<stores, served, req, loc>>
  BY DEF FindTarget
<1>3. /\ pc' \in [Calls -> Steps] /\ out' \in [Calls -> Verdicts] /\ OthersPc(c)
      /\ hist' \in [Calls -> Histories] /\ OthersHist(c) /\ hist'[c].seen = hist[c].seen
      /\ \/ /\ pc'[c] = "idle" /\ out'[c] = "FALSE"
            /\ \/ req[c].uid = req[c].peer \/ req[c].peer \notin DOMAIN users
               \/ hist'[c].fault
         \/ pc'[c] = "already" /\ req[c].uid # req[c].peer /\ req[c].peer \in DOMAIN users
  BY <1>1, ReturnEffect, ContinueEffect, NoFault, FaultEffect
     DEF FindTarget, FindById, Verdicts, Steps
<1>4. req[c].peer \notin DOMAIN users => req[c].peer > hist'[c].seen
  <2>1. req[c].peer \in Nat /\ req[c].peer # 0
    BY <1>1
  <2>2. Len(users) \in Nat /\ DOMAIN users = 1..Len(users)
    BY <1>1
  <2>3. hist'[c].seen \in Nat /\ hist'[c].seen <= Len(users)
    BY <1>1, <1>3
  <2> QED
    BY <2>1, <2>2, <2>3
<1>5. KindOK(c)'
  BY <1>1, <1>2, <1>3 DEF KindOK, stores
<1>6. FriendOK(c)'
  BY <1>1, <1>2, <1>3, <1>4 DEF FriendOK, Returned, stores
<1>7. CallOK(c)' /\ ~Registered(c)'
  BY <1>1, <1>2, <1>5, <1>6, OwnPart DEF CallOK, Registered, Returned
<1> QED
  BY <1>1, <1>2, <1>3, <1>7, SameLoc, LocalStep

LEMMA AlreadyStep ==
    ASSUME UserInv, NEW c \in Calls, IsFriend(c)
    PROVE  UserInv'
<1>1. /\ Typed /\ CallOK(c) /\ req[c].op = "AddFriend"
      /\ req[c].uid \in Ids /\ req[c].peer \in Ids
      /\ hist[c].seen \in Nat /\ hist[c].seen <= Len(users)
  BY AddFriendRequest DEF IsFriend
<1>2. UNCHANGED <<stores, served, req, loc>>
  BY DEF IsFriend
<1>3. req[c].uid # req[c].peer /\ req[c].peer \in DOMAIN users
  BY <1>1 DEF CallOK, FriendOK, IsFriend
<1>4. /\ pc' \in [Calls -> Steps] /\ out' \in [Calls -> Verdicts] /\ OthersPc(c)
      /\ hist' \in [Calls -> Histories] /\ OthersHist(c) /\ hist'[c].seen = hist[c].seen
      /\ \/ /\ pc'[c] = "idle" /\ out'[c] = "FALSE"
            /\ <<req[c].uid, req[c].peer>> \in friends
         \/ pc'[c] = "add"
  BY <1>1, ReturnEffect, ContinueEffect, NoFault, FaultEffect
     DEF IsFriend, FriendsOf, Verdicts, Steps
<1>5. KindOK(c)'
  BY <1>1, <1>2, <1>4 DEF KindOK, stores
<1>6. FriendOK(c)'
  BY <1>2, <1>3, <1>4 DEF FriendOK, Returned, stores
<1>7. CallOK(c)' /\ ~Registered(c)'
  BY <1>1, <1>2, <1>5, <1>6, OwnPart DEF CallOK, Registered, Returned
<1> QED
  BY <1>1, <1>2, <1>4, <1>7, SameLoc, LocalStep

LEMMA AddStep ==
    ASSUME UserInv, NEW c \in Calls, AddFriend(c)
    PROVE  UserInv'
<1> USE UsersFacts
<1> DEFINE p == <<req[c].uid, req[c].peer>>
<1>1. /\ Typed /\ CallOK(c) /\ req[c].op = "AddFriend"
      /\ req[c].uid \in Ids /\ req[c].peer \in Ids
      /\ hist[c].seen \in Nat /\ hist[c].seen <= Len(users)
  BY AddFriendRequest DEF AddFriend
<1>2. UNCHANGED <<users, redis, clock, served, req>>
  BY DEF AddFriend
<1>3. req[c].uid # req[c].peer /\ req[c].peer \in DOMAIN users
  BY <1>1 DEF CallOK, FriendOK, AddFriend
<1>4. /\ pc' \in [Calls -> Steps] /\ out' \in [Calls -> Verdicts] /\ OthersPc(c)
      /\ loc' \in [Calls -> Locals] /\ OthersLoc(c)
      /\ hist' \in [Calls -> Histories] /\ OthersHist(c) /\ hist'[c].seen = hist[c].seen
      /\ friends' \in {friends, friends \union {p}}
      /\ \/ pc'[c] = "idle" /\ out'[c] = "TRUE" /\ p \in friends'
         \/ pc'[c] = "idle" /\ out'[c] = "FALSE" /\ hist'[c].fault
         \/ pc'[c] = "add"
  <2>1. CASE friends' = friends \union {p} /\ Return(c, "TRUE") /\ UNCHANGED <<loc, hist>>
    BY <1>1, <2>1, ReturnEffect, SameLoc, NoFault DEF Verdicts
  <2>2. CASE friends' \in {friends, friends \union {p}} /\ Again(c, "add") /\ Fault(c)
    BY <1>1, <2>2, AgainEffect, FaultEffect DEF Steps
  <2>3. CASE /\ friends' \in {friends, friends \union {p}}
             /\ Exhausted(c) /\ Return(c, "FALSE") /\ Fault(c)
    BY <1>1, <2>3, ReturnEffect, SameLoc, FaultEffect DEF Verdicts, Exhausted
  <2> QED
    BY <2>1, <2>2, <2>3 DEF AddFriend
<1>5. friends' \subseteq Ids \X Ids
  BY <1>1, <1>4 DEF Typed
<1>6. Typed'
  BY <1>1, <1>2, <1>4, <1>5 DEF Typed
<1>7. TablesGrow
  BY <1>1, <1>2, <1>4 DEF TablesGrow
<1>8. UniqueNames'
  BY <1>2 DEF UserInv, UniqueNames
<1>9. FriendsExist'
  BY <1>2, <1>3, <1>4 DEF UserInv, FriendsExist
<1>10. \A d \in Calls : d # c => Stays(d)
  BY <1>2, <1>4, OthersStay
<1>11. KindOK(c)'
  BY <1>1, <1>2, <1>4 DEF KindOK
<1>12. FriendOK(c)'
  BY <1>2, <1>3, <1>4 DEF FriendOK, Returned
<1>13. CallOK(c)' /\ ~Registered(c)'
  BY <1>1, <1>2, <1>11, <1>12, OwnPart DEF CallOK, Registered, Returned
<1> QED
  BY <1>6, <1>7, <1>8, <1>9, <1>10, <1>13, CallStep

-----------------------------------------------------------------------------
(* The friend list.                                                        *)

(* A GetFriendList in progress. *)
LEMMA ListRequest ==
    ASSUME UserInv, NEW c \in Calls, pc[c] \in {"count", "page", "resolve"}
    PROVE  /\ Typed /\ CallOK(c) /\ req[c].op = "GetFriendList"
           /\ req[c].uid \in Ids /\ req[c].page \in Nat
           /\ hist[c].seen \in Nat /\ hist[c].seen <= Len(users)
           /\ loc[c].list \in [Ids -> Nat] /\ loc[c].total \in Nat
           /\ Listed(c) \subseteq FriendsOf(req[c].uid)
           /\ hist[c].fault \in BOOLEAN
<1>1. Typed /\ CallOK(c) /\ req[c].op = "GetFriendList"
  BY DEF UserInv, CallOK, KindOK
<1>2. req[c].uid \in Ids /\ req[c].page \in Nat
  BY <1>1, HasRequest, RequestFields, UserServiceAssumption
<1>3. loc[c] \in Locals /\ hist[c] \in Histories
  BY <1>1 DEF Typed
<1> QED
  BY <1>1, <1>2, <1>3 DEF CallOK, KindOK, ListOK, Locals, Histories

LEMMA ListThrewEffect ==
    ASSUME Typed, NEW c \in Calls, ListThrew(c)
    PROVE  /\ pc' \in [Calls -> Steps] /\ out' \in [Calls -> Verdicts] /\ OthersPc(c)
           /\ loc' \in [Calls -> Locals] /\ OthersLoc(c)
           /\ loc'[c].total = loc[c].total /\ loc'[c].list = loc[c].list
           /\ pc'[c] \in {"count", "resolve"}
BY AgainEffect, ContinueEffect, SameLoc DEF ListThrew, Exhausted, Steps

LEMMA CountStep ==
    ASSUME UserInv, NEW c \in Calls, CountFriends(c)
    PROVE  UserInv'
<1> DEFINE F == FriendsOf(req[c].uid)
<1>1. /\ Typed /\ CallOK(c) /\ req[c].op = "GetFriendList"
      /\ req[c].uid \in Ids /\ req[c].page \in Nat
      /\ hist[c].seen \in Nat /\ hist[c].seen <= Len(users)
      /\ loc[c].list \in [Ids -> Nat] /\ Listed(c) \subseteq F
      /\ hist[c].fault \in BOOLEAN
  BY ListRequest DEF CountFriends
<1>2. UNCHANGED <<stores, served, req>>
  BY DEF CountFriends
<1>3. Cardinality(F) \in Nat
  BY FriendsFinite DEF FriendsOf
<1>4. /\ pc' \in [Calls -> Steps] /\ out' \in [Calls -> Verdicts] /\ OthersPc(c)
      /\ loc' \in [Calls -> Locals] /\ OthersLoc(c) /\ loc'[c].list = loc[c].list
      /\ hist' \in [Calls -> Histories] /\ OthersHist(c) /\ hist'[c].seen = hist[c].seen
      /\ \/ pc'[c] = "page" /\ loc'[c].total = Cardinality(F) /\ hist'[c] = hist[c]
         \/ pc'[c] \in {"count", "resolve"} /\ hist'[c].fault
  <2>1. CASE SetLoc(c, "total", Cardinality(F)) /\ Continue(c, "page") /\ UNCHANGED hist
    <3>1. "page" \in Steps
      BY DEF Steps
    <3> QED
      BY <1>1, <1>3, <2>1, <3>1, TotalEffect, ContinueEffect, NoFault
  <2>2. CASE ListThrew(c) /\ Fault(c)
    BY <1>1, <2>2, ListThrewEffect, FaultEffect
  <2> QED
    BY <2>1, <2>2 DEF CountFriends
<1>5. KindOK(c)'
  BY <1>1, <1>2, <1>4 DEF KindOK, stores
<1>6. FriendsOf(req[c].uid)' = F
  BY <1>2 DEF FriendsOf, stores
<1>7. Listed(c)' = Listed(c)
  BY <1>4 DEF Listed
<1>8. Undisturbed(c)' => Undisturbed(c) /\ pc'[c] = "page"
  BY <1>1, <1>2, <1>4 DEF Undisturbed
<1>9. ListOK(c)'
  <2>1. Undisturbed(c)' => \A i \in Ids : loc'[c].list[i] = 0
    BY <1>1, <1>4, <1>8 DEF CallOK, ListOK, CountFriends
  <2>2. pc'[c] = "page" => loc'[c].total <= Cardinality(F)
    BY <1>3, <1>4
  <2> QED
    BY <1>1, <1>2, <1>4, <1>6, <1>7, <1>8, <2>1, <2>2 DEF ListOK, Returned
<1>10. CallOK(c)' /\ ~Registered(c)'
  BY <1>1, <1>2, <1>5, <1>9, OwnPart DEF CallOK, Registered, Returned
<1> QED
  BY <1>2, <1>4, <1>10, LocalStep

(* A page holds friends, no more than PageSize and no fewer than are left. *)
LEMMA PagesFacts ==
    ASSUME NEW u, NEW page \in Nat, NEW S \in Pages(u, page)
    PROVE  /\ S \subseteq FriendsOf(u) /\ Cardinality(S) \in Nat
           /\ Cardinality(S) <= PageSize
           /\ \A n \in Nat : n <= Cardinality(FriendsOf(u)) =>
                 Cardinality(S) >= Min({PageSize, n - Offset(page)})
<1> DEFINE left == Cardinality(FriendsOf(u)) - Offset(page)
           m == Min({PageSize, left})
<1>1. S \subseteq FriendsOf(u) /\ Cardinality(S) = Max({0, m})
  BY DEF Pages
<1>2. Cardinality(FriendsOf(u)) \in Nat /\ left \in Int /\ Offset(page) \in Int
  <2>1. FriendsOf(u) \in SUBSET Ids
    BY DEF FriendsOf
  <2>2. Cardinality(FriendsOf(u)) \in Nat /\ Offset(page) \in Int
    BY <2>1, FriendsFinite, OffsetInt
  <2> QED
    BY <2>2
<1>3. PageSize \in Nat
  BY UserServiceAssumption
<1>4. m = (IF PageSize <= left THEN PageSize ELSE left)
  BY <1>2, <1>3, MinMax
<1>5. m \in Int
  BY <1>2, <1>3, <1>4
<1>6. Max({0, m}) = (IF 0 <= m THEN m ELSE 0)
  <2> HIDE DEF m
  <2> QED
    BY <1>5, MinMax
<1>7. Cardinality(S) \in Nat /\ Cardinality(S) <= PageSize /\ Cardinality(S) >= m
  BY <1>1, <1>2, <1>3, <1>4, <1>5, <1>6
<1>8. ASSUME NEW n \in Nat, n <= Cardinality(FriendsOf(u))
      PROVE  Cardinality(S) >= Min({PageSize, n - Offset(page)})
  <2>1. n - Offset(page) \in Int /\ n - Offset(page) <= left
    BY <1>2, <1>8
  <2>2. Min({PageSize, n - Offset(page)})
        = (IF PageSize <= n - Offset(page) THEN PageSize ELSE n - Offset(page))
    BY <1>3, <2>1, MinMax
  <2> QED
    BY <1>2, <1>3, <1>4, <1>7, <2>1, <2>2
<1> QED
  BY <1>1, <1>7, <1>8

(* Friends added to a list of friends. *)
LEMMA ExtendedFacts ==
    ASSUME NEW c \in Calls, loc[c].list \in [Ids -> Nat], NEW F \in SUBSET Ids,
           Listed(c) \subseteq F, NEW S \in SUBSET F
    PROVE  /\ Extended(c, S) \in [Ids -> Nat]
           /\ {i \in Ids : Extended(c, S)[i] > 0} \subseteq F
           /\ (\A i \in Ids : loc[c].list[i] = 0) =>
                 /\ {i \in Ids : Extended(c, S)[i] > 0} = S
                 /\ \A i \in Ids : Extended(c, S)[i] <= 1
<1>1. \A i \in Ids : Extended(c, S)[i] = loc[c].list[i] + (IF i \in S THEN 1 ELSE 0)
  BY DEF Extended
<1>2. Extended(c, S) \in [Ids -> Nat]
  BY DEF Extended
<1>3. \A i \in Ids : Extended(c, S)[i] > 0 => i \in S \/ loc[c].list[i] > 0
  BY <1>1
<1>4. {i \in Ids : Extended(c, S)[i] > 0} \subseteq F
  BY <1>3 DEF Listed
<1>5. ASSUME \A i \in Ids : loc[c].list[i] = 0
      PROVE  /\ {i \in Ids : Extended(c, S)[i] > 0} = S
             /\ \A i \in Ids : Extended(c, S)[i] <= 1
  <2>1. \A i \in Ids : Extended(c, S)[i] = IF i \in S THEN 1 ELSE 0
    BY <1>1, <1>5
  <2> QED
    BY <2>1
<1> QED
  BY <1>2, <1>4, <1>5

(* What a page query leaves behind: all of the page, part of it, or, for   *)
(* page 0, nothing.                                                        *)
LEMMA PageEffect ==
    ASSUME UserInv, NEW c \in Calls, PageFriends(c)
    PROVE  /\ pc' \in [Calls -> Steps] /\ out' \in [Calls -> Verdicts] /\ OthersPc(c)
           /\ loc' \in [Calls -> Locals] /\ OthersLoc(c) /\ loc'[c].total = loc[c].total
           /\ hist' \in [Calls -> Histories] /\ OthersHist(c)
           /\ hist'[c].seen = hist[c].seen
           /\ \/ /\ pc'[c] \in {"count", "resolve"} /\ req[c].page = 0
                 /\ loc'[c].list = loc[c].list
              \/ /\ pc'[c] \in {"count", "resolve"} /\ hist'[c].fault
                 /\ \E S \in SUBSET FriendsOf(req[c].uid) : loc'[c].list = Extended(c, S)
              \/ /\ pc'[c] = "resolve" /\ hist'[c] = hist[c]
                 /\ \E S \in Pages(req[c].uid, req[c].page) : loc'[c].list = Extended(c, S)
<1> DEFINE F == FriendsOf(req[c].uid)
<1>1. /\ Typed /\ CallOK(c) /\ req[c].uid \in Ids /\ req[c].page \in Nat
      /\ loc[c].list \in [Ids -> Nat] /\ Listed(c) \subseteq F
  BY ListRequest DEF PageFriends
<1>2. F \in SUBSET Ids
  BY DEF FriendsOf
<1>3. CASE Offset(req[c].page) < 0 /\ ListThrew(c) /\ UNCHANGED hist
  <2>1. req[c].page = 0
    BY <1>1, <1>3, OffsetInt
  <2> QED
    BY <1>1, <1>3, <2>1, ListThrewEffect, NoFault
<1>4. ASSUME NEW S \in Pages(req[c].uid, req[c].page),
             SetLoc(c, "list", Extended(c, S)), Continue(c, "resolve"), UNCHANGED hist
      PROVE  /\ pc' \in [Calls -> Steps] /\ out' \in [Calls -> Verdicts] /\ OthersPc(c)
             /\ loc' \in [Calls -> Locals] /\ OthersLoc(c) /\ loc'[c].total = loc[c].total
             /\ hist' \in [Calls -> Histories] /\ OthersHist(c)
             /\ pc'[c] = "resolve" /\ hist'[c] = hist[c] /\ loc'[c].list = Extended(c, S)
  <2>1. S \in SUBSET F
    BY <1>1, <1>4, PagesFacts
  <2>2. Extended(c, S) \in [Ids -> Nat] /\ "resolve" \in Steps
    BY <1>1, <1>2, <2>1, ExtendedFacts DEF Steps
  <2> QED
    BY <1>1, <1>4, <2>2, ListEffect, ContinueEffect, NoFault
<1>5. ASSUME NEW S \in Pages(req[c].uid, req[c].page), NEW part \in SUBSET S,
             LET read == [loc[c] EXCEPT !.list = Extended(c, part)] IN
             /\ Fault(c)
             /\ UNCHANGED out
             /\ \/ /\ loc[c].attempt < MaxRetries
                   /\ loc' = [loc EXCEPT ![c] = [read EXCEPT !.attempt = @ + 1]]
                   /\ Goto(c, "count")
                \/ /\ loc[c].attempt >= MaxRetries
                   /\ loc' = [loc EXCEPT ![c] = read]
                   /\ Goto(c, "resolve")
      PROVE  /\ pc' \in [Calls -> Steps] /\ out' \in [Calls -> Verdicts] /\ OthersPc(c)
             /\ loc' \in [Calls -> Locals] /\ OthersLoc(c) /\ loc'[c].total = loc[c].total
             /\ hist' \in [Calls -> Histories] /\ OthersHist(c)
             /\ hist'[c].seen = hist[c].seen
             /\ pc'[c] \in {"count", "resolve"} /\ hist'[c].fault
             /\ part \in SUBSET F /\ loc'[c].list = Extended(c, part)
  <2>1. part \in SUBSET F
    BY <1>1, <1>5, PagesFacts
  <2>2. Extended(c, part) \in [Ids -> Nat]
    BY <1>1, <1>2, <2>1, ExtendedFacts
  <2>3. PICK a \in 0..MaxRetries :
           /\ loc' = [loc EXCEPT ![c] = [attempt |-> a, row |-> loc[c].row,
                                         total |-> loc[c].total, list |-> Extended(c, part)]]
           /\ Goto(c, "count") \/ Goto(c, "resolve")
    <3>1. loc[c] \in Locals /\ loc[c].attempt \in 0..MaxRetries
      BY <1>1 DEF Typed, Locals
    <3>2. CASE loc[c].attempt < MaxRetries
      <4>1. loc[c].attempt + 1 \in 0..MaxRetries
        BY <3>1, <3>2, UserServiceAssumption
      <4>2. [[loc[c] EXCEPT !.list = Extended(c, part)] EXCEPT !.attempt = @ + 1]
            = [attempt |-> loc[c].attempt + 1, row |-> loc[c].row,
               total |-> loc[c].total, list |-> Extended(c, part)]
        <5> DEFINE read == [loc[c] EXCEPT !.list = Extended(c, part)]
        <5>1. /\ read \in Locals /\ read.attempt = loc[c].attempt /\ read.row = loc[c].row
              /\ read.total = loc[c].total /\ read.list = Extended(c, part)
          BY <2>2, <3>1 DEF Locals
        <5>2. \A r \in Locals : [r EXCEPT !.attempt = @ + 1]
                = [attempt |-> r.attempt + 1, row |-> r.row,
                   total |-> r.total, list |-> r.list]
          BY DEF Locals
        <5> HIDE DEF read
        <5>3. [read EXCEPT !.attempt = @ + 1]
              = [attempt |-> loc[c].attempt + 1, row |-> loc[c].row,
                 total |-> loc[c].total, list |-> Extended(c, part)]
          BY <5>1, <5>2
        <5> QED
          BY <5>3 DEF read
      <4> QED
        BY <1>5, <3>1, <3>2, <4>1, <4>2, UserServiceAssumption
    <3>3. CASE loc[c].attempt >= MaxRetries
      <4>1. [loc[c] EXCEPT !.list = Extended(c, part)]
            = [attempt |-> loc[c].attempt, row |-> loc[c].row,
               total |-> loc[c].total, list |-> Extended(c, part)]
        BY <3>1 DEF Locals
      <4> QED
        BY <1>5, <3>1, <3>3, <4>1, UserServiceAssumption
    <3> QED
      BY <3>1, <3>2, <3>3, UserServiceAssumption
  <2>4. /\ loc' \in [Calls -> Locals] /\ OthersLoc(c) /\ loc'[c].total = loc[c].total
        /\ loc'[c].list = Extended(c, part)
    BY <1>1, <2>2, <2>3 DEF Typed, Locals, OthersLoc
  <2>5. /\ pc' \in [Calls -> Steps] /\ out' \in [Calls -> Verdicts] /\ OthersPc(c)
        /\ pc'[c] \in {"count", "resolve"}
    BY <1>1, <1>5, <2>3 DEF Typed, Goto, OthersPc, Steps
  <2> QED
    BY <1>1, <1>5, <2>1, <2>4, <2>5, FaultEffect
<1>6. CASE \E S \in Pages(req[c].uid, req[c].page) :
               /\ SetLoc(c, "list", Extended(c, S))
               /\ Continue(c, "resolve")
               /\ UNCHANGED hist
  BY <1>4, <1>6
<1>7. CASE \E S \in Pages(req[c].uid, req[c].page) : \E part \in SUBSET S :
               LET read == [loc[c] EXCEPT !.list = Extended(c, part)] IN
               /\ Fault(c)
               /\ UNCHANGED out
               /\ \/ /\ loc[c].attempt < MaxRetries
                     /\ loc' = [loc EXCEPT ![c] = [read EXCEPT !.attempt = @ + 1]]
                     /\ Goto(c, "count")
                  \/ /\ loc[c].attempt >= MaxRetries
                     /\ loc' = [loc EXCEPT ![c] = read]
                     /\ Goto(c, "resolve")
  BY <1>5, <1>7
<1> QED
  BY <1>3, <1>6, <1>7 DEF PageFriends

LEMMA PageStep ==
    ASSUME UserInv, NEW c \in Calls, PageFriends(c)
    PROVE  UserInv'
<1> DEFINE F == FriendsOf(req[c].uid)
<1>1. /\ Typed /\ CallOK(c) /\ req[c].op = "GetFriendList"
      /\ req[c].uid \in Ids /\ req[c].page \in Nat
      /\ hist[c].seen \in Nat /\ hist[c].seen <= Len(users)
      /\ loc[c].list \in [Ids -> Nat] /\ loc[c].total \in Nat /\ Listed(c) \subseteq F
      /\ hist[c].fault \in BOOLEAN
  BY ListRequest DEF PageFriends
<1>2. UNCHANGED <<stores, served, req>>
  BY DEF PageFriends
<1>3. F \in SUBSET Ids /\ FriendsOf(req[c].uid)' = F
  BY <1>2 DEF FriendsOf, stores
<1>4. /\ pc' \in [Calls -> Steps] /\ out' \in [Calls -> Verdicts] /\ OthersPc(c)
      /\ loc' \in [Calls -> Locals] /\ OthersLoc(c) /\ loc'[c].total = loc[c].total
      /\ hist' \in [Calls -> Histories] /\ OthersHist(c)
      /\ hist'[c].seen = hist[c].seen /\ pc'[c] \in {"count", "resolve"}
  BY PageEffect
<1>5. Listed(c)' \subseteq F
  <2>1. CASE loc'[c].list = loc[c].list
    BY <1>1, <2>1 DEF Listed
  <2>2. CASE \E S \in SUBSET F : loc'[c].list = Extended(c, S)
    BY <1>1, <1>3, <2>2, ExtendedFacts DEF Listed
  <2>3. CASE \E S \in Pages(req[c].uid, req[c].page) : loc'[c].list = Extended(c, S)
    BY <1>1, <2>2, <2>3, PagesFacts
  <2> QED
    BY <2>1, <2>2, <2>3, PageEffect
<1>6. ASSUME Undisturbed(c)'
      PROVE  /\ pc'[c] = "resolve" /\ \A i \in Ids : loc'[c].list[i] <= 1
             /\ Cardinality(Listed(c))' <= PageSize
             /\ Cardinality(Listed(c))' >= Due(c)'
  <2>1. ~hist'[c].fault /\ req[c].page > 0
    BY <1>2, <1>6 DEF Undisturbed
  <2>2. pc'[c] = "resolve" /\ hist'[c] = hist[c]
        /\ \E S \in Pages(req[c].uid, req[c].page) : loc'[c].list = Extended(c, S)
    BY <1>1, <2>1, PageEffect
  <2>3. PICK S \in Pages(req[c].uid, req[c].page) : loc'[c].list = Extended(c, S)
    BY <2>2
  <2>4. S \in SUBSET F
    BY <1>1, PagesFacts
  <2>5. (\A i \in Ids : loc[c].list[i] = 0) /\ loc[c].total <= Cardinality(F)
    BY <1>1, <2>1, <2>2 DEF CallOK, ListOK, Undisturbed, PageFriends
  <2>6. Listed(c)' = S /\ \A i \in Ids : loc'[c].list[i] <= 1
    BY <1>1, <1>3, <2>3, <2>4, <2>5, ExtendedFacts DEF Listed
  <2>7. Due(c)' = Min({PageSize, loc[c].total - Offset(req[c].page)})
    BY <1>2, <1>4 DEF Due
  <2> QED
    BY <1>1, <2>2, <2>5, <2>6, <2>7, PagesFacts
<1>7. KindOK(c)'
  BY <1>1, <1>2, <1>4 DEF KindOK, stores
<1>8. ListOK(c)'
  BY <1>2, <1>3, <1>4, <1>5, <1>6 DEF ListOK, Returned
<1>9. CallOK(c)' /\ ~Registered(c)'
  BY <1>1, <1>2, <1>7, <1>8, OwnPart DEF CallOK, Registered, Returned
<1> QED
  BY <1>2, <1>4, <1>9, LocalStep

LEMMA ResolveStep ==
    ASSUME UserInv, NEW c \in Calls, ResolveFriends(c)
    PROVE  UserInv'
<1> DEFINE F == FriendsOf(req[c].uid)
           found == [i \in Ids |-> IF FindById(i) THEN loc[c].list[i] ELSE 0]
<1>1. /\ Typed /\ CallOK(c) /\ req[c].op = "GetFriendList"
      /\ req[c].uid \in Ids /\ req[c].page \in Nat
      /\ hist[c].seen \in Nat /\ hist[c].seen <= Len(users)
      /\ loc[c].list \in [Ids -> Nat] /\ loc[c].total \in Nat /\ Listed(c) \subseteq F
      /\ hist[c].fault \in BOOLEAN
  BY ListRequest DEF ResolveFriends
<1>2. UNCHANGED <<stores, served, req>>
  BY DEF ResolveFriends
<1>3. FriendsOf(req[c].uid)' = F
  BY <1>2 DEF FriendsOf, stores
<1>4. found = loc[c].list
  <2>1. \A i \in Ids : i \in F => i \in DOMAIN users
    BY DEF UserInv, FriendsExist, FriendsOf
  <2>2. \A i \in Ids : i \notin F => loc[c].list[i] = 0
    BY <1>1 DEF Listed
  <2>3. \A i \in Ids : found[i] = loc[c].list[i]
    BY <2>1, <2>2 DEF FindById
  <2> QED
    BY <1>1, <2>3
<1>5. /\ pc' \in [Calls -> Steps] /\ out' \in [Calls -> Verdicts] /\ OthersPc(c)
      /\ pc'[c] = "idle" /\ out'[c] = "TRUE"
  BY <1>1, ReturnEffect DEF ResolveFriends, Verdicts
<1>6. /\ loc' \in [Calls -> Locals] /\ OthersLoc(c) /\ loc'[c].total = loc[c].total
      /\ hist' \in [Calls -> Histories] /\ OthersHist(c) /\ hist'[c].seen = hist[c].seen
      /\ \/ loc'[c].list = loc[c].list /\ hist'[c] = hist[c]
         \/ hist'[c].fault /\ \A i \in Ids : loc'[c].list[i] > 0 => loc[c].list[i] > 0
  <2>1. CASE SetLoc(c, "list", found) /\ UNCHANGED hist
    <3>1. SetLoc(c, "list", loc[c].list)
      BY <1>4, <2>1
    <3> QED
      BY <1>1, <2>1, <3>1, ListEffect, NoFault
  <2>2. ASSUME NEW l \in [Ids -> 0..(MaxRetries + 1)], \A i \in Ids : l[i] <= found[i],
               SetLoc(c, "list", l), Fault(c)
        PROVE  /\ loc' \in [Calls -> Locals] /\ OthersLoc(c)
               /\ loc'[c].total = loc[c].total
               /\ hist' \in [Calls -> Histories] /\ OthersHist(c)
               /\ hist'[c].seen = hist[c].seen /\ hist'[c].fault
               /\ \A i \in Ids : loc'[c].list[i] > 0 => loc[c].list[i] > 0
    <3>1. l \in [Ids -> Nat]
      OBVIOUS
    <3>2. \A i \in Ids : l[i] > 0 => loc[c].list[i] > 0
      BY <1>1, <1>4, <2>2, <3>1
    <3> QED
      BY <1>1, <2>2, <3>1, <3>2, ListEffect, FaultEffect
  <2> QED
    BY <2>1, <2>2 DEF ResolveFriends
<1>7. Listed(c)' \subseteq F
  BY <1>1, <1>6 DEF Listed
<1>8. KindOK(c)'
  BY <1>1, <1>2, <1>5, <1>6 DEF KindOK, stores
<1>9. ASSUME Undisturbed(c)'
      PROVE  /\ \A i \in Ids : loc'[c].list[i] <= 1
             /\ Cardinality(Listed(c))' <= PageSize
             /\ Cardinality(Listed(c))' >= Due(c)'
  <2>1. loc'[c].list = loc[c].list /\ Undisturbed(c)
    BY <1>1, <1>2, <1>6, <1>9 DEF Undisturbed
  <2>2. Listed(c)' = Listed(c) /\ Due(c)' = Due(c)
    BY <1>2, <1>6, <2>1 DEF Listed, Due
  <2> QED
    BY <1>1, <2>1, <2>2 DEF CallOK, ListOK, ResolveFriends
<1>10. ListOK(c)'
  BY <1>2, <1>3, <1>5, <1>7, <1>9 DEF ListOK, Returned
<1>11. CallOK(c)' /\ ~Registered(c)'
  BY <1>1, <1>2, <1>8, <1>10, OwnPart DEF CallOK, Registered, Returned
<1> QED
  BY <1>2, <1>5, <1>6, <1>11, LocalStep

LEMMA StutterStep ==
    ASSUME UserInv, UNCHANGED vars
    PROVE  UserInv'
<1>1. Typed'
  BY DEF UserInv, Typed, vars, stores
<1>2. TablesGrow /\ \A d \in Calls : Stays(d)
  BY UsersFacts DEF UserInv, TablesGrow, Stays, vars, stores
<1>3. \A d \in Calls : CallOK(d)'
  BY <1>1, <1>2, StaysOK DEF UserInv
<1>4. UniqueNames' /\ FriendsExist' /\ IdsDistinct'
  BY DEF UserInv, UniqueNames, FriendsExist, IdsDistinct, Registered, Returned, vars, stores
<1> QED
  BY <1>1, <1>3, <1>4 DEF UserInv

LEMMA NextInv == UserInv /\ [Next]_vars => UserInv'
<1> SUFFICES ASSUME UserInv, [Next]_vars PROVE UserInv'
  OBVIOUS
<1>1. ASSUME NEW c \in Calls, Request(c) PROVE UserInv'
  BY <1>1, RequestStep
<1>2. ASSUME NEW c \in Calls, Step(c) PROVE UserInv'
  BY <1>2, FindStep, InsertStep, TokenStep, VerifyStep, DeleteStep, TargetStep,
     AlreadyStep, AddStep, CountStep, PageStep, ResolveStep DEF Step
<1>3. ASSUME NEW u \in Ids, Expire(u) PROVE UserInv'
  BY <1>3, ExpireStep
<1> QED
  BY <1>1, <1>2, <1>3, StutterStep DEF Next

-----------------------------------------------------------------------------
(* What each step writes to redis.                                         *)

Authorised(c) ==
    \A u \in Ids : redis'[u] # redis[u] =>
        pc'[c] # pc[c] /\ (SignedIn(c, u) \/ Presented(c, u))

LEMMA TokenWrites ==
    ASSUME UserInv, NEW c \in Calls, GenerateAndSaveToken(c)
    PROVE  Authorised(c)
<1>1. Typed /\ req[c].op = "Login" /\ pc[c] = "token"
  BY DEF UserInv, CallOK, KindOK, GenerateAndSaveToken
<1>2. loc[c].row \in RowsOf(req[c].name) /\ users[loc[c].row].pw = req[c].pw
  BY <1>1 DEF UserInv, CallOK, LoginOK
<1>3. clock' \in Int /\ (SetDone(loc[c].row, clock') \/ SetFails(c, loc[c].row, clock'))
  BY <1>1 DEF GenerateAndSaveToken, Typed
<1>4. pc'[c] = "idle"
  BY <1>1 DEF GenerateAndSaveToken, Return, Goto, Typed
<1>5. \A u \in Ids : redis'[u] # redis[u] => u = loc[c].row /\ redis'[u] = clock'
  BY <1>1, <1>3, SetEffect
<1> QED
  BY <1>1, <1>2, <1>4, <1>5 DEF Authorised, SignedIn

LEMMA VerifyWrites ==
    ASSUME UserInv, NEW c \in Calls, VerifyToken(c)
    PROVE  Authorised(c)
<1>1. Typed /\ req[c].op \in {"Logout", "VerifyToken"} /\ pc[c] = "verify"
  BY DEF UserInv, CallOK, KindOK, VerifyToken
<1>2. req[c].token \in Int
  BY <1>1, HasRequest, RequestFields DEF Tokens, NoToken
<1>3. pc'[c] \in {"idle", "delete"}
  BY <1>1 DEF VerifyToken, Return, Continue, Goto, Typed
<1>4. CASE redis' = redis
  BY <1>4 DEF Authorised
<1>5. CASE /\ req[c].token # NoToken
           /\ \/ SetDone(req[c].uid, req[c].token)
              \/ SetFails(c, req[c].uid, req[c].token)
  <2>1. \A u \in Ids : redis'[u] # redis[u] => u = req[c].uid /\ redis'[u] = req[c].token
    BY <1>1, <1>2, <1>5, SetEffect
  <2> QED
    BY <1>1, <1>3, <1>5, <2>1 DEF Authorised, Presented
<1> QED
  BY <1>4, <1>5 DEF VerifyToken

LEMMA DeleteWrites ==
    ASSUME UserInv, NEW c \in Calls, DeleteToken(c)
    PROVE  Authorised(c)
<1>1. Typed /\ req[c].op = "Logout" /\ pc[c] = "delete" /\ req[c].token # NoToken
  BY DEF UserInv, CallOK, KindOK, LogoutOK, DeleteToken
<1>2. pc'[c] = "idle"
  BY <1>1 DEF DeleteToken, Return, Goto, Typed
<1>3. SetDone(req[c].uid, NoToken) \/ SetFails(c, req[c].uid, NoToken)
  BY DEF DeleteToken, DelDone, DelFails
<1>4. \A u \in Ids : redis'[u] # redis[u] => u = req[c].uid /\ redis'[u] = NoToken
  BY <1>1, <1>3, SetEffect DEF NoToken
<1> QED
  BY <1>1, <1>2, <1>4 DEF Authorised, Presented

-----------------------------------------------------------------------------
(* The properties.                                                         *)

(* The inductive invariant: rows are unique by name, friends exist, and    *)
(* what each call has in hand agrees with the tables.                      *)
THEOREM UserInvariant == Spec => []UserInv
BY InitInv, NextInv, PTL DEF Spec

(* AuthService::Register gives a client the id of a row with its name and  *)
(* password that no other client was given, however many registrations of  *)
(* the name test and insert at the same time.                              *)
THEOREM UserRegistrationOwn == Spec => []RegistrationOwn
<1>1. UserInv => RegistrationOwn
  BY DEF UserInv, CallOK, UniqueNames, IdsDistinct, RegisterOK, Registered, RegistrationOwn
<1> QED
  BY <1>1, UserInvariant, PTL

(* Every verdict of AuthService::Register and Login has its reason in the  *)
(* table, in another registration that came in between, or in a fault.     *)
THEOREM UserVerdictsRight == Spec => []VerdictsRight
<1>1. UserInv => VerdictsRight
  BY DEF UserInv, CallOK, RegisterOK, LoginOK, AllLater, VerdictsRight
<1> QED
  BY <1>1, UserInvariant, PTL

(* TokenManager: the session of a user changes only by expiry, by a Login  *)
(* whose name and password are those of the user's row, or by a call that  *)
(* presented a token for the user, and is ended by a Logout only.          *)
THEOREM UserSessionsAuthorised == Spec => SessionsAuthorised
<1> DEFINE A == \A u \in Ids : redis'[u] # redis[u] =>
                  \/ redis'[u] = NoToken /\ UNCHANGED pc
                  \/ \E c \in Calls :
                        pc'[c] # pc[c] /\ (SignedIn(c, u) \/ Presented(c, u))
<1>1. UserInv /\ [Next]_vars => [A]_vars
  <2> SUFFICES ASSUME UserInv, [Next]_vars PROVE A
    OBVIOUS
  <2>0. Typed
    BY DEF UserInv
  <2>1. ASSUME NEW c \in Calls, GenerateAndSaveToken(c) PROVE A
    BY <2>1, TokenWrites DEF Authorised
  <2>2. ASSUME NEW c \in Calls, VerifyToken(c) PROVE A
    BY <2>2, VerifyWrites DEF Authorised
  <2>3. ASSUME NEW c \in Calls, DeleteToken(c) PROVE A
    BY <2>3, DeleteWrites DEF Authorised
  <2>4. ASSUME NEW u \in Ids, Expire(u) PROVE A
    BY <2>0, <2>4, SetKeyEffect DEF Expire, NoToken
  <2>5. CASE redis' = redis
    BY <2>5
  <2>6. ASSUME NEW c \in Calls, Request(c) \/ Step(c) PROVE A
    BY <2>1, <2>2, <2>3, <2>5, <2>6 DEF Step, Request, FindByUsername, Insert, FindTarget,
       IsFriend, AddFriend, CountFriends, PageFriends, ResolveFriends, stores
  <2>7. CASE UNCHANGED vars
    BY <2>5, <2>7 DEF vars, stores
  <2> QED
    BY <2>4, <2>6, <2>7 DEF Next
<1> QED
  BY <1>1, UserInvariant, PTL DEF Spec, SessionsAuthorised

(* FriendService::AddFriend: entries name other users who exist, a TRUE is *)
(* in the table and a FALSE was due or follows a fault.                    *)
THEOREM UserFriendsRecorded == Spec => []FriendsRecorded
<1>1. UserInv => FriendsRecorded
  BY DEF UserInv, CallOK, FriendsExist, FriendOK, FriendsRecorded
<1> QED
  BY <1>1, UserInvariant, PTL

(* FriendService::GetFriendList lists friends only, whatever failed; and,  *)
(* when nothing did, none twice, at most a page and no less than the total *)
(* it returns promises.                                                    *)
THEOREM UserPageExact == Spec => []PageExact
<1>1. UserInv => PageExact
  <2> SUFFICES ASSUME UserInv, NEW c \in Calls, Returned(c, "GetFriendList")
               PROVE  LET listed == {i \in Ids : loc[c].list[i] > 0} IN
                      /\ listed \subseteq FriendsOf(req[c].uid) \intersect DOMAIN users
                      /\ ~hist[c].fault /\ req[c].page > 0 =>
                            /\ \A i \in Ids : loc[c].list[i] <= 1
                            /\ Cardinality(listed) <= PageSize
                            /\ Cardinality(listed) >=
                                  Min({PageSize, loc[c].total - (req[c].page - 1) * PageSize})
    BY DEF PageExact
  <2>1. ListOK(c) /\ FriendsExist
    BY DEF UserInv, CallOK
  <2>2. Listed(c) \subseteq FriendsOf(req[c].uid) \intersect DOMAIN users
    BY <2>1 DEF ListOK, FriendsExist, FriendsOf
  <2>3. Due(c) = Min({PageSize, loc[c].total - (req[c].page - 1) * PageSize})
    BY DEF Due, Offset
  <2> QED
    BY <2>1, <2>2, <2>3 DEF ListOK, Listed, Undisturbed
<1> QED
  BY <1>1, UserInvariant, PTL

=============================================================================

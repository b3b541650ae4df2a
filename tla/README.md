# Verification of the chat system

TLA+ models of the services in this repository, TLC runs that check them on
small instances, and TLAPS proofs that carry the most important results to every
size. `PROJECT.json` lists the runs, what each definition stands for in the
source, the hazards the properties are aimed at, and the theorems.

## The system and its parts

| part | state | operations | how it interacts | what makes it correct |
|---|---|---|---|---|
| MySQL pool (`common/src/db/mysql_pool.cpp`) | queue of idle connections, two atomics, a mutex, a condition variable | Initialize, AcquireConnection, ReleaseConnection, Shutdown, guard | shared by all DAO threads of a service | a connection has one user; none is lost; nobody sleeps beside an idle one; shutdown lets everybody go |
| Retry executor (`common/src/utils/retry.h`) | an attempt counter | ExecuteWithRetry, ExecuteWithRetryVoid | wraps every DAO call and both RPCs | bounded attempts; a lost answer is executed again |
| Message service (`message/src`) | documents in MongoDB, rows in MySQL | SaveMessage, PullOfflineMessages | called by the logic service | no row without body; own and growing numbers; pulls agree with the index |
| Gateway (`gateway/src`) | connections, timers, io threads | accept, read, route, forward, write, heartbeat, stop, run | one thread pool runs the handlers of all connections, RPC to the logic service | one reader per connection; silent connections are closed and released; replies are not overwritten under clients that wait |
| Logic service (`logic`) | none of its own | SendMessage, validation, filtering, SaveMsg | between gateway and message service | refused messages are never stored; an acknowledged one is |
| Sensitive filter (`logic/src/sensitive_filter.cpp`) | a trie, filled before the server starts | HasSensitiveWord, Filter | called by ProcessSend | detection exact, nothing sensitive left, nothing else changed |
| User service (`user/src`) | users and friends in MySQL, tokens in Redis | Register, Login, Logout, AddFriend, GetFriendList | uses the MySQL pool and Redis | one account per name, verdicts that fit the tables, friend entries that name existing users, pages that agree with their total |
| Push service (`push`, `common/src/mq`) | a queue in RabbitMQ | Subscribe, HandleIncomingPushTask | consumes what the logic service should publish | nothing acknowledged unhandled; consumption goes on |
| Configuration (`common/src/config`) | a map of flattened keys; while loading, two stacks and a counter per list | Load, GetString, GetInt, GetStringList | read by every main | getters return what the file says |
| Redis client, logger, utilities (`common/src`) | a connection | Set, Get, Delete | used by the user service | as part of `UserService`; the rest is formatting |
| HTTP gateway (`gateway/src/http_server.cpp`) | connections that read once and answer once | accept, read, write | shares the io threads of the TCP gateway | requests are answered although TCP handlers block and lose threads |
| Admin service (`admin/src`) | none | fixed answers | none | not modelled: stateless |

What is hard here: threads of a pool meeting at a mutex while a flag changes
outside of it; handlers of one connection running on several threads without a
strand; two stores written without a transaction; retries nested three deep with
deadlines shorter than what they wait for; exceptions that leave a handler and
take a thread with them.

## Modules

| module | stands for | extended by |
|---|---|---|
| `MysqlPool` | the pool, the guard and the retry loop of a DAO | `MCMysqlPool`, `MysqlPoolProofs` |
| `MessageStore` | SaveMessage and PullOfflineMessages over both DAOs | `MCMessageStore`, `MessageStoreProofs` |
| `TcpGateway` | TcpServer, TcpConnection, HttpServer, HttpConnection, GatewayServer, signal handling | `TcpGatewayProofs` |
| `MessageDelivery` | abstract: what a client is promised about its messages | refined by `SendPipeline` |
| `SendPipeline` | gateway, logic and message service, one connection's requests through all three | `MCSendPipeline`, `SendPipelineProofs` |
| `UserService` | AuthService, TokenManager, RedisClient, FriendService and their DAOs | `MCUserService`, `UserServiceProofs` |
| `PushConsumer` | StartPushService, Subscribe and PushManager, with the queue they consume | `MCPushConsumer`, `PushConsumerProofs` |
| `ConfigLoader` | ConfigManager: Load line by line, GetString, GetStringList | `MCConfigLoader`, `ConfigLoaderProofs` |
| `SensitiveFilter` | the trie and the loops of HasSensitiveWord and Filter | `MCSensitiveFilter`, `SensitiveFilterProofs` |

Definitions named after a deviation and commented `Fault:` are variants of the
definition that follows them, as a plausible bug would have it. No
specification uses them; they show that each property can fail.

### MysqlPool

`pool_`, `mtx_`, `initialized_` and `shutdown_` are the members; `sleeping` is the
wait set of `cv_`; `pc`, `conn`, `threw` and `attempt` are a thread's place in a
DAO method, its guard's connection, whether its lambda threw, and the retry
counter. The critical sections are split at each read of `shutdown_`, because
Shutdown sets the flag before it locks the mutex: `WaitTest` and `Take` are two
steps of AcquireConnection, `ReleaseDecide` and `ReleasePush` two of
ReleaseConnection. The wait condition may wake spuriously. `front` on an empty
queue is undefined in C++ and is an arbitrary connection in the model;
`FrontDefined` shows that this never happens.

### MessageStore

`SEQ_<ms>_<id>` is abstracted to `id`, the part that FetchOfflineMsgIds reads back.
A statement succeeds, fails without effect, or takes effect and loses its answer;
a connection can break and is returned to the pool as it is. `bodies` counts the
documents of a message (insert_one does not look for an existing one). `by`,
`floor`, `faulty`, `clean` and `due` are history, read by properties only. `Init`
admits the shipped schema (`uniqueKey` is TRUE) and one without the key
`idx_receiver_seq`: `CREATE TABLE IF NOT EXISTS` leaves an older table as it is, and
with the key hardly any message is stored (first finding), so that the other
properties would say little. A pull takes its pooled connection for the
duration of one step. Two things are left out: `created_at` is bound to an integer
of milliseconds, which a server in strict mode rejects for a TIMESTAMP column
(every insert would then fail), and the result of a pull carries neither seq_id
nor order nor the repetitions that a BatchGet retried half way leaves in it.

### TcpGateway

One `Tick` is the 5 s period of the heartbeat timer; `age` is the time since
`last_active_time_`, in ticks, and stops counting above the timeout. `job` is what
each io thread executes. A read is armed, or has completed and its handler waits
in the queue (`"data"`): such a handler is run even when Stop comes first. The
handlers are split where another thread can interfere: the test and the arming
in CheckHeartbeat, the parse and the RPC, and Start between its DoRead and
its CheckHeartbeat. A handler that lets an exception out takes its thread with
it. The unsynchronised accesses to `socket_` and `timer_` are data races; they are
modelled as atomic operations in any order. Not modelled as a fault of the
memory model is a torn `write_msg_`: a reply whose buffer was replaced while it
was being sent is `"clobbered"`.

Requests are not framed: async_read_some takes what is there, at most the 1024
bytes of `read_buffer_`, and every read is parsed and answered as if it were one
request. `inbox` therefore counts pieces, a request is sent in any number of them,
and `ReadReady` takes any number of those that have arrived: a part of a request,
all of it, or several at once. A request that is longer than the buffer or arrives
in parts has several replies (errors, as a part is no JSON document), and the
second Send may overwrite `write_msg_` under the first although the client waits.
`OrderlyRepliesIntact` therefore speaks of clients that wait for each reply and
whose requests were each taken by one read; for others replies do get lost. Which
kind a client is shows as it goes: `orderly` is history and becomes FALSE when the
client sends before it has its reply, when a read leaves a piece behind, or when a
jsoncpp accessor throws. When
Start throws, because the peer has already gone, async_accept is never armed
again (`AcceptThrows`): one such client ends the service to new ones.
`AcceptingUnlessPeerGone` shows that nothing else does. While all threads are
blocked in RPCs the data of an active client waits, after which the timer handler
may be the first to run and close it; no text of the repository speaks of this.

An HTTP connection is its place in `http`: its handlers neither block nor throw, so
that each is one step, but they need a thread that is not inside a TCP handler.
There is no timer: a client that connects and sends nothing is kept until it goes
or the process ends, and `HttpAnswered` therefore speaks of requests that arrived.
A connection ends as `"answered"` when the response was written, and as `"closed"`
without one, which takes a client that has gone (`httpGone`: it closed its end or
its stream broke); only then do the read and the write fail. The server reads
once and answers whatever that read gave it, a part of a request as well.
Every request gets the same status document, also those for which the
repository's documentation describes an API of the gateway.

### SendPipeline and MessageDelivery

A request is forwarded up to `GMax + 1` times and each forward calls SaveMsg up to
`LMax + 1` times. Each call may not arrive, may be answered, or may be given up
while its handler goes on. SaveMsg is taken as what `MessageStore` establishes:
it inserts rows with growing ids and returns the last one it inserted, or
fails. The RPC handler of the message service is not in the repository
(`message/main.cpp` starts no server); it is assumed to answer an empty number
with an error code, as CallMessageServiceToSave expects. `MessageDelivery` states
the promise in three actions: a copy may be stored at any time, unless the
message is invalid; a client is acknowledged with the number of a stored copy,
larger than the numbers it got before; or it is told of a failure or nothing.
`SendPipeline` implements it with `rows`, `outcome` and `seq` mapped to themselves.

### ConfigLoader

A line is its indentation and a few tokens (words, `:`, `- `, quotes, `#`); the
loader takes the tokens apart as the code takes the characters, and Trim has
nothing left to do. Keys are words without a dot, so that a flattened key is
the sequence of its parts. `file` is what was read so far; each line is chosen when
it is read, so that a run covers every file of its length. `Flattened` is the
reference: the keys and values the indentation gives the same lines, found from
the lines alone and without stacks. `NestedRight` and `ListsInOrder` compare the two
after every line, for files in which no map has a sibling: for the others the
loader nests the second map in the first (fourth finding). This leaves out every
configuration file the repository ships, all of which have several sections; what
the two properties establish is that siblings are the only way to get a wrong key.

`StripInlineComment` runs before `Unquote` and does not look at quotes: of the line
`key: "a # b"` it leaves `key: "a`, and the value found is `"a`, with its quote. The
comment on top of `config_manager.cpp` lists quoted strings among what is supported,
and the one at `StripInlineComment` says that it avoids breaking values that include
`#`; this holds for a `#` without a space before it only, which is a part of a word in
the model. No shipped file has such a value. The model cuts as the code does; the
properties ask the value of a key only where it is `Whole`, and that a cut value
disturbs nothing else: its key, the keys and values of the other lines, and the
numbers of the items of its list.
 GetInt and GetBool only
convert what GetString finds. Text and numbers meet in two places: `Decimal` is the
std::to_string of an item's number, `Numerals` and `Stoi` are the words of digits that
GetStringList takes for a number and their values. `00` is one of them, so that two
keys may have one number; in which order their values come out is not determined,
and `ListsInOrder` leaves out maps with such keys (`Numbered`).

### SensitiveFilter

A trie node is its path. Each action is one turn of an inner or outer loop, with
the code's `i`, `j` and `node`. main fills the trie before it starts the server and
nothing changes it later, so calls do not interact. It is assumed that no
configured word contains `*` (none in the shipped configuration does): masking
could otherwise produce such a word.

### UserService

One action per statement: between two statements of a request the other requests
run. `users` is the table in the order of its ids, `friends` the pairs of
`user_friends`, `redis` the key `user:token:<id>` of each user. `pc`, `loc` and `out`
are a request's place, locals and answer; `hist` (a fault was met, rows seen at
the start) is read by properties only. Of a
read's retries only the outcome is kept, since an attempt that throws has no
effect: it is answered, or all attempts threw and the DAO returns its default,
which callers cannot tell from an empty result. The retries of writes are
steps, because an attempt can take effect and lose its answer. `Init` admits every
content that earlier runs of the service can leave behind; the bound `Seeded` says
whose friends and session may be there at the start. Clients
present tokens that were issued to them. VerifyToken is modelled as it is: the
lookup is commented out and marked MOCK, so that any token is accepted and
stored. `SessionsAuthorised` holds of the MOCK and would hold of the lookup beside
it: a session changes by expiry, by a Login with the right password, or by a call
that presented a token for this user; that the token must be the stored one is
what the MOCK does not test, and no property claims it. What Logout answers
when its DEL finds no key depends on the MOCK, and no property speaks of it. A page
of friends loses any of its entries when the lookups of their names fail. `UserDao::Update`, `UserDao::Delete` and `FriendDao::RemoveFriend` have no
caller and are left out. A page query has no ORDER BY and returns any page of the
right size.

### PushConsumer

`queue` and `unacked` are the broker's, `inbox` what the client library has
received, `envelope` and `pc` the loop of Subscribe. A channel may end at any time;
the broker then offers again what was not acknowledged, while the client may still
work through its inbox. BasicAck is not confirmed: on a channel that has ended it
throws or returns. After Subscribe has returned, `pc` is `"asleep"`; logic_simulator
then makes its two calls with texts of its own (`simulated` counts them) and nothing
is consumed. BasicConsume fails on a channel that has ended, before or while
Subscribe begins. The callback may throw before the push was sent or after it (both
clients build and log their result behind the request); Subscribe puts the message
back in either case, and the user may be notified again. The broker puts back what
was not acknowledged in any order. Publisher and broker are external: no code of the repository calls
Publish.

## Runs

| run | bounds | shows |
|---|---|---|
| `pool` | 3 threads, 1 connection, 1 retry | six safety invariants, calls end at shutdown, idle connections are taken. Three threads are needed for a wakeup to be stolen: one holds, one sleeps, one comes in. More connections (one of several connects failing among them) are covered by the proofs |
| `store_safety` | 2 saves, 2 messages, 2 users, 2 connections, 1 retry, 1 crash, limit 1 | index and bodies agree, numbers are own and grow, pulls are sound and complete |
| `store_fault_free` | 2 messages to 1 user, no crash | violation, first finding |
| `gateway` | 2 threads, 1 TCP and 1 HTTP client, timeout 1 tick, 2 pieces of requests under way | watching, one reader, intact replies, accepting, silent connections closed, stopped ones released, HTTP requests answered. Two pieces are two requests, or one that comes in two reads |
| `gateway_outage` | 2 threads, 2 clients | violation, second finding |
| `pipeline` | a refused and an accepted request, 1 retry in each layer | refinement of `MessageDelivery`, and every request settles. That numbers grow from one accepted request to the next is covered by the proof |
| `user_service` | 2 overlapping requests of any kind, 3 names, 2 passwords, pages of 1, 1 retry, user 1 seeded | accounts, verdicts and friend lists agree with the tables; sessions change only on a request entitled to it |
| `push` | 4 messages (one of each kind), prefetch 2, 2 broken channels or restarts, 1 exception of the callback | nothing lost, no push repeated without a break or an exception after it, everything consumed while Subscribe runs |
| `push_stops` | the same, 1 break | violation, third finding |
| `filter` | all dictionaries of up to 2 words of up to 3 letters over 2 letters, all contents of up to 4 characters | exactness, completeness, soundness, termination |
| `config` | all files of up to 5 lines out of 14: maps and values at three indentations, list items, quotes, colons in values, comments, quoted values with a `#`, a line that is not YAML | keys, values and lists are those the indentation gives, without sibling maps and up to quoted values cut at a `#`. Five lines are enough for three open maps that one line closes together, and for a list that is continued |
| `config_siblings` | files of up to 4 lines of `gateway_config.yaml` | violation, fourth finding |

One retry instead of three reaches every branch of the retry loop (first, last
and middle attempts differ only in the counter). Two calls, clients or requests
are the fewest that interfere; a third adds no new kind of interleaving. The
connections of the gateway meet only at the threads and at `accepting`: one of each
kind, and two threads, are enough for a connection's handlers to meet each other,
and `gateway_outage` has two TCP connections. The safety invariants are proved
for any number of each. One crash
separates what survives from what does not. In the pipeline one row per SaveMsg
execution is enough: copies arise from the retries of the callers as well.
Deadlock is not checked where the system may really stop: a pool after
shutdown, calls that have all returned, an exited gateway, settled requests.

### Fairness

- `MysqlPool`: strong fairness of each thread's steps and of Shutdown's drain:
  threads are scheduled, and a mutex that is free again and again is obtained.
  Nobody is obliged to call, to wake spuriously or to shut down.
- `TcpGateway`: time passes; a running handler ends (RPCs have a deadline and a
  bounded number of attempts); a handler that is ready again and again is run,
  since io_context queues handlers. Clients owe nothing.
- `SendPipeline`: weak fairness of the gateway's handler only, because its calls
  have deadlines. The other services may hang.
- `PushConsumer`: weak fairness of the main thread, the simulator and the broker's
  deliveries. Nobody is obliged to publish, and channels may break.
- `SensitiveFilter`: a thread inside a loop goes on.

## Findings

1. Every row of `message_index` gets an empty `seq_id`, and
   `idx_receiver_seq(receiver_id, seq_id)` is unique: a receiver can be sent one
   message, later ones are rejected (`store_fault_free`).
2. An outage of the logic service that outlasts the retries takes one io thread
   per request from the gateway, and the process ends when none is left
   (`gateway_outage`); the comment at the call says outages are tolerated.
3. After the first channel error Subscribe returns, and the loop behind it, which is
   said to go on consuming, only sleeps (`push_stops`: the channel ends as Subscribe
   begins, and what is published from then on stays in the queue). The process stays
   alive, so that `restart: always` does not help.
4. The loader closes a map only at a line indented less than its key, so that a
   second map at the same indentation becomes a part of the first
   (`config_siblings`): of the shipped files only the first section is found.
   The gateway logs with its default level and file, and the logic service filters
   its three default words instead of the configured ones. `ConfigManagerTest`,
   which expects a non-empty `log.level`, fails on this.

## Proofs

`MysqlPoolProofs` proves the six safety invariants of `pool` for any finite
set of threads, any set of connections and any number of retries, from
`PoolAssumption` alone. `PoolInv` is the inductive invariant. The safety invariants are not
inductive by themselves: that a connection has one holder needs to know who
holds one (`GuardHolds`), that front is defined needs that nobody else pops
between the test and the pop (`MutexOwned`, `TakeAllowed`), and that the drained
queue stays empty needs that a thread which decided to push did so before the
drain (`PushBeforeDrain`). `PoolInvStep` has one step per action. `NoLostWakeup`
is then shown inductive relative to `PoolInv`: a release adds one connection and
wakes one sleeper, and a thread leaves the awake set only with a connection or
when the queue is empty.

`SensitiveFilterProofs` proves the four invariants of `filter` for every
dictionary and every content. `FilterInv` relates the trie to the prefixes of the
words, the node of the walk to the text between `i` and `j`, and the positions left
of `i` to the words that may start there. Three lemmas carry the argument: a break
of the inner loop means that no word starts at `i` (`BreakIsClean`), going down a
level rules out the words of that length (`DescendUnfound`), and a marked node is
a word that stands at `i` (`MatchOccurs`).

`SendPipelineProofs` proves, from `PipelineAssumption` alone, that `SendPipeline`
keeps its types and implements `MessageDelivery`, for any requests and any
numbers of retries. `PipelineInv` is the inductive invariant. A step of the gateway
must be shown to acknowledge a stored row with a number larger than all the
client got before, and the handlers of abandoned calls make that far from
obvious: the answer a logic handler gives must be traced to the SaveMsg call it
waited for and from there to a row of the same request; calls of later
requests, which have not begun, must have no handlers and no rows; and a number
that was acknowledged must be smaller than every row inserted for later requests.
`LogicCheck` is the only place where validity is tested, so that the invariant also
says that a handler past it belongs to an accepted request.

`TcpGatewayProofs` proves the five invariants of `gateway` for any number of io
threads, TCP and HTTP connections, any timeout and any number of requests under
way, from `GatewayAssumption`. `GatewayInv` is the inductive invariant.
`HeartbeatWatches` and `AcceptingUnlessPeerGone` are inductive beside the types. One
reader needs that a connection which was not started has neither a read nor a
read handler (`NotStarted`). Intact replies need to know where the one request of
an orderly client is (`OneAtATime`): all its pieces in the inbox, in the completed
read or in a handler, in which case nothing is being sent, or already answered by
the only reply; and in each case the client waits. A step moves at most one thread from one
job to another (`Moves`); the rest of each case is about one connection.

`MessageStoreProofs` proves the types and the six invariants of `store_safety` for any
calls, messages, users and connections, any retry limit and number of crashes, from
`StoreAssumption`; `StoreCopiesNeedFaults` also supposes that the set of calls is
finite, since it counts them. `StoreInv` is the inductive invariant. LAST_INSERT_ID
belongs to a connection and is read one statement after the insert: that it is the
caller's own number needs that nobody else uses the connection in between (`Owned`,
with broken connections and crashes), and that the row it names was stored by this
call after it began (`CallsFounded`). That every row has a body (`RowsFounded`)
follows from the order of the two DAOs; it must survive retries that store a second
row or a second document. Numbers grow because the largest one that was returned is
below the counter (`FloorBelow`). For the pull, `PullFounded` ties what was collected
so far to the rows its query found: their bodies are there and stay. Copies are bounded by counting: without faults a message has at most as
many documents as calls past the insert (`BodiesCounted`), and a call at most one
row (`OneRowEach`).

`PushConsumerProofs` proves the types, `NoneLost` and `PushesDue` for any finite set
of messages, any prefetch window and any number of broken channels and exceptions,
from `PushAssumption`. `PushInv` adds where a message can be (`Located`): on an open
channel what the client has and has not answered is unacknowledged at the broker;
on a broken one the same message may be in the queue again and still in the inbox,
which is where repeated pushes come from. `PushesPaid` bounds them by an invariant
that looks ahead: a message that can still be pushed on the present channel has
been pushed at most `breaks + throws` times, any other at most once more.

`UserServiceProofs` proves the four invariants and the action property of
`user_service` for any calls, any finite set of names, any passwords, page size and
retries, from `UserServiceAssumption`. `UserInv` says for each statement of a request what the
statements before it have established and nobody can undo (`RegisterOK`, `LoginOK`,
`LogoutOK`, `FriendOK`, `ListOK`). Tests that others can overtake give only weak
facts: after Register has looked for the name, the rows of that name, if there are
any, came in later (`AllLater`), and the unique key alone makes sure that there is
one. That a token is stored for the right user needs what Login found a statement
earlier (`LoginOK`); rows do not change, so it still holds when the SET is executed.
A page is compared with the total that was read in the statement before: since
friends are only ever added, the total is at most the present number.

`ConfigLoaderProofs` proves `NestedRight` and `ListsInOrder` for files of any length
and any lines, from `ConfigAssumption`: which words are keys and values, and that
std::stoi undoes std::to_string. The argument has three parts. Each kind of line is
taken apart into what its author wrote, up to the first `#` of its value
(`ContentIs`, `LineKinds`): a comment behind a line, and the marks before its value,
leave the cut where it is (`CutBefore`, `CutBehind`). The stacks of Load hold the open maps in the order of their lines,
where a map is open while no line was indented less (`Stacked`), also in files with
siblings; without siblings, these are the maps that the next line is in
(`NewAncestors`), so that the prefix in front of its key is right (`NewPlace`). And
the counters count the items of each list, the map holds what was set last
(`Counted`, `Mapped`): a further line changes neither the place nor the key of an
earlier one (`OldKeys`). Lists are then in order because the numbers of their items
are `0..(n-1)` in the order of the lines (`ListLinesOrder`, `SortedNumerals`).

The inductive invariants were checked by TLC first: `StoreInv` on 2 043 080 states,
`PushInv` on 178 908, `UserInv` on 1 864 996, `ConfigInv` on 82 744. Induction over
numbers is done by a smallest counterexample (`ListsExists` in `ConfigLoaderProofs`),
since induction principles with an operator as parameter cannot be used.

Only model-checked: liveness under fairness (out of the prover's reach), and the
numeric bounds in the `TypeOK` of `UserService`, for which `Typed` has the types
without bounds. The definitions of `TypeOK` in `MessageStore`, `UserService` and
`PushConsumer` record the types of the variables; no run lists them. The four
violations are counterexamples, and stay with TLC.

## Plan

Done: all modules of the table above; proofs of the safety invariants of all
passing runs.

Next, in this order:

1. An abstract allocator that `MysqlPool` implements, and the proof that it does.
2. The bounds of `TypeOK` in `UserService`.

## Not modelled

The admin service answers with fixed data and keeps no state; its connections
read once, answer once and close, like those of the HTTP gateway. Logger and
utilities format output. The facades (`message_sync`, `auth_manager`, ...) pass calls
on. DAO methods without a caller (`UserDao::Update`, `UserDao::Delete`,
`FriendDao::RemoveFriend`), GetBool and the publishing side of RabbitMQ are left out.
The MongoDB pool has an unlocked Shutdown beside GetConnection, but its only
caller is the destructor of the static instance, after the last request: the
race cannot happen in the programs of the repository. The main functions load the
configuration and open pools and connections in sequence before they serve
anything; what happens when that fails is an early return.

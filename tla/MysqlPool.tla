----------------------------- MODULE MysqlPool -----------------------------
(***************************************************************************)
(* The MySQL connection pool of common/src/db/mysql_pool.cpp, shared by    *)
(* the threads of the user and message services.  Every DAO method uses it *)
(* in the same way: ExecuteWithRetry (common/src/utils/retry.h) runs a     *)
(* lambda that builds a MysqlConnectionGuard, executes its statements and  *)
(* lets the guard's destructor give the connection back, whether the       *)
(* lambda returns or throws.                                               *)
(*                                                                         *)
(* shutdown_ is an atomic that Shutdown sets before it takes mtx_, so the  *)
(* critical sections are split at their reads of it: another thread can    *)
(* set the flag while mtx_ is held.                                        *)
(*                                                                         *)
(* Initialize is called once per process, by Init of the service, before   *)
(* any worker thread exists; Shutdown is called by the destructor of the   *)
(* singleton.  Its second call returns at once and is not modelled.        *)
(***************************************************************************)
EXTENDS Integers, Sequences, Functions, FiniteSets

CONSTANTS
    Threads,      \* the worker threads that execute DAO operations
    Conns,        \* the pool_size connections that Initialize opens
    MaxRetries,   \* max_retries of ExecuteWithRetry (3 in every DAO)
    NoThread,     \* mtx_ is free
    NoConn        \* a null shared_ptr

ASSUME PoolAssumption ==
    /\ IsFiniteSet(Threads)
    /\ MaxRetries \in Nat
    /\ NoThread \notin Threads
    /\ NoConn \notin Conns

VARIABLES
    initialized_, \* the two atomics
    shutdown_,
    pool_,        \* the queue of idle connections
    mtx_,         \* the owner of the mutex, or NoThread
    sleeping,     \* threads blocked in cv_.wait and not yet notified
    mainPc,       \* where the main thread is in Initialize and Shutdown
    pc,           \* where each worker is
    conn,         \* conn_ of the worker's guard
    threw,        \* the worker's lambda ended with an exception
    attempt       \* attempt of ExecuteWithRetry

vars == <<initialized_, shutdown_, pool_, mtx_, sleeping, mainPc, pc, conn,
          threw, attempt>>

workerVars == <<pc, conn, threw, attempt>>

MainPcs == {"start", "connect", "abort", "failed", "serve", "down", "stopped"}

WorkerPcs == {"idle", "acquire", "test", "wait", "take", "use",
              "release", "decide", "push", "throw"}

(* The states in which a worker owns mtx_. *)
Locked == {"test", "take", "decide", "push"}

(* The states in which a worker is inside AcquireConnection. *)
Acquiring == {"acquire", "test", "wait", "take"}

(* The states in which a worker's guard owns a connection. *)
Holding == {"use", "release", "decide", "push"}

Init ==
    /\ initialized_ = FALSE
    /\ shutdown_ = FALSE
    /\ pool_ = <<>>
    /\ mtx_ = NoThread
    /\ sleeping = {}
    /\ mainPc = "start"
    /\ pc = [t \in Threads |-> "idle"]
    /\ conn = [t \in Threads |-> NoConn]
    /\ threw = [t \in Threads |-> FALSE]
    /\ attempt = [t \in Threads |-> 0]

-----------------------------------------------------------------------------
(* Initialize, run by main before the workers are started.                 *)

(* Enter Initialize: initialized_.exchange(true). *)
InitializeBegin ==
    /\ mainPc = "start"
    /\ initialized_' = TRUE
    /\ mainPc' = "connect"
    /\ UNCHANGED <<shutdown_, pool_, mtx_, sleeping, workerVars>>

(* One turn of the loop: connect, setSchema and push, without mtx_. *)
InitializeConnect ==
    /\ mainPc = "connect"
    /\ \E c \in Conns \ Range(pool_) : pool_' = Append(pool_, c)
    /\ UNCHANGED <<initialized_, shutdown_, mtx_, sleeping, mainPc, workerVars>>

(* pool_size connections are open: Initialize returns true. *)
InitializeDone ==
    /\ mainPc = "connect"
    /\ Range(pool_) = Conns
    /\ mainPc' = "serve"
    /\ UNCHANGED <<initialized_, shutdown_, pool_, mtx_, sleeping, workerVars>>

(* connect or setSchema throws. *)
InitializeThrows ==
    /\ mainPc = "connect"
    /\ Range(pool_) # Conns
    /\ mainPc' = "abort"
    /\ UNCHANGED <<initialized_, shutdown_, pool_, mtx_, sleeping, workerVars>>

(* The catch block, for which main exits with -1: drain under mtx_, reset  *)
(* the flag and return false.                                              *)
InitializeAbort ==
    /\ mainPc = "abort"
    /\ mtx_ = NoThread
    /\ pool_' = <<>>
    /\ initialized_' = FALSE
    /\ mainPc' = "failed"
    /\ UNCHANGED <<shutdown_, mtx_, sleeping, workerVars>>

-----------------------------------------------------------------------------
(* Shutdown.                                                               *)

(* shutdown_.exchange(true), without mtx_. *)
ShutdownBegin ==
    /\ mainPc \in {"serve", "failed"}
    /\ shutdown_' = TRUE
    /\ mainPc' = "down"
    /\ UNCHANGED <<initialized_, pool_, mtx_, sleeping, workerVars>>

(* Fault: the drain does not take mtx_. *)
ShutdownDrainUnlocked ==
    /\ mainPc = "down"
    /\ pool_' = <<>>
    /\ sleeping' = {}
    /\ mainPc' = "stopped"
    /\ UNCHANGED <<initialized_, shutdown_, mtx_, workerVars>>

(* Under mtx_: drain pool_ and notify_all. *)
ShutdownDrain ==
    /\ mainPc = "down"
    /\ mtx_ = NoThread
    /\ pool_' = <<>>
    /\ sleeping' = {}
    /\ mainPc' = "stopped"
    /\ UNCHANGED <<initialized_, shutdown_, mtx_, workerVars>>

-----------------------------------------------------------------------------
(* A DAO operation of worker t.                                            *)

(* A DAO method is called; main starts workers after Initialize succeeded. *)
Call(t) ==
    /\ pc[t] = "idle"
    /\ initialized_
    /\ mainPc \in {"serve", "down", "stopped"}
    /\ pc' = [pc EXCEPT ![t] = "acquire"]
    /\ attempt' = [attempt EXCEPT ![t] = 0]
    /\ UNCHANGED <<initialized_, shutdown_, pool_, mtx_, sleeping, mainPc,
                   conn, threw>>

(* The guard's constructor: AcquireConnection locks mtx_. *)
AcquireLock(t) ==
    /\ pc[t] = "acquire"
    /\ mtx_ = NoThread
    /\ mtx_' = t
    /\ pc' = [pc EXCEPT ![t] = "test"]
    /\ UNCHANGED <<initialized_, shutdown_, pool_, sleeping, mainPc, conn,
                   threw, attempt>>

(* Fault: the predicate ignores the flag. *)
WaitPredicateNoFlag ==
    pool_ # <<>>

(* The predicate of cv_.wait. *)
WaitPredicate ==
    pool_ # <<>> \/ shutdown_

(* cv_.wait evaluates its predicate with mtx_ held: go on, or release mtx_ *)
(* and sleep, in one atomic step.                                          *)
WaitTest(t) ==
    /\ pc[t] = "test"
    /\ \/ /\ WaitPredicate
          /\ pc' = [pc EXCEPT ![t] = "take"]
          /\ UNCHANGED <<mtx_, sleeping>>
       \/ /\ ~WaitPredicate
          /\ pc' = [pc EXCEPT ![t] = "wait"]
          /\ mtx_' = NoThread
          /\ sleeping' = sleeping \union {t}
    /\ UNCHANGED <<initialized_, shutdown_, pool_, mainPc, conn, threw, attempt>>

(* A condition variable may wake a thread that nobody notified. *)
SpuriousWakeup(t) ==
    /\ t \in sleeping
    /\ sleeping' = sleeping \ {t}
    /\ UNCHANGED <<initialized_, shutdown_, pool_, mtx_, mainPc, workerVars>>

(* Fault: wait without a predicate, the woken thread takes a connection.   *)
WakeUnchecked(t) ==
    /\ pc[t] = "wait"
    /\ t \notin sleeping
    /\ mtx_ = NoThread
    /\ mtx_' = t
    /\ pc' = [pc EXCEPT ![t] = "take"]
    /\ UNCHANGED <<initialized_, shutdown_, pool_, sleeping, mainPc, conn,
                   threw, attempt>>

(* A woken thread locks mtx_ again and returns to the predicate. *)
Wake(t) ==
    /\ pc[t] = "wait"
    /\ t \notin sleeping
    /\ mtx_ = NoThread
    /\ mtx_' = t
    /\ pc' = [pc EXCEPT ![t] = "test"]
    /\ UNCHANGED <<initialized_, shutdown_, pool_, sleeping, mainPc, conn,
                   threw, attempt>>

(* Fault: front without pop. *)
TakeWithoutPop(t) ==
    /\ pc[t] = "take"
    /\ mtx_' = NoThread
    /\ IF shutdown_
         THEN /\ pc' = [pc EXCEPT ![t] = "throw"]
              /\ UNCHANGED conn
         ELSE /\ pc' = [pc EXCEPT ![t] = "use"]
              /\ conn' = [conn EXCEPT ![t] = Head(pool_)]
    /\ UNCHANGED <<initialized_, shutdown_, pool_, sleeping, mainPc, threw, attempt>>

(* The rest of AcquireConnection.  With the flag set the DAO gets a null   *)
(* connection and throws; otherwise front and pop.  front of an empty      *)
(* queue is undefined: the thread then holds some connection.              *)
Take(t) ==
    /\ pc[t] = "take"
    /\ mtx_' = NoThread
    /\ \/ /\ shutdown_
          /\ pc' = [pc EXCEPT ![t] = "throw"]
          /\ UNCHANGED <<pool_, conn>>
       \/ /\ ~shutdown_
          /\ pc' = [pc EXCEPT ![t] = "use"]
          /\ \/ /\ pool_ # <<>>
                /\ conn' = [conn EXCEPT ![t] = Head(pool_)]
                /\ pool_' = Tail(pool_)
             \/ /\ pool_ = <<>>
                /\ \E c \in Conns : conn' = [conn EXCEPT ![t] = c]
                /\ UNCHANGED pool_
    /\ UNCHANGED <<initialized_, shutdown_, sleeping, mainPc, threw, attempt>>

(* Fault: the connection is given back on the normal path only. *)
ExecuteLeaks(t) ==
    /\ pc[t] = "use"
    /\ \/ /\ pc' = [pc EXCEPT ![t] = "release"]
          /\ threw' = [threw EXCEPT ![t] = FALSE]
          /\ UNCHANGED conn
       \/ /\ pc' = [pc EXCEPT ![t] = "throw"]
          /\ conn' = [conn EXCEPT ![t] = NoConn]
          /\ UNCHANGED threw
    /\ UNCHANGED <<initialized_, shutdown_, pool_, mtx_, sleeping, mainPc, attempt>>

(* The statements of the lambda: they succeed or throw, and either way the *)
(* guard's destructor runs next.                                           *)
Execute(t) ==
    /\ pc[t] = "use"
    /\ pc' = [pc EXCEPT ![t] = "release"]
    /\ \E b \in BOOLEAN : threw' = [threw EXCEPT ![t] = b]
    /\ UNCHANGED <<initialized_, shutdown_, pool_, mtx_, sleeping, mainPc,
                   conn, attempt>>

(* ReleaseConnection locks mtx_. *)
ReleaseLock(t) ==
    /\ pc[t] = "release"
    /\ mtx_ = NoThread
    /\ mtx_' = t
    /\ pc' = [pc EXCEPT ![t] = "decide"]
    /\ UNCHANGED <<initialized_, shutdown_, pool_, sleeping, mainPc, conn,
                   threw, attempt>>

(* Where the worker goes when the guard is gone. *)
AfterRelease(t) == IF threw[t] THEN "throw" ELSE "idle"

(* ReleaseConnection reads the flag: if it is set the connection is        *)
(* dropped, with its last reference.                                       *)
ReleaseDecide(t) ==
    /\ pc[t] = "decide"
    /\ \/ /\ shutdown_
          /\ pc' = [pc EXCEPT ![t] = AfterRelease(t)]
          /\ conn' = [conn EXCEPT ![t] = NoConn]
          /\ mtx_' = NoThread
       \/ /\ ~shutdown_
          /\ pc' = [pc EXCEPT ![t] = "push"]
          /\ UNCHANGED <<conn, mtx_>>
    /\ UNCHANGED <<initialized_, shutdown_, pool_, sleeping, mainPc, threw, attempt>>

(* Fault: a connection is given back without a notification. *)
NotifyNone ==
    UNCHANGED sleeping

(* cv_.notify_one: any one of the blocked threads. *)
NotifyOne ==
    \/ /\ sleeping = {}
       /\ UNCHANGED sleeping
    \/ \E w \in sleeping : sleeping' = sleeping \ {w}

(* Push, notify_one, unlock. *)
ReleasePush(t) ==
    /\ pc[t] = "push"
    /\ pool_' = Append(pool_, conn[t])
    /\ NotifyOne
    /\ pc' = [pc EXCEPT ![t] = AfterRelease(t)]
    /\ conn' = [conn EXCEPT ![t] = NoConn]
    /\ mtx_' = NoThread
    /\ UNCHANGED <<initialized_, shutdown_, mainPc, threw, attempt>>

(* Fault: one attempt too many. *)
RetryOnceMore(t) ==
    /\ pc[t] = "throw"
    /\ pc' = [pc EXCEPT ![t] = IF attempt[t] > MaxRetries THEN "idle" ELSE "acquire"]
    /\ attempt' = [attempt EXCEPT ![t] = IF @ > MaxRetries THEN @ ELSE @ + 1]
    /\ UNCHANGED <<initialized_, shutdown_, pool_, mtx_, sleeping, mainPc,
                   conn, threw>>

(* The catch blocks of ExecuteWithRetry: the last attempt rethrows to the  *)
(* DAO, which returns its failure value; the others sleep and try again.   *)
Retry(t) ==
    /\ pc[t] = "throw"
    /\ \/ /\ attempt[t] >= MaxRetries
          /\ pc' = [pc EXCEPT ![t] = "idle"]
          /\ UNCHANGED attempt
       \/ /\ attempt[t] < MaxRetries
          /\ pc' = [pc EXCEPT ![t] = "acquire"]
          /\ attempt' = [attempt EXCEPT ![t] = @ + 1]
    /\ UNCHANGED <<initialized_, shutdown_, pool_, mtx_, sleeping, mainPc,
                   conn, threw>>

-----------------------------------------------------------------------------
MainStep ==
    \/ InitializeBegin \/ InitializeConnect \/ InitializeDone
    \/ InitializeThrows \/ InitializeAbort
    \/ ShutdownBegin \/ ShutdownDrain

(* The steps a worker takes once it has been called. *)
WorkerStep(t) ==
    \/ AcquireLock(t) \/ WaitTest(t) \/ Wake(t) \/ Take(t) \/ Execute(t)
    \/ ReleaseLock(t) \/ ReleaseDecide(t) \/ ReleasePush(t) \/ Retry(t)

Next ==
    \/ MainStep
    \/ \E t \in Threads : Call(t) \/ SpuriousWakeup(t) \/ WorkerStep(t)

Spec == Init /\ [][Next]_vars

(* A runnable thread runs, a blocking lock() is granted in the end (strong *)
(* fairness: the mutex may be busy now and then), and Shutdown, once       *)
(* entered, goes on.  Nothing is assumed of new calls, of spurious wakeups *)
(* or of whether the process is ever shut down.                            *)
Fairness ==
    /\ SF_vars(ShutdownDrain)
    /\ \A t \in Threads : SF_vars(WorkerStep(t))

FairSpec == Spec /\ Fairness

-----------------------------------------------------------------------------
(* Types of the pool's fields and of the workers' states. *)
TypeOK ==
    /\ initialized_ \in BOOLEAN
    /\ shutdown_ \in BOOLEAN
    /\ pool_ \in Seq(Conns)
    /\ mtx_ \in Threads \union {NoThread}
    /\ sleeping \subseteq Threads
    /\ mainPc \in MainPcs
    /\ pc \in [Threads -> WorkerPcs]
    /\ conn \in [Threads -> Conns \union {NoConn}]
    /\ threw \in [Threads -> BOOLEAN]
    /\ attempt \in [Threads -> 0..MaxRetries]

Distinct(s) == \A i, j \in 1..Len(s) : i # j => s[i] # s[j]

(* A connection is never in two places: not twice in pool_, not held by    *)
(* two guards, not held while it is in pool_.  The connections are not     *)
(* thread safe, so two holders would interleave their statements.          *)
Exclusive ==
    /\ Distinct(pool_)
    /\ \A t \in Threads : conn[t] # NoConn => conn[t] \notin Range(pool_)
    /\ \A t, u \in Threads : t # u /\ conn[t] # NoConn => conn[t] # conn[u]

(* No connection is lost while the pool serves, whatever the statements    *)
(* throw: each is in pool_ or held by a guard.                             *)
NothingLost ==
    mainPc = "serve" =>
        \A c \in Conns : c \in Range(pool_) \/ \E t \in Threads : conn[t] = c

(* AcquireConnection calls front and pop on a non-empty queue only, though *)
(* the flag it tests next to the queue changes without mtx_.               *)
FrontDefined ==
    \A t \in Threads : pc[t] = "take" /\ ~shutdown_ => pool_ # <<>>

(* When Shutdown is over no connection is in pool_, no thread sleeps in    *)
(* cv_.wait, and no late ReleaseConnection or AcquireConnection changes    *)
(* that.                                                                   *)
QuietAfterShutdown ==
    mainPc = "stopped" => pool_ = <<>> /\ sleeping = {}

(* The inductive invariant behind the invariants above: who owns mtx_, who *)
(* holds a connection, who sleeps, and what the flag says of main.         *)
MutexOwned == \A t \in Threads : pc[t] \in Locked <=> mtx_ = t

GuardHolds == \A t \in Threads : conn[t] # NoConn <=> pc[t] \in Holding

SleepersWait == \A t \in sleeping : pc[t] = "wait"

FlagTellsMain == shutdown_ <=> mainPc \in {"down", "stopped"}

WorkersAfterInit ==
    ~initialized_ \/ mainPc \in {"start", "connect", "abort", "failed"} =>
        \A t \in Threads : pc[t] = "idle"

TakeAllowed == \A t \in Threads : pc[t] = "take" => pool_ # <<>> \/ shutdown_

PushBeforeDrain == \A t \in Threads : pc[t] = "push" => mainPc # "stopped"

PoolInv ==
    /\ TypeOK
    /\ MutexOwned
    /\ GuardHolds
    /\ SleepersWait
    /\ FlagTellsMain
    /\ WorkersAfterInit
    /\ TakeAllowed
    /\ PushBeforeDrain
    /\ Exclusive
    /\ NothingLost
    /\ QuietAfterShutdown

(* The threads that are inside AcquireConnection and not blocked. *)
Awake == {t \in Threads : pc[t] \in Acquiring /\ t \notin sleeping}

(* No lost wakeup: while a thread sleeps in cv_.wait, every idle           *)
(* connection has a thread awake that is on its way to take it.            *)
NoLostWakeup ==
    sleeping # {} /\ ~shutdown_ => Len(pool_) <= Cardinality(Awake)

(* No call hangs at shutdown: a thread that is in a DAO operation when the *)
(* flag is set returns from it, having used up its retries or not.         *)
CallsEndAtShutdown ==
    \A t \in Threads : shutdown_ /\ pc[t] # "idle" ~> pc[t] = "idle"

(* A connection does not stay idle while threads sleep for one. *)
IdleConnectionIsTaken ==
    pool_ # <<>> /\ sleeping # {} ~> pool_ = <<>> \/ sleeping = {}

=============================================================================

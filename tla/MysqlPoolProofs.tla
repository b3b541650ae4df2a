-------------------------- MODULE MysqlPoolProofs --------------------------
(***************************************************************************)
(* Proofs about MysqlPool: its safety invariants hold for any finite set   *)
(* of threads, any pool size and any number of retries.  PoolInv is the    *)
(* inductive invariant; the lemma PoolInvStep has one step per action.     *)
(***************************************************************************)
EXTENDS MysqlPool, FiniteSetTheorems, TLAPS

(* push of a connection that is not in the queue. *)
LEMMA AppendFacts ==
    ASSUME NEW S, NEW s \in Seq(S), NEW e \in S
    PROVE  /\ Append(s, e) \in Seq(S)
           /\ Len(Append(s, e)) = Len(s) + 1
           /\ Range(Append(s, e)) = Range(s) \union {e}
           /\ Distinct(s) /\ e \notin Range(s) => Distinct(Append(s, e))
<1>1. /\ Append(s, e) \in Seq(S)
      /\ Len(Append(s, e)) = Len(s) + 1
      /\ Len(s) \in Nat
      /\ \A i \in 1..Len(s) : Append(s, e)[i] = s[i]
      /\ Append(s, e)[Len(s) + 1] = e
      /\ DOMAIN s = 1..Len(s)
      /\ DOMAIN Append(s, e) = 1..(Len(s) + 1)
  OBVIOUS
<1>2. 1..(Len(s) + 1) = 1..Len(s) \union {Len(s) + 1}
  BY <1>1
<1>3. Range(Append(s, e)) = Range(s) \union {e}
  BY <1>1, <1>2 DEF Range
<1>4. Distinct(s) /\ e \notin Range(s) => Distinct(Append(s, e))
  BY <1>1, <1>2 DEF Distinct, Range
<1> QED
  BY <1>1, <1>3, <1>4

(* front and pop of a non-empty queue. *)
LEMMA TailFacts ==
    ASSUME NEW S, NEW s \in Seq(S), s # <<>>
    PROVE  /\ Head(s) \in S
           /\ Tail(s) \in Seq(S)
           /\ Len(Tail(s)) = Len(s) - 1
           /\ Range(s) = Range(Tail(s)) \union {Head(s)}
           /\ Distinct(s) => Distinct(Tail(s)) /\ Head(s) \notin Range(Tail(s))
<1>1. /\ Head(s) \in S
      /\ Tail(s) \in Seq(S)
      /\ Len(s) \in Nat \ {0}
      /\ Len(Tail(s)) = Len(s) - 1
      /\ Head(s) = s[1]
      /\ \A i \in 1..(Len(s) - 1) : Tail(s)[i] = s[i + 1]
      /\ DOMAIN s = 1..Len(s)
      /\ DOMAIN Tail(s) = 1..(Len(s) - 1)
  OBVIOUS
<1>2. Range(s) = Range(Tail(s)) \union {Head(s)}
  <2>1. ASSUME NEW i \in 1..Len(s) PROVE s[i] \in Range(Tail(s)) \union {Head(s)}
    <3>1. CASE i = 1
      BY <3>1, <1>1
    <3>2. CASE i # 1
      <4>1. i - 1 \in 1..(Len(s) - 1) /\ Tail(s)[i - 1] = s[i]
        BY <3>2, <1>1
      <4> QED BY <4>1, <1>1 DEF Range
    <3> QED BY <3>1, <3>2
  <2>2. ASSUME NEW i \in 1..(Len(s) - 1) PROVE Tail(s)[i] \in Range(s)
    <3>1. i + 1 \in 1..Len(s) /\ Tail(s)[i] = s[i + 1]
      BY <1>1
    <3> QED BY <3>1, <1>1 DEF Range
  <2>3. Head(s) \in Range(s)
    BY <1>1 DEF Range
  <2> QED BY <2>1, <2>2, <2>3, <1>1 DEF Range
<1>3. Distinct(s) => Distinct(Tail(s)) /\ Head(s) \notin Range(Tail(s))
  <2> SUFFICES ASSUME Distinct(s)
               PROVE  Distinct(Tail(s)) /\ Head(s) \notin Range(Tail(s))
    OBVIOUS
  <2>1. \A i \in 1..(Len(s) - 1) : i + 1 \in 1..Len(s) /\ i + 1 # 1 /\ 1 \in 1..Len(s)
    BY <1>1
  <2>2. Distinct(Tail(s))
    <3> SUFFICES ASSUME NEW i \in 1..(Len(s) - 1), NEW j \in 1..(Len(s) - 1), i # j
                 PROVE  Tail(s)[i] # Tail(s)[j]
      BY <1>1 DEF Distinct
    <3>1. i + 1 # j + 1
      OBVIOUS
    <3>2. s[i + 1] # s[j + 1]
      BY <3>1, <2>1 DEF Distinct
    <3> QED BY <3>2, <1>1
  <2>3. Head(s) \notin Range(Tail(s))
    BY <2>1, <1>1 DEF Distinct, Range
  <2> QED BY <2>2, <2>3
<1> QED
  BY <1>1, <1>2, <1>3

LEMMA EmptyFacts ==
    ASSUME NEW S
    PROVE  <<>> \in Seq(S) /\ Range(<<>>) = {} /\ Distinct(<<>>) /\ Len(<<>>) = 0
BY DEF Range, Distinct

(* Init satisfies the inductive invariant. *)
LEMMA PoolInvInit == Init => PoolInv
<1> SUFFICES ASSUME Init PROVE PoolInv
  OBVIOUS
<1> USE PoolAssumption DEF Init
<1>1. TypeOK
  <2>1. pool_ \in Seq(Conns) /\ attempt \in [Threads -> 0..MaxRetries]
    BY EmptyFacts
  <2> QED
    BY <2>1 DEF TypeOK, MainPcs, WorkerPcs
<1>2. MutexOwned /\ GuardHolds /\ SleepersWait
  BY DEF MutexOwned, GuardHolds, SleepersWait, Locked, Holding
<1>3. FlagTellsMain /\ WorkersAfterInit /\ TakeAllowed /\ PushBeforeDrain
  BY DEF FlagTellsMain, WorkersAfterInit, TakeAllowed, PushBeforeDrain
<1>4. Exclusive /\ NothingLost /\ QuietAfterShutdown
  BY EmptyFacts DEF Exclusive, NothingLost, QuietAfterShutdown
<1> QED
  BY <1>1, <1>2, <1>3, <1>4 DEF PoolInv

(* Every step preserves it. *)
LEMMA PoolInvStep == PoolInv /\ [Next]_vars => PoolInv'
<1> SUFFICES ASSUME PoolInv, [Next]_vars PROVE PoolInv'
  OBVIOUS
<1> USE PoolAssumption DEF PoolInv, TypeOK, MutexOwned, GuardHolds, SleepersWait, FlagTellsMain, WorkersAfterInit, TakeAllowed, PushBeforeDrain, Exclusive, NothingLost, QuietAfterShutdown, MainPcs, WorkerPcs, Locked, Holding, workerVars
<1>1. CASE InitializeBegin
  BY <1>1 DEF InitializeBegin
<1>2. CASE InitializeConnect
  <2>1. PICK c \in Conns \ Range(pool_) : pool_' = Append(pool_, c)
    BY <1>2 DEF InitializeConnect
  <2>2. /\ pool_' \in Seq(Conns)
        /\ Distinct(pool_')
        /\ \A t \in Threads : conn[t] = NoConn
    BY <2>1, <1>2, AppendFacts DEF InitializeConnect
  <2> QED
    BY <2>2, <1>2 DEF InitializeConnect
<1>3. CASE InitializeDone
  BY <1>3 DEF InitializeDone
<1>4. CASE InitializeThrows
  BY <1>4 DEF InitializeThrows
<1>5. CASE InitializeAbort
  BY <1>5, EmptyFacts DEF InitializeAbort
<1>6. CASE ShutdownBegin
  BY <1>6 DEF ShutdownBegin
<1>7. CASE ShutdownDrain
  BY <1>7, EmptyFacts DEF ShutdownDrain
<1>8. ASSUME NEW t \in Threads, Call(t) PROVE PoolInv'
  BY <1>8 DEF Call
<1>9. ASSUME NEW t \in Threads, SpuriousWakeup(t) PROVE PoolInv'
  BY <1>9 DEF SpuriousWakeup
<1>10. ASSUME NEW t \in Threads, AcquireLock(t) PROVE PoolInv'
  BY <1>10 DEF AcquireLock
<1>11. ASSUME NEW t \in Threads, WaitTest(t) PROVE PoolInv'
  <2>1. CASE WaitPredicate /\ pc' = [pc EXCEPT ![t] = "take"]
             /\ UNCHANGED <<mtx_, sleeping>>
    BY <2>1, <1>11 DEF WaitTest, WaitPredicate
  <2>2. CASE ~WaitPredicate /\ pc' = [pc EXCEPT ![t] = "wait"]
             /\ mtx_' = NoThread /\ sleeping' = sleeping \union {t}
    BY <2>2, <1>11 DEF WaitTest, WaitPredicate
  <2> QED
    BY <2>1, <2>2, <1>11 DEF WaitTest
<1>12. ASSUME NEW t \in Threads, Wake(t) PROVE PoolInv'
  BY <1>12 DEF Wake
<1>13. ASSUME NEW t \in Threads, Take(t) PROVE PoolInv'
  <2>1. CASE shutdown_
    <3>1. /\ pc[t] = "take"
          /\ pc' = [pc EXCEPT ![t] = "throw"]
          /\ mtx_' = NoThread
          /\ UNCHANGED <<initialized_, shutdown_, pool_, sleeping, mainPc, conn,
                         threw, attempt>>
      BY <2>1, <1>13 DEF Take
    <3> QED
      BY <3>1, <2>1
  <2>2. CASE ~shutdown_
    <3>1. /\ pool_ # <<>>
          /\ conn' = [conn EXCEPT ![t] = Head(pool_)]
          /\ pool_' = Tail(pool_)
          /\ pc' = [pc EXCEPT ![t] = "use"]
          /\ mtx_' = NoThread
          /\ UNCHANGED <<initialized_, shutdown_, sleeping, mainPc, threw, attempt>>
      BY <2>2, <1>13 DEF Take
    <3>2. /\ Head(pool_) \in Conns
          /\ pool_' \in Seq(Conns)
          /\ Range(pool_) = Range(pool_') \union {Head(pool_)}
          /\ Distinct(pool_') /\ Head(pool_) \notin Range(pool_')
      BY <3>1, TailFacts
    <3>3. mainPc # "stopped" /\ pc[t] = "take" /\ conn[t] = NoConn
      BY <2>2, <1>13 DEF Take
    <3>4. TypeOK' /\ MutexOwned' /\ GuardHolds' /\ SleepersWait'
      BY <3>1, <3>2, <3>3
    <3>5. FlagTellsMain' /\ WorkersAfterInit' /\ PushBeforeDrain' /\ QuietAfterShutdown'
      BY <3>1, <3>3
    <3>6. TakeAllowed'
      BY <3>1, <3>3
    <3>7. Exclusive' /\ NothingLost'
      BY <3>1, <3>2, <3>3
    <3> QED
      BY <3>4, <3>5, <3>6, <3>7
  <2> QED
    BY <2>1, <2>2
<1>14. ASSUME NEW t \in Threads, Execute(t) PROVE PoolInv'
  BY <1>14 DEF Execute
<1>15. ASSUME NEW t \in Threads, ReleaseLock(t) PROVE PoolInv'
  BY <1>15 DEF ReleaseLock
<1>16. ASSUME NEW t \in Threads, ReleaseDecide(t) PROVE PoolInv'
  <2>1. CASE shutdown_
    <3>1. /\ pc[t] = "decide"
          /\ pc' = [pc EXCEPT ![t] = AfterRelease(t)]
          /\ conn' = [conn EXCEPT ![t] = NoConn]
          /\ mtx_' = NoThread
          /\ UNCHANGED <<initialized_, shutdown_, pool_, sleeping, mainPc, threw, attempt>>
      BY <2>1, <1>16 DEF ReleaseDecide
    <3>2. AfterRelease(t) \in {"throw", "idle"}
      BY DEF AfterRelease
    <3>3. mainPc # "serve"
      BY <2>1
    <3> QED
      BY <3>1, <3>2, <3>3
  <2>2. CASE ~shutdown_
    <3>1. /\ pc[t] = "decide"
          /\ pc' = [pc EXCEPT ![t] = "push"]
          /\ UNCHANGED <<initialized_, shutdown_, pool_, sleeping, mainPc, conn,
                         mtx_, threw, attempt>>
      BY <2>2, <1>16 DEF ReleaseDecide
    <3>2. mainPc # "stopped"
      BY <2>2
    <3> QED
      BY <3>1, <3>2
  <2> QED
    BY <2>1, <2>2
<1>17. ASSUME NEW t \in Threads, ReleasePush(t) PROVE PoolInv'
  BY <1>17, AppendFacts DEF ReleasePush, NotifyOne, AfterRelease
<1>18. ASSUME NEW t \in Threads, Retry(t) PROVE PoolInv'
  <2>1. /\ pc[t] = "throw"
        /\ \E q \in {"idle", "acquire"} : pc' = [pc EXCEPT ![t] = q]
        /\ UNCHANGED <<initialized_, shutdown_, pool_, mtx_, sleeping, mainPc,
                       conn, threw>>
    BY <1>18 DEF Retry
  <2>2. attempt' \in [Threads -> 0..MaxRetries]
    <3>1. attempt[t] \in 0..MaxRetries
      OBVIOUS
    <3>2. \/ attempt' = attempt
          \/ attempt[t] < MaxRetries /\ attempt' = [attempt EXCEPT ![t] = attempt[t] + 1]
      BY <1>18 DEF Retry
    <3>3. attempt[t] < MaxRetries => attempt[t] + 1 \in 0..MaxRetries
      BY <3>1
    <3> QED
      BY <3>2, <3>3
  <2>3. PICK q \in {"idle", "acquire"} : pc' = [pc EXCEPT ![t] = q]
    BY <2>1
  <2>4. initialized_ /\ mainPc \notin {"start", "connect", "abort", "failed"}
    BY <2>1
  <2>5. pc' \in [Threads -> WorkerPcs]
    BY <2>3
  <2>6. \A u \in Threads : pc'[u] = pc[u] \/ (u = t /\ pc'[u] \in {"idle", "acquire"})
    BY <2>3
  <2>7. TypeOK' /\ FlagTellsMain' /\ WorkersAfterInit'
    BY <2>1, <2>2, <2>4, <2>5
  <2>8. MutexOwned' /\ GuardHolds' /\ SleepersWait' /\ TakeAllowed' /\ PushBeforeDrain'
    BY <2>1, <2>6
  <2>9. Exclusive' /\ NothingLost' /\ QuietAfterShutdown'
    BY <2>1
  <2> QED
    BY <2>7, <2>8, <2>9
<1>19. CASE UNCHANGED vars
  BY <1>19 DEF vars
<1> QED
  BY <1>1, <1>2, <1>3, <1>4, <1>5, <1>6, <1>7, <1>8, <1>9, <1>10, <1>11, <1>12, <1>13, <1>14, <1>15, <1>16, <1>17, <1>18, <1>19 DEF Next, MainStep, WorkerStep

(* For every set of threads, pool size and number of retries, PoolInv      *)
(* holds in every state of the pool.                                       *)
THEOREM PoolInvariant == Spec => []PoolInv
BY PoolInvInit, PoolInvStep, PTL DEF Spec

(* The fields keep their types; attempt never exceeds max_retries. *)
THEOREM PoolTypeCorrect == Spec => []TypeOK
<1>1. PoolInv => TypeOK
  BY DEF PoolInv
<1> QED
  BY <1>1, PoolInvariant, PTL

(* A connection never has two users. *)
THEOREM PoolExclusive == Spec => []Exclusive
<1>1. PoolInv => Exclusive
  BY DEF PoolInv
<1> QED
  BY <1>1, PoolInvariant, PTL

(* Exceptions in DAO lambdas do not shrink the pool. *)
THEOREM PoolNothingLost == Spec => []NothingLost
<1>1. PoolInv => NothingLost
  BY DEF PoolInv
<1> QED
  BY <1>1, PoolInvariant, PTL

(* front and pop are never called on an empty queue. *)
THEOREM PoolFrontDefined == Spec => []FrontDefined
<1>1. PoolInv => FrontDefined
  BY DEF PoolInv, TakeAllowed, FrontDefined
<1> QED
  BY <1>1, PoolInvariant, PTL

(* Once Shutdown is over the queue stays empty and nobody sleeps. *)
THEOREM PoolQuietAfterShutdown == Spec => []QuietAfterShutdown
<1>1. PoolInv => QuietAfterShutdown
  BY DEF PoolInv
<1> QED
  BY <1>1, PoolInvariant, PTL

(* A step that leaves the queue alone, puts nobody to sleep and lets no    *)
(* awake thread out of AcquireConnection keeps every connection claimed.   *)
LEMMA AwakeGrows ==
    ASSUME NoLostWakeup, Awake \subseteq Awake',
           sleeping' \subseteq sleeping, ~shutdown_' => ~shutdown_,
           pool_' = pool_, pool_ \in Seq(Conns)
    PROVE  NoLostWakeup'
<1>1. IsFiniteSet(Awake') /\ IsFiniteSet(Awake)
  BY PoolAssumption, FS_Subset DEF Awake
<1>2. Cardinality(Awake) \in Nat /\ Cardinality(Awake') \in Nat
      /\ Cardinality(Awake) <= Cardinality(Awake')
  BY <1>1, FS_Subset, FS_CardinalityType
<1>3. Len(pool_) \in Nat
  OBVIOUS
<1> QED
  BY <1>2, <1>3 DEF NoLostWakeup

(* Every step keeps an awake thread for every idle connection. *)
LEMMA NoLostWakeupStep ==
    PoolInv /\ NoLostWakeup /\ [Next]_vars => NoLostWakeup'
<1> SUFFICES ASSUME PoolInv, NoLostWakeup, [Next]_vars PROVE NoLostWakeup'
  OBVIOUS
<1> USE PoolAssumption
<1>a. /\ pool_ \in Seq(Conns) /\ Len(pool_) \in Nat
      /\ sleeping \subseteq Threads
      /\ pc \in [Threads -> WorkerPcs]
      /\ \A t \in sleeping : pc[t] = "wait"
  BY DEF PoolInv, TypeOK, SleepersWait
<1>b. IsFiniteSet(Awake) /\ Cardinality(Awake) \in Nat
  BY FS_Subset, FS_CardinalityType DEF Awake
<1>1. CASE InitializeBegin \/ InitializeConnect \/ InitializeDone
           \/ InitializeThrows \/ InitializeAbort
  <2>1. sleeping = {}
    BY <1>1, <1>a DEF InitializeBegin, InitializeConnect, InitializeDone,
       InitializeThrows, InitializeAbort, PoolInv, WorkersAfterInit
  <2> QED
    BY <2>1, <1>1 DEF InitializeBegin, InitializeConnect, InitializeDone,
       InitializeThrows, InitializeAbort, NoLostWakeup
<1>2. CASE ShutdownBegin \/ ShutdownDrain
  BY <1>2 DEF ShutdownBegin, ShutdownDrain, NoLostWakeup
<1>3. ASSUME NEW t \in Threads, Call(t) PROVE NoLostWakeup'
  <2>1. Awake \subseteq Awake'
    BY <1>3, <1>a DEF Call, Awake, Acquiring, workerVars
  <2> QED
    BY <2>1, <1>3, <1>a, AwakeGrows DEF Call
<1>4. ASSUME NEW t \in Threads, SpuriousWakeup(t) PROVE NoLostWakeup'
  <2>1. Awake \subseteq Awake'
    BY <1>4, <1>a DEF SpuriousWakeup, Awake, Acquiring, workerVars
  <2> QED
    BY <2>1, <1>4, <1>a, AwakeGrows DEF SpuriousWakeup
<1>5. ASSUME NEW t \in Threads, AcquireLock(t) PROVE NoLostWakeup'
  <2>1. Awake \subseteq Awake'
    BY <1>5, <1>a DEF AcquireLock, Awake, Acquiring, workerVars
  <2> QED
    BY <2>1, <1>5, <1>a, AwakeGrows DEF AcquireLock
<1>6. ASSUME NEW t \in Threads, Wake(t) PROVE NoLostWakeup'
  <2>1. Awake \subseteq Awake'
    BY <1>6, <1>a DEF Wake, Awake, Acquiring, workerVars
  <2> QED
    BY <2>1, <1>6, <1>a, AwakeGrows DEF Wake
<1>7. ASSUME NEW t \in Threads, Execute(t) PROVE NoLostWakeup'
  <2>1. Awake \subseteq Awake'
    BY <1>7, <1>a DEF Execute, Awake, Acquiring, workerVars
  <2> QED
    BY <2>1, <1>7, <1>a, AwakeGrows DEF Execute
<1>8. ASSUME NEW t \in Threads, ReleaseLock(t) PROVE NoLostWakeup'
  <2>1. Awake \subseteq Awake'
    BY <1>8, <1>a DEF ReleaseLock, Awake, Acquiring, workerVars
  <2> QED
    BY <2>1, <1>8, <1>a, AwakeGrows DEF ReleaseLock
<1>9. ASSUME NEW t \in Threads, Retry(t) PROVE NoLostWakeup'
  <2>1. Awake \subseteq Awake'
    BY <1>9, <1>a DEF Retry, Awake, Acquiring, workerVars
  <2> QED
    BY <2>1, <1>9, <1>a, AwakeGrows DEF Retry
<1>10. ASSUME NEW t \in Threads, ReleaseDecide(t) PROVE NoLostWakeup'
  <2>1. \A u \in Threads : pc'[u] = pc[u] \/ (u = t /\ pc[u] = "decide")
    BY <1>10, <1>a DEF ReleaseDecide
  <2>2. Awake \subseteq Awake'
    BY <2>1, <1>10 DEF ReleaseDecide, Awake, Acquiring
  <2> QED
    BY <2>2, <1>10, <1>a, AwakeGrows DEF ReleaseDecide
<1>11. ASSUME NEW t \in Threads, WaitTest(t) PROVE NoLostWakeup'
  <2>1. CASE WaitPredicate /\ pc' = [pc EXCEPT ![t] = "take"]
             /\ UNCHANGED <<mtx_, sleeping>>
    <3>1. Awake \subseteq Awake'
      BY <2>1, <1>a DEF Awake, Acquiring
    <3> QED
      BY <3>1, <2>1, <1>11, <1>a, AwakeGrows DEF WaitTest
  <2>2. CASE ~WaitPredicate
    <3>1. pool_' = <<>> /\ Len(pool_') = 0
      BY <2>2, <1>11, EmptyFacts DEF WaitTest, WaitPredicate
    <3>2. IsFiniteSet(Awake') /\ Cardinality(Awake') \in Nat
      BY FS_Subset, FS_CardinalityType DEF Awake
    <3> QED
      BY <3>1, <3>2 DEF NoLostWakeup
  <2> QED
    BY <2>1, <2>2, <1>11 DEF WaitTest
<1>12. ASSUME NEW t \in Threads, Take(t) PROVE NoLostWakeup'
  <2> SUFFICES ASSUME ~shutdown_', sleeping' # {}
               PROVE  Len(pool_') <= Cardinality(Awake')
    BY DEF NoLostWakeup
  <2>1. /\ ~shutdown_ /\ sleeping' = sleeping
        /\ pc[t] = "take" /\ pc' = [pc EXCEPT ![t] = "use"]
        /\ pool_ # <<>> /\ pool_' = Tail(pool_)
    BY <1>12 DEF Take, PoolInv, TakeAllowed
  <2>2. t \in Awake /\ Awake' = Awake \ {t}
    BY <2>1, <1>a DEF Awake, Acquiring
  <2>3. Cardinality(Awake') = Cardinality(Awake) - 1
    BY <2>2, <1>b, FS_RemoveElement
  <2>4. Len(pool_') = Len(pool_) - 1
    BY <2>1, <1>a, TailFacts
  <2>5. Len(pool_) <= Cardinality(Awake)
    BY <2>1 DEF NoLostWakeup
  <2> QED
    BY <2>3, <2>4, <2>5, <1>a, <1>b
<1>13. ASSUME NEW t \in Threads, ReleasePush(t) PROVE NoLostWakeup'
  <2> SUFFICES ASSUME ~shutdown_', sleeping' # {}
               PROVE  Len(pool_') <= Cardinality(Awake')
    BY DEF NoLostWakeup
  <2>1. PICK w \in sleeping : sleeping' = sleeping \ {w}
    BY <1>13 DEF ReleasePush, NotifyOne
  <2>2. /\ ~shutdown_ /\ pc[t] = "push" /\ pc[w] = "wait"
        /\ \A u \in Threads : u # t => pc'[u] = pc[u]
    BY <1>13, <2>1, <1>a DEF ReleasePush
  <2>3. w \in Threads /\ w \notin Awake /\ Awake \union {w} \subseteq Awake'
    BY <2>1, <2>2, <1>a DEF Awake, Acquiring
  <2>4. IsFiniteSet(Awake') /\ Cardinality(Awake') \in Nat
    BY FS_Subset, FS_CardinalityType DEF Awake
  <2>5. Cardinality(Awake \union {w}) = Cardinality(Awake) + 1
    BY <2>3, <1>b, FS_AddElement
  <2>6. Cardinality(Awake \union {w}) <= Cardinality(Awake')
    BY <2>3, <2>4, FS_Subset
  <2>7. conn[t] \in Conns
    BY <2>2 DEF PoolInv, TypeOK, GuardHolds, Holding
  <2>8. Len(pool_') = Len(pool_) + 1
    BY <1>13, <2>7, <1>a, AppendFacts DEF ReleasePush
  <2>9. Len(pool_) <= Cardinality(Awake)
    BY <2>1, <2>2 DEF NoLostWakeup
  <2> QED
    BY <2>4, <2>5, <2>6, <2>8, <2>9, <1>a, <1>b
<1>14. CASE UNCHANGED vars
  BY <1>14 DEF vars, NoLostWakeup, Awake
<1> QED
  BY <1>1, <1>2, <1>3, <1>4, <1>5, <1>6, <1>7, <1>8, <1>9, <1>10, <1>11, <1>12, <1>13, <1>14 DEF Next, MainStep, WorkerStep

(* No notification is lost: an idle connection always has a thread awake   *)
(* to take it while others sleep.                                          *)
THEOREM PoolNoLostWakeup == Spec => []NoLostWakeup
<1>1. Init => NoLostWakeup
  BY DEF Init, NoLostWakeup
<1> QED
  BY <1>1, NoLostWakeupStep, PoolInvariant, PTL DEF Spec

=============================================================================

------------------------- MODULE PushConsumerProofs -------------------------
(***************************************************************************)
(* The safety invariants of PushConsumer, for any finite set of messages,  *)
(* any prefetch count and any number of broken channels, restarts and      *)
(* exceptions.                                                             *)
(***************************************************************************)
EXTENDS PushConsumer, FiniteSetTheorems, SequenceTheorems, TLAPS

(* The loop works on its envelope. *)
Busy == pc \in {"callback", "ack", "reject"}

Distinct(s) == \A i, j \in 1..Len(s) : s[i] = s[j] => i = j

(* Where messages can be.  A message is in the queue once, in the inbox    *)
(* once, and on an open channel what was delivered is unacknowledged.      *)
Located ==
    /\ ToSet(queue) \union unacked \union ToSet(inbox) \union handled \subseteq published
    /\ Busy => envelope \in published /\ envelope \notin ToSet(inbox)
    /\ Distinct(queue) /\ Distinct(inbox)
    /\ unacked \intersect ToSet(queue) = {}
    /\ channel = "open" => ToSet(inbox) \subseteq unacked /\ (Busy => envelope \in unacked)
    /\ pc = "connect" => inbox = <<>> /\ channel = "none"
    /\ Consuming => channel # "none"
    /\ pc = "ack" => envelope \in handled

(* A push of these messages may still be sent before the next break. *)
Pending(m) ==
    \/ m \in ToSet(inbox)
    \/ pc = "callback" /\ m = envelope
    \/ channel # "broken" /\ m \in ToSet(queue)
    \/ channel = "open" /\ pc = "reject" /\ m = envelope

(* The pushes of a message are paid for by the breaks and the exceptions,  *)
(* one in advance.                                                         *)
PushesPaid ==
    \A m \in Msgs :
        /\ pushes[m] <= 1 + breaks + throws
        /\ Pending(m) => pushes[m] <= breaks + throws
        /\ m \notin published => pushes[m] = 0

(* The second part of PushesDue. *)
SentRight ==
    \A s \in sent :
        /\ Shape[s[1]] # "malformed"
        /\ s[2] = Platform(Receiver[s[1]])
        /\ s[3] = IF Shape[s[1]] = "contentNotText" THEN NoMsg ELSE s[1]

(* The inductive invariant. *)
PushInv == TypeOK /\ Located /\ NoneLost /\ PushesPaid /\ SentRight

-----------------------------------------------------------------------------
(* Sequences without repetitions.                                          *)

LEMMA ToSetOf ==
    ASSUME NEW S, NEW s \in Seq(S)
    PROVE  /\ ToSet(s) = {s[i] : i \in 1..Len(s)} /\ ToSet(s) \subseteq S
           /\ \A i \in 1..Len(s) : s[i] \in ToSet(s)
BY DEF ToSet

LEMMA AppendSet ==
    ASSUME NEW S, NEW s \in Seq(S), NEW e \in S
    PROVE  /\ Append(s, e) \in Seq(S)
           /\ ToSet(Append(s, e)) = ToSet(s) \union {e}
           /\ Distinct(s) /\ e \notin ToSet(s) => Distinct(Append(s, e))
<1> DEFINE r == Append(s, e)
<1>1. /\ r \in Seq(S) /\ Len(r) = Len(s) + 1 /\ Len(s) \in Nat
      /\ \A i \in 1..Len(s) : r[i] = s[i]
      /\ r[Len(s) + 1] = e
  BY AppendProperties
<1> HIDE DEF r
<1>2. ToSet(r) = ToSet(s) \union {e}
  <2>1. ASSUME NEW x \in ToSet(r) PROVE x \in ToSet(s) \union {e}
    <3>1. PICK i \in 1..Len(r) : x = r[i]
      BY <1>1, ToSetOf
    <3> QED
      BY <1>1, <3>1, ToSetOf
  <2>2. ASSUME NEW x \in ToSet(s) \union {e} PROVE x \in ToSet(r)
    BY <1>1, ToSetOf
  <2> QED
    BY <2>1, <2>2
<1>3. ASSUME Distinct(s), e \notin ToSet(s) PROVE Distinct(r)
  BY <1>1, <1>3, ToSetOf DEF Distinct
<1> QED
  BY <1>1, <1>2, <1>3 DEF r

LEMMA TailSet ==
    ASSUME NEW S, NEW s \in Seq(S), s # <<>>
    PROVE  /\ Head(s) \in S /\ Tail(s) \in Seq(S)
           /\ ToSet(s) = ToSet(Tail(s)) \union {Head(s)}
           /\ Distinct(s) => Distinct(Tail(s)) /\ Head(s) \notin ToSet(Tail(s))
<1> DEFINE r == Tail(s)
           h == Head(s)
<1>1. /\ h \in S /\ h = s[1] /\ r \in Seq(S) /\ Len(r) = Len(s) - 1
      /\ Len(s) \in Nat \ {0} /\ Len(r) \in Nat
      /\ \A i \in 1..Len(r) : r[i] = s[i + 1]
  BY HeadTailProperties, EmptySeq, LenProperties
<1> HIDE DEF r, h
<1>2. ToSet(s) = ToSet(r) \union {h}
  <2>1. ASSUME NEW x \in ToSet(s) PROVE x \in ToSet(r) \union {h}
    <3>1. PICK i \in 1..Len(s) : x = s[i]
      BY ToSetOf
    <3>2. CASE i = 1
      BY <1>1, <3>1, <3>2
    <3>3. CASE i # 1
      <4>1. i - 1 \in 1..Len(r) /\ x = r[i - 1]
        BY <1>1, <3>1, <3>3
      <4> QED
        BY <1>1, <4>1, ToSetOf
    <3> QED
      BY <3>2, <3>3
  <2>2. ASSUME NEW x \in ToSet(r) \union {h} PROVE x \in ToSet(s)
    <3>1. CASE x = h
      BY <1>1, <3>1, ToSetOf
    <3>2. CASE x \in ToSet(r)
      <4>1. PICK i \in 1..Len(r) : x = r[i]
        BY <1>1, <3>2, ToSetOf
      <4>2. i + 1 \in 1..Len(s) /\ x = s[i + 1]
        BY <1>1, <4>1
      <4> QED
        BY <4>2, ToSetOf
    <3> QED
      BY <3>1, <3>2
  <2> QED
    BY <2>1, <2>2
<1>3. ASSUME Distinct(s) PROVE Distinct(r) /\ h \notin ToSet(r)
  <2>1. Distinct(r)
    <3> SUFFICES ASSUME NEW i \in 1..Len(r), NEW j \in 1..Len(r), r[i] = r[j]
                 PROVE  i = j
      BY DEF Distinct
    <3>1. i + 1 \in 1..Len(s) /\ j + 1 \in 1..Len(s) /\ s[i + 1] = s[j + 1]
      BY <1>1
    <3> QED
      BY <1>3, <3>1 DEF Distinct
  <2>2. h \notin ToSet(r)
    <3> SUFFICES ASSUME h \in ToSet(r) PROVE FALSE
      OBVIOUS
    <3>1. PICK i \in 1..Len(r) : h = r[i]
      BY <1>1, ToSetOf
    <3>2. i + 1 \in 1..Len(s) /\ 1 \in 1..Len(s) /\ s[i + 1] = s[1]
      BY <1>1, <3>1
    <3> QED
      BY <1>3, <3>2 DEF Distinct
  <2> QED
    BY <2>1, <2>2
<1> QED
  BY <1>1, <1>2, <1>3 DEF r, h

LEMMA ConcatSet ==
    ASSUME NEW S, NEW s \in Seq(S), NEW t \in Seq(S)
    PROVE  /\ s \o t \in Seq(S)
           /\ ToSet(s \o t) = ToSet(s) \union ToSet(t)
           /\ Distinct(s) /\ Distinct(t) /\ ToSet(s) \intersect ToSet(t) = {} =>
                 Distinct(s \o t)
<1> DEFINE r == s \o t
<1>1. /\ r \in Seq(S) /\ Len(r) = Len(s) + Len(t) /\ Len(s) \in Nat /\ Len(t) \in Nat
      /\ \A i \in 1..Len(s) + Len(t) : r[i] = IF i <= Len(s) THEN s[i] ELSE t[i - Len(s)]
  BY ConcatProperties, LenProperties
<1> HIDE DEF r
<1>2. \A i \in 1..Len(s) : i \in 1..Len(r) /\ r[i] = s[i]
  BY <1>1
<1>3. \A i \in 1..Len(t) : i + Len(s) \in 1..Len(r) /\ r[i + Len(s)] = t[i]
  <2> SUFFICES ASSUME NEW i \in 1..Len(t)
               PROVE  i + Len(s) \in 1..Len(r) /\ r[i + Len(s)] = t[i]
    OBVIOUS
  <2>1. i + Len(s) \in 1..Len(s) + Len(t) /\ ~(i + Len(s) <= Len(s)) /\ (i + Len(s)) - Len(s) = i
    BY <1>1
  <2> QED
    BY <1>1, <2>1
<1>4. \A i \in 1..Len(r) : \/ i \in 1..Len(s) /\ r[i] = s[i]
                           \/ i - Len(s) \in 1..Len(t) /\ r[i] = t[i - Len(s)]
  BY <1>1
<1>5. ToSet(r) = ToSet(s) \union ToSet(t)
  <2>1. ASSUME NEW x \in ToSet(r) PROVE x \in ToSet(s) \union ToSet(t)
    <3>1. PICK i \in 1..Len(r) : x = r[i]
      BY <1>1, ToSetOf
    <3> QED
      BY <1>4, <3>1, ToSetOf
  <2>2. ASSUME NEW x \in ToSet(s) PROVE x \in ToSet(r)
    BY <1>1, <1>2, <2>2, ToSetOf
  <2>3. ASSUME NEW x \in ToSet(t) PROVE x \in ToSet(r)
    <3>1. PICK i \in 1..Len(t) : x = t[i]
      BY <2>3, ToSetOf
    <3>2. i + Len(s) \in 1..Len(r) /\ r[i + Len(s)] = x
      BY <1>3, <3>1
    <3> QED
      BY <1>1, <3>2, ToSetOf
  <2> QED
    BY <2>1, <2>2, <2>3
<1>6. ASSUME Distinct(s), Distinct(t), ToSet(s) \intersect ToSet(t) = {}
      PROVE  Distinct(r)
  <2> SUFFICES ASSUME NEW i \in 1..Len(r), NEW j \in 1..Len(r), r[i] = r[j]
               PROVE  i = j
    BY DEF Distinct
  <2>1. \A a \in 1..Len(s), b \in 1..Len(t) : s[a] # t[b]
    <3>1. /\ \A a \in 1..Len(s) : s[a] \in ToSet(s)
          /\ \A b \in 1..Len(t) : t[b] \in ToSet(t)
      BY ToSetOf
    <3> QED
      BY <1>6, <3>1
  <2>2. CASE i \in 1..Len(s) /\ r[i] = s[i] /\ j \in 1..Len(s) /\ r[j] = s[j]
    BY <1>6, <2>2 DEF Distinct
  <2>3. CASE /\ i - Len(s) \in 1..Len(t) /\ r[i] = t[i - Len(s)]
             /\ j - Len(s) \in 1..Len(t) /\ r[j] = t[j - Len(s)]
    <3>1. i - Len(s) = j - Len(s)
      BY <1>6, <2>3 DEF Distinct
    <3> QED
      BY <1>1, <3>1
  <2> QED
    BY <1>4, <2>1, <2>2, <2>3
<1> QED
  BY <1>1, <1>5, <1>6 DEF r

(* The orders in which the broker may put messages back. *)
LEMMA SetToSeqsSet ==
    ASSUME NEW S, IsFiniteSet(S), NEW f \in SetToSeqs(S)
    PROVE  f \in Seq(S) /\ ToSet(f) = S /\ Distinct(f)
<1> DEFINE n == Cardinality(S)
<1>1. n \in Nat
  BY FS_CardinalityType
<1>2. f \in [1..n -> S] /\ \A i, j \in 1..n : i # j => f[i] # f[j]
  BY DEF SetToSeqs
<1>3. f \in Seq(S) /\ Len(f) = n
  BY <1>1, <1>2
<1>4. Distinct(f)
  BY <1>2, <1>3 DEF Distinct
<1>5. f \in Surjection(1..n, S)
  <2>1. f \in Injection(1..n, S)
    BY <1>2 DEF Injection, IsInjective
  <2>2. Cardinality(1..n) = Cardinality(S)
    BY <1>1, FS_Interval
  <2> QED
    BY <2>1, <2>2, FS_Injection
<1>6. ToSet(f) = S
  <2>1. \A x \in S : \E i \in 1..n : f[i] = x
    BY <1>5 DEF Surjection
  <2>2. ToSet(f) \subseteq S /\ \A i \in 1..n : f[i] \in ToSet(f)
    BY <1>3, ToSetOf
  <2> QED
    BY <2>1, <2>2
<1> QED
  BY <1>3, <1>4, <1>6

-----------------------------------------------------------------------------
(* What the steps do to the places of messages.                            *)

LEMMA UnackedFinite ==
    ASSUME TypeOK
    PROVE  IsFiniteSet(unacked) /\ Cardinality(unacked) \in Nat
BY PushAssumption, FS_Subset, FS_CardinalityType DEF TypeOK

(* The broker puts back what was not acknowledged. *)
LEMMA RequeueEffect ==
    ASSUME TypeOK, Located, Requeue
    PROVE  /\ queue' \in Seq(Msgs) /\ unacked' = {} /\ published' = published
           /\ ToSet(queue') = ToSet(queue) \union unacked /\ Distinct(queue')
<1>0. PICK s \in SetToSeqs(unacked) : queue' = s \o queue
  BY DEF Requeue
<1>1. s \in Seq(unacked) /\ ToSet(s) = unacked /\ Distinct(s)
  BY UnackedFinite, SetToSeqsSet
<1>2. s \in Seq(Msgs)
  BY <1>1, SeqMonotonic DEF TypeOK
<1>3. queue \in Seq(Msgs) /\ Distinct(queue) /\ ToSet(s) \intersect ToSet(queue) = {}
  BY <1>1 DEF TypeOK, Located
<1>4. /\ s \o queue \in Seq(Msgs) /\ ToSet(s \o queue) = ToSet(s) \union ToSet(queue)
      /\ Distinct(s \o queue)
  BY <1>1, <1>2, <1>3, ConcatSet
<1> QED
  BY <1>0, <1>1, <1>4 DEF Requeue

LEMMA DeliverEffect ==
    ASSUME TypeOK, Located, Deliver
    PROVE  \E m \in Msgs :
              /\ m \in ToSet(queue) /\ m \notin ToSet(inbox) /\ m \notin unacked
              /\ queue' \in Seq(Msgs) /\ ToSet(queue) = ToSet(queue') \union {m}
              /\ Distinct(queue') /\ m \notin ToSet(queue')
              /\ inbox' \in Seq(Msgs) /\ ToSet(inbox') = ToSet(inbox) \union {m}
              /\ Distinct(inbox')
              /\ unacked' = unacked \union {m} /\ Cardinality(unacked') <= Prefetch
<1> DEFINE m == Head(queue)
<1>1. /\ queue \in Seq(Msgs) /\ inbox \in Seq(Msgs) /\ queue # <<>>
      /\ Distinct(queue) /\ Distinct(inbox)
  BY DEF TypeOK, Located, Deliver
<1>2. /\ m \in Msgs /\ queue' \in Seq(Msgs) /\ ToSet(queue) = ToSet(queue') \union {m}
      /\ Distinct(queue') /\ m \notin ToSet(queue')
  BY <1>1, TailSet DEF Deliver
<1>3. m \notin unacked /\ m \notin ToSet(inbox)
  BY <1>2 DEF Located, Deliver
<1>4. /\ inbox' \in Seq(Msgs) /\ ToSet(inbox') = ToSet(inbox) \union {m}
      /\ Distinct(inbox')
  BY <1>1, <1>2, <1>3, AppendSet DEF Deliver
<1>5. unacked' = unacked \union {m} /\ Cardinality(unacked') <= Prefetch
  <2>1. unacked' = unacked \union {m} /\ Cardinality(unacked) < Prefetch
    BY DEF Deliver
  <2>2. Cardinality(unacked \union {m}) = Cardinality(unacked) + 1
    BY <1>3, UnackedFinite, FS_AddElement
  <2> QED
    BY <2>1, <2>2, UnackedFinite, PushAssumption
<1> QED
  BY <1>2, <1>3, <1>4, <1>5

(* The loop takes the first message of the inbox. *)
LEMMA TakeEffect ==
    ASSUME TypeOK, Located, inbox # <<>>, envelope' = Head(inbox), inbox' = Tail(inbox)
    PROVE  /\ envelope' \in Msgs /\ inbox' \in Seq(Msgs) /\ Distinct(inbox')
           /\ ToSet(inbox) = ToSet(inbox') \union {envelope'}
           /\ envelope' \notin ToSet(inbox')
BY TailSet DEF TypeOK, Located

(* A rejected message is put in front of the queue. *)
LEMMA RejectEffect ==
    ASSUME TypeOK, Located, envelope \in Msgs, envelope \notin ToSet(queue),
           queue' = <<envelope>> \o queue
    PROVE  /\ queue' \in Seq(Msgs) /\ Distinct(queue')
           /\ ToSet(queue') = ToSet(queue) \union {envelope}
<1> DEFINE s == <<envelope>>
<1>1. s \in Seq(Msgs) /\ Len(s) = 1 /\ s[1] = envelope
  OBVIOUS
<1> HIDE DEF s
<1>2. ToSet(s) = {envelope} /\ Distinct(s)
  BY <1>1, ToSetOf DEF Distinct
<1>3. queue \in Seq(Msgs) /\ Distinct(queue) /\ ToSet(s) \intersect ToSet(queue) = {}
  BY <1>2 DEF TypeOK, Located
<1>4. /\ s \o queue \in Seq(Msgs) /\ ToSet(s \o queue) = ToSet(s) \union ToSet(queue)
      /\ Distinct(s \o queue)
  BY <1>1, <1>2, <1>3, ConcatSet
<1> QED
  BY <1>2, <1>4 DEF s

LEMMA EmptySet == ToSet(<<>>) = {} /\ Distinct(<<>>) /\ <<>> \in Seq(Msgs)
BY DEF ToSet, Distinct

(* HandleIncomingPushTask sends at most one push, to the platform and with *)
(* the text of its message.                                                *)
LEMMA HandleEffect ==
    ASSUME TypeOK, SentRight, NEW m \in Msgs, HandleIncomingPushTask(m)
    PROVE  /\ pushes' \in [Msgs -> Nat] /\ pushes'[m] <= pushes[m] + 1
           /\ \A k \in Msgs : k # m => pushes'[k] = pushes[k]
           /\ sent' \subseteq Msgs \X {1, 2} \X (Msgs \union {NoMsg})
           /\ SentRight'
<1>1. /\ pushes' \in [Msgs -> Nat] /\ pushes'[m] <= pushes[m] + 1
      /\ \A k \in Msgs : k # m => pushes'[k] = pushes[k]
  BY DEF HandleIncomingPushTask, TypeOK
<1>2. Platform(ParsedReceiver(m)) \in {0, 1, 2}
  BY DEF Platform
<1>3. sent' = sent \/ \E p \in {1, 2} :
         Pushed(m) /\ Platform(ParsedReceiver(m)) = p /\ sent' = sent \union {<<m, p, ParsedContent(m)>>}
  BY <1>2 DEF HandleIncomingPushTask, Pushed, APNsPushMessage, FCMPushMessage
<1>4. Shape[m] \in Shapes
  BY PushAssumption
<1>5. Pushed(m) => Shape[m] # "malformed" /\ ParsedReceiver(m) = Receiver[m]
  BY DEF Pushed, ParsedReceiver
<1>6. /\ ParsedContent(m) \in Msgs \union {NoMsg}
      /\ Pushed(m) => ParsedContent(m) = IF Shape[m] = "contentNotText" THEN NoMsg ELSE m
  BY <1>4, <1>5 DEF ParsedContent, Shapes
<1>7. sent' \subseteq Msgs \X {1, 2} \X (Msgs \union {NoMsg})
  BY <1>3, <1>6 DEF TypeOK
<1>8. SentRight'
  BY <1>3, <1>5, <1>6 DEF SentRight
<1> QED
  BY <1>1, <1>7, <1>8

-----------------------------------------------------------------------------
LEMMA InitPushInv == Init => PushInv
<1> SUFFICES ASSUME Init PROVE PushInv
  OBVIOUS
<1> USE DEF Init
<1>1. TypeOK
  BY PushAssumption, EmptySet, FS_EmptySet DEF TypeOK
<1>2. Located /\ NoneLost
  BY EmptySet DEF Located, NoneLost, Busy, Consuming
<1>3. PushesPaid /\ SentRight
  BY DEF PushesPaid, SentRight
<1> QED
  BY <1>1, <1>2, <1>3 DEF PushInv

LEMMA PublishStep == ASSUME PushInv, NEW m \in Msgs, Publish(m) PROVE PushInv'
<1> USE DEF PushInv, Publish, history
<1>1. /\ queue' \in Seq(Msgs) /\ ToSet(queue') = ToSet(queue) \union {m}
      /\ m \notin ToSet(queue) /\ Distinct(queue')
  BY AppendSet DEF TypeOK, Located
<1>2. TypeOK'
  BY <1>1 DEF TypeOK
<1>3. Located'
  BY <1>1 DEF Located, Busy, Consuming
<1>4. NoneLost'
  BY <1>1 DEF NoneLost
<1>5. PushesPaid'
  BY <1>1 DEF PushesPaid, Pending, TypeOK
<1> QED
  BY <1>2, <1>3, <1>4, <1>5 DEF SentRight

LEMMA DeliverStep == ASSUME PushInv, Deliver PROVE PushInv'
<1> USE DEF PushInv
<1>1. PICK m \in Msgs :
              /\ m \in ToSet(queue) /\ m \notin ToSet(inbox) /\ m \notin unacked
              /\ queue' \in Seq(Msgs) /\ ToSet(queue) = ToSet(queue') \union {m}
              /\ Distinct(queue') /\ m \notin ToSet(queue')
              /\ inbox' \in Seq(Msgs) /\ ToSet(inbox') = ToSet(inbox) \union {m}
              /\ Distinct(inbox')
              /\ unacked' = unacked \union {m} /\ Cardinality(unacked') <= Prefetch
  BY DeliverEffect
<1>2. /\ UNCHANGED <<published, channel, pc, envelope, simulated, handled, pushes, sent,
                     breaks, throws>>
      /\ channel = "open" /\ Consuming
  BY DEF Deliver, history
<1>3. TypeOK'
  BY <1>1, <1>2 DEF TypeOK
<1>4. Located'
  BY <1>1, <1>2 DEF Located, Busy, Consuming
<1>5. NoneLost'
  BY <1>1, <1>2 DEF NoneLost
<1>6. PushesPaid'
  BY <1>1, <1>2 DEF PushesPaid, Pending
<1> QED
  BY <1>2, <1>3, <1>4, <1>5, <1>6 DEF SentRight

LEMMA BreakStep == ASSUME PushInv, BreakChannel PROVE PushInv'
<1> USE DEF PushInv
<1>1. /\ queue' \in Seq(Msgs) /\ unacked' = {} /\ published' = published
      /\ ToSet(queue') = ToSet(queue) \union unacked /\ Distinct(queue')
  BY RequeueEffect DEF BreakChannel
<1>2. /\ UNCHANGED <<inbox, pc, envelope, simulated, handled, pushes, sent, throws>>
      /\ channel = "open" /\ channel' = "broken"
      /\ breaks' = breaks + 1 /\ breaks < MaxBreaks
  BY DEF BreakChannel, history
<1>3. TypeOK'
  <2>1. Cardinality(unacked') <= Prefetch /\ breaks' \in 0..MaxBreaks
    BY <1>1, <1>2, PushAssumption, FS_EmptySet DEF TypeOK
  <2> QED
    BY <1>1, <1>2, <2>1 DEF TypeOK
<1>4. Located'
  BY <1>1, <1>2 DEF Located, Busy, Consuming
<1>5. NoneLost'
  BY <1>1, <1>2 DEF NoneLost
<1>6. PushesPaid'
  BY <1>1, <1>2 DEF PushesPaid, Pending, TypeOK
<1> QED
  BY <1>2, <1>3, <1>4, <1>5, <1>6 DEF SentRight

LEMMA RestartStep == ASSUME PushInv, Restart PROVE PushInv'
<1> USE DEF PushInv
<1>1. /\ queue' \in Seq(Msgs) /\ unacked' = {} /\ published' = published
      /\ ToSet(queue') = ToSet(queue) \union unacked /\ Distinct(queue')
  BY RequeueEffect DEF Restart
<1>2. /\ UNCHANGED <<handled, pushes, sent, throws>>
      /\ channel' = "none" /\ breaks' = breaks + 1 /\ breaks < MaxBreaks
      /\ inbox' = <<>> /\ pc' = "connect" /\ envelope' = NoMsg /\ simulated' = 0
  BY DEF Restart, history
<1>3. TypeOK'
  <2>1. Cardinality(unacked') <= Prefetch /\ breaks' \in 0..MaxBreaks
    BY <1>1, <1>2, PushAssumption, FS_EmptySet DEF TypeOK
  <2> QED
    BY <1>1, <1>2, <2>1, EmptySet DEF TypeOK
<1>4. Located'
  BY <1>1, <1>2, EmptySet DEF Located, Busy, Consuming
<1>5. NoneLost'
  BY <1>1, <1>2 DEF NoneLost
<1>6. PushesPaid'
  BY <1>1, <1>2 DEF PushesPaid, Pending, TypeOK
<1> QED
  BY <1>2, <1>3, <1>4, <1>5, <1>6 DEF SentRight

(* Connect, BasicConsume and Simulate move no message. *)
LEMMA StartStep == ASSUME PushInv, Connect \/ BasicConsume \/ Simulate PROVE PushInv'
<1> USE DEF PushInv
<1>1. /\ UNCHANGED <<published, queue, unacked, inbox, envelope, handled, pushes, sent,
                     breaks, throws>>
      /\ ~Busy /\ ~Busy'
  BY DEF Connect, BasicConsume, Simulate, broker, history, Busy
<1>2. TypeOK'
  BY <1>1 DEF Connect, BasicConsume, Simulate, TypeOK
<1>3. Located'
  BY <1>1, EmptySet DEF Connect, BasicConsume, Simulate, Located, Busy, Consuming
<1>4. NoneLost'
  BY <1>1 DEF NoneLost
<1>5. PushesPaid'
  <2>1. \A m \in Msgs : Pending(m)' => Pending(m)
    BY <1>1 DEF Connect, BasicConsume, Simulate, Pending, Busy, Located
  <2> QED
    BY <1>1, <2>1 DEF PushesPaid
<1> QED
  BY <1>1, <1>2, <1>3, <1>4, <1>5 DEF SentRight

LEMMA TakeStep == ASSUME PushInv, BasicConsumeMessage PROVE PushInv'
<1> USE DEF PushInv
<1>1. /\ UNCHANGED <<published, queue, unacked, channel, simulated, handled, pushes, sent,
                     breaks, throws>>
      /\ pc = "wait"
  BY DEF BasicConsumeMessage, broker, history
<1>2. CASE /\ inbox # <<>> /\ envelope' = Head(inbox) /\ inbox' = Tail(inbox)
           /\ pc' = "callback"
  <2>1. /\ envelope' \in Msgs /\ inbox' \in Seq(Msgs) /\ Distinct(inbox')
        /\ ToSet(inbox) = ToSet(inbox') \union {envelope'}
        /\ envelope' \notin ToSet(inbox')
    BY <1>2, TakeEffect
  <2>2. TypeOK'
    BY <1>1, <1>2, <2>1 DEF TypeOK
  <2>3. Located'
    BY <1>1, <1>2, <2>1 DEF Located, Busy, Consuming
  <2>4. PushesPaid'
    BY <1>1, <1>2, <2>1 DEF PushesPaid, Pending
  <2> QED
    BY <1>1, <2>2, <2>3, <2>4 DEF SentRight, NoneLost
<1>3. CASE channel = "broken" /\ pc' = "asleep" /\ UNCHANGED <<inbox, envelope>>
  <2>1. TypeOK'
    BY <1>1, <1>3 DEF TypeOK
  <2>2. Located'
    BY <1>1, <1>3 DEF Located, Busy, Consuming
  <2>3. PushesPaid'
    BY <1>1, <1>3 DEF PushesPaid, Pending
  <2> QED
    BY <1>1, <2>1, <2>2, <2>3 DEF SentRight, NoneLost
<1> QED
  BY <1>2, <1>3 DEF BasicConsumeMessage

LEMMA CallbackStep == ASSUME PushInv, Callback PROVE PushInv'
<1> USE DEF PushInv
<1>1. /\ UNCHANGED <<published, queue, unacked, inbox, channel, envelope, simulated,
                     breaks, throws>>
      /\ pc = "callback" /\ pc' = "ack" /\ handled' = handled \union {envelope}
  BY DEF Callback, broker
<1>2. envelope \in Msgs /\ envelope \in published /\ envelope \notin ToSet(inbox)
  BY <1>1 DEF Located, Busy, TypeOK
<1>3. /\ pushes' \in [Msgs -> Nat] /\ pushes'[envelope] <= pushes[envelope] + 1
      /\ \A k \in Msgs : k # envelope => pushes'[k] = pushes[k]
      /\ sent' \subseteq Msgs \X {1, 2} \X (Msgs \union {NoMsg})
      /\ SentRight'
  BY <1>2, HandleEffect DEF Callback
<1>4. TypeOK'
  BY <1>1, <1>2, <1>3 DEF TypeOK
<1>5. Located'
  BY <1>1, <1>2 DEF Located, Busy, Consuming
<1>6. NoneLost'
  BY <1>1 DEF NoneLost
<1>7. PushesPaid'
  <2>1. /\ pushes[envelope] <= breaks + throws
        /\ pushes[envelope] \in Nat /\ breaks \in Nat /\ throws \in Nat
    BY <1>1, <1>2 DEF PushesPaid, Pending, TypeOK
  <2>2. ~Pending(envelope)'
    BY <1>1, <1>2 DEF Pending, Located, Busy, Consuming, TypeOK
  <2>3. \A m \in Msgs : m # envelope /\ Pending(m)' => Pending(m)
    BY <1>1 DEF Pending
  <2>4. pushes'[envelope] <= 1 + breaks + throws
    BY <1>2, <1>3, <2>1
  <2> QED
    BY <1>1, <1>2, <1>3, <2>2, <2>3, <2>4 DEF PushesPaid
<1> QED
  BY <1>3, <1>4, <1>5, <1>6, <1>7

LEMMA ThrowsStep == ASSUME PushInv, CallbackThrows PROVE PushInv'
<1> USE DEF PushInv
<1>1. /\ UNCHANGED <<published, queue, unacked, inbox, channel, envelope, simulated,
                     handled, breaks>>
      /\ pc = "callback" /\ pc' = "reject" /\ throws' = throws + 1 /\ throws < MaxThrows
  BY DEF CallbackThrows, broker
<1>2. envelope \in Msgs /\ envelope \in published
  BY <1>1 DEF Located, Busy, TypeOK
<1>3. /\ pushes' \in [Msgs -> Nat] /\ pushes'[envelope] <= pushes[envelope] + 1
      /\ \A k \in Msgs : k # envelope => pushes'[k] = pushes[k]
      /\ sent' \subseteq Msgs \X {1, 2} \X (Msgs \union {NoMsg})
      /\ SentRight'
  <2>1. CASE HandleIncomingPushTask(envelope)
    BY <1>2, <2>1, HandleEffect
  <2>2. CASE UNCHANGED <<pushes, sent>>
    BY <1>2, <2>2 DEF TypeOK, SentRight
  <2> QED
    BY <2>1, <2>2 DEF CallbackThrows
<1>4. TypeOK'
  <2>1. throws' \in 0..MaxThrows
    BY <1>1, PushAssumption DEF TypeOK
  <2>2. TypeOK
    OBVIOUS
  <2> QED
    BY <1>1, <1>3, <2>1, <2>2 DEF TypeOK
<1>5. Located'
  BY <1>1 DEF Located, Busy, Consuming
<1>6. PushesPaid'
  <2>1. \A m \in Msgs : /\ pushes[m] \in Nat /\ pushes'[m] \in Nat
                        /\ breaks \in Nat /\ throws \in Nat
    BY <1>3 DEF TypeOK
  <2>2. pushes[envelope] <= breaks + throws
    BY <1>1, <1>2 DEF PushesPaid, Pending
  <2>3. pushes'[envelope] <= breaks' + throws'
    BY <1>1, <1>2, <1>3, <2>1, <2>2
  <2>4. \A m \in Msgs : m # envelope /\ Pending(m)' => Pending(m)
    BY <1>1 DEF Pending
  <2>5. \A m \in Msgs : m # envelope =>
           /\ pushes'[m] <= 1 + breaks' + throws'
           /\ Pending(m) => pushes'[m] <= breaks' + throws'
    BY <1>1, <1>3, <2>1 DEF PushesPaid
  <2>6. \A m \in Msgs : m \notin published' => pushes'[m] = 0
    BY <1>1, <1>2, <1>3 DEF PushesPaid
  <2>7. pushes'[envelope] <= 1 + breaks' + throws'
    BY <1>1, <1>2, <2>1, <2>3
  <2> QED
    BY <2>3, <2>4, <2>5, <2>6, <2>7 DEF PushesPaid
<1> QED
  BY <1>1, <1>3, <1>4, <1>5, <1>6 DEF NoneLost

LEMMA AckStep == ASSUME PushInv, BasicAck PROVE PushInv'
<1> USE DEF PushInv
<1>1. /\ UNCHANGED <<published, queue, inbox, channel, envelope, simulated, handled, pushes,
                     sent, breaks, throws>>
      /\ pc = "ack"
      /\ \/ channel = "open" /\ unacked' = unacked \ {envelope} /\ pc' = "wait"
         \/ channel = "broken" /\ unacked' = unacked /\ pc' \in {"wait", "reject"}
  BY DEF BasicAck, history
<1>2. TypeOK'
  <2>1. Cardinality(unacked') <= Prefetch
    <3>1. unacked' \subseteq unacked
      BY <1>1
    <3>2. Cardinality(unacked') <= Cardinality(unacked) /\ Cardinality(unacked') \in Nat
      BY <3>1, UnackedFinite, FS_Subset, FS_CardinalityType
    <3> QED
      BY <3>2, UnackedFinite, PushAssumption DEF TypeOK
  <2> QED
    BY <1>1, <2>1 DEF TypeOK
<1>3. Located'
  BY <1>1 DEF Located, Busy, Consuming
<1>4. NoneLost'
  BY <1>1 DEF NoneLost, Located
<1>5. PushesPaid'
  BY <1>1 DEF PushesPaid, Pending
<1> QED
  BY <1>1, <1>2, <1>3, <1>4, <1>5 DEF SentRight

LEMMA RejectStep == ASSUME PushInv, BasicReject PROVE PushInv'
<1> USE DEF PushInv
<1>1. /\ UNCHANGED <<published, inbox, channel, envelope, simulated, handled, pushes,
                     sent, breaks, throws>>
      /\ pc = "reject"
  BY DEF BasicReject, history
<1>2. CASE /\ channel = "open" /\ unacked' = unacked \ {envelope}
           /\ queue' = <<envelope>> \o queue /\ pc' = "wait"
  <2>1. envelope \in unacked /\ envelope \in Msgs /\ envelope \notin ToSet(queue)
    BY <1>1, <1>2 DEF Located, Busy, TypeOK
  <2>2. /\ queue' \in Seq(Msgs) /\ Distinct(queue')
        /\ ToSet(queue') = ToSet(queue) \union {envelope}
    BY <1>2, <2>1, RejectEffect
  <2>3. TypeOK'
    <3>1. Cardinality(unacked') <= Cardinality(unacked) /\ Cardinality(unacked') \in Nat
      BY <1>2, UnackedFinite, FS_Subset, FS_CardinalityType
    <3>2. Cardinality(unacked') <= Prefetch
      BY <3>1, UnackedFinite, PushAssumption DEF TypeOK
    <3> QED
      BY <1>1, <1>2, <2>2, <3>2 DEF TypeOK
  <2>4. Located'
    BY <1>1, <1>2, <2>1, <2>2 DEF Located, Busy, Consuming
  <2>5. NoneLost'
    BY <1>1, <1>2, <2>2 DEF NoneLost
  <2>6. PushesPaid'
    BY <1>1, <1>2, <2>2 DEF PushesPaid, Pending
  <2> QED
    BY <1>1, <2>3, <2>4, <2>5, <2>6 DEF SentRight
<1>3. CASE channel = "broken" /\ pc' = "asleep" /\ UNCHANGED <<unacked, queue>>
  <2>1. TypeOK'
    BY <1>1, <1>3 DEF TypeOK
  <2>2. Located'
    BY <1>1, <1>3 DEF Located, Busy, Consuming
  <2>3. PushesPaid'
    BY <1>1, <1>3 DEF PushesPaid, Pending
  <2> QED
    BY <1>1, <1>3, <2>1, <2>2, <2>3 DEF SentRight, NoneLost
<1> QED
  BY <1>2, <1>3 DEF BasicReject

LEMMA PushInvStep == PushInv /\ [Next]_vars => PushInv'
<1>1. ASSUME PushInv, UNCHANGED vars PROVE PushInv'
  BY <1>1 DEF vars, broker, history, PushInv, TypeOK, Located, NoneLost, PushesPaid, Pending,
              SentRight, Busy, Consuming
<1> QED
  BY <1>1, PublishStep, DeliverStep, BreakStep, RestartStep, StartStep, TakeStep,
     CallbackStep, ThrowsStep, AckStep, RejectStep DEF Next, Main

LEMMA PushInvHolds == Spec => []PushInv
BY InitPushInv, PushInvStep, PTL DEF Spec

(* The variables keep their types, and the prefetch count is not exceeded. *)
THEOREM PushTypeCorrect == Spec => []TypeOK
<1>1. PushInv => TypeOK
  BY DEF PushInv
<1> QED
  BY <1>1, PushInvHolds, PTL

(* Subscribe acknowledges after the callback: however many channels break, *)
(* callbacks throw or processes restart, a published message is with the   *)
(* broker until its callback has returned.                                 *)
THEOREM PushNoneLost == Spec => []NoneLost
<1>1. PushInv => NoneLost
  BY DEF PushInv
<1> QED
  BY <1>1, PushInvHolds, PTL

(* HandleIncomingPushTask: what is sent is right, and a user is notified   *)
(* again at most once for each channel or process that ended and for each  *)
(* exception of the callback.                                              *)
THEOREM PushPushesDue == Spec => []PushesDue
<1>1. PushInv => PushesDue
  BY DEF PushInv, PushesPaid, SentRight, PushesDue
<1> QED
  BY <1>1, PushInvHolds, PTL

=============================================================================

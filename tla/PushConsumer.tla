---------------------------- MODULE PushConsumer ----------------------------
(***************************************************************************)
(* The push service: StartPushService, RabbitMQClient::Subscribe and       *)
(* PushManager, with the queue they consume.  The broker keeps a message   *)
(* until it is acknowledged and puts it back when the channel it was       *)
(* delivered on ends.  The publisher and the broker are external.          *)
(***************************************************************************)
EXTENDS Naturals, Sequences, SequencesExt, FiniteSets

CONSTANTS
    Msgs,           \* messages
    Shape,          \* Shape[m]: how its JSON is built, see Shapes
    Receiver,       \* Receiver[m]: its receiver_id
    Prefetch,       \* prefetch_count (100 in the code)
    MaxBreaks,      \* bound: channels that end early
    MaxThrows,      \* bound: exceptions of the callback
    NoMsg

Shapes == {"valid", "malformed", "contentNotText"}

ASSUME PushAssumption ==
    /\ IsFiniteSet(Msgs) /\ NoMsg \notin Msgs
    /\ Shape \in [Msgs -> Shapes] /\ Receiver \in [Msgs -> Nat \ {0}]
    /\ Prefetch \in Nat \ {0} /\ {MaxBreaks, MaxThrows} \subseteq Nat

VARIABLES
    published,  \* messages that were put into the queue
    queue,      \* ready messages, in the broker
    inbox,      \* delivered on the channel, not yet taken by the loop
    unacked,    \* delivered and not acknowledged, in the broker
    channel,    \* "none", "open" or "broken"
    pc,         \* the main thread in StartPushService and Subscribe
    envelope,   \* the message the loop works on
    simulated,  \* callbacks the logic_simulator thread has made
    handled,    \* messages whose callback returned
    pushes,     \* pushes[m]: how often a push of m was sent
    sent,       \* what was sent: <<message, platform, text>>
    breaks, throws

broker == <<published, queue, unacked>>
history == <<handled, pushes, sent>>
vars == <<broker, inbox, channel, pc, envelope, simulated, history, breaks, throws>>

Init ==
    /\ published = {} /\ queue = <<>> /\ inbox = <<>> /\ unacked = {}
    /\ channel = "none"
    /\ pc = "connect"
    /\ envelope = NoMsg
    /\ simulated = 0
    /\ handled = {}
    /\ pushes = [m \in Msgs |-> 0]
    /\ sent = {}
    /\ breaks = 0 /\ throws = 0

-----------------------------------------------------------------------------
(* RabbitMQ.                                                               *)

Publish(m) ==
    /\ m \notin published
    /\ published' = published \union {m}
    /\ queue' = Append(queue, m)
    /\ UNCHANGED <<unacked, inbox, channel, pc, envelope, simulated, history,
                   breaks, throws>>

Consuming == pc \in {"wait", "callback", "ack", "reject"}

Deliver ==
    /\ channel = "open" /\ Consuming
    /\ queue # <<>>
    /\ Cardinality(unacked) < Prefetch
    /\ queue' = Tail(queue)
    /\ inbox' = Append(inbox, Head(queue))
    /\ unacked' = unacked \union {Head(queue)}
    /\ UNCHANGED <<published, channel, pc, envelope, simulated, history, breaks, throws>>

(* A channel ends: what was delivered on it and not acknowledged is ready  *)
(* again, in any order.                                                    *)
Requeue ==
    /\ \E s \in SetToSeqs(unacked) : queue' = s \o queue
    /\ unacked' = {}
    /\ UNCHANGED published

(* The client keeps the messages it has already received. *)
BreakChannel ==
    /\ channel = "open"
    /\ breaks < MaxBreaks
    /\ breaks' = breaks + 1
    /\ channel' = "broken"
    /\ Requeue
    /\ UNCHANGED <<inbox, pc, envelope, simulated, history, throws>>

(* The process is killed and started again (restart: always). *)
Restart ==
    /\ breaks < MaxBreaks
    /\ breaks' = breaks + 1
    /\ channel' = "none"
    /\ Requeue
    /\ inbox' = <<>>
    /\ pc' = "connect"
    /\ envelope' = NoMsg
    /\ simulated' = 0
    /\ UNCHANGED <<history, throws>>

-----------------------------------------------------------------------------
(* PushManager.                                                            *)

(* ParseMessage: 0 for text that is no JSON, lacks a field, or has a       *)
(* receiver_id that is no number.  receiver_id is set before content is    *)
(* read: a content that is no text throws, and the task keeps the receiver *)
(* and an empty content.                                                   *)
ParsedReceiver(m) == IF Shape[m] = "malformed" THEN 0 ELSE Receiver[m]
ParsedContent(m) == IF Shape[m] = "valid" THEN m ELSE NoMsg

(* FetchDeviceToken: the two users it knows, 1 is iOS and 2 is Android. *)
Platform(u) == CASE u = 2002 -> 1 [] u = 3003 -> 2 [] OTHER -> 0

Pushed(m) == ParsedReceiver(m) # 0 /\ Platform(ParsedReceiver(m)) # 0

(* PushMessage of the two clients: both take the text and always succeed,  *)
(* since the device tokens are not empty.                                  *)
APNsPushMessage(m) == <<m, 1, ParsedContent(m)>>
FCMPushMessage(m) == <<m, 2, ParsedContent(m)>>

(* HandleIncomingPushTask: drop, skip, or send to APNs or FCM, whose       *)
(* answers are ignored.                                                    *)
HandleIncomingPushTask(m) ==
    /\ pushes' = IF Pushed(m) THEN [pushes EXCEPT ![m] = @ + 1] ELSE pushes
    /\ sent' = CASE ~Pushed(m) -> sent
                 [] Pushed(m) /\ Platform(ParsedReceiver(m)) = 1 ->
                      sent \union {APNsPushMessage(m)}
                 [] Pushed(m) /\ Platform(ParsedReceiver(m)) = 2 ->
                      sent \union {FCMPushMessage(m)}

-----------------------------------------------------------------------------
(* StartPushService and Subscribe.                                         *)

(* Connect; when it fails StartPushService returns and main ends. *)
Connect ==
    /\ pc = "connect"
    /\ \/ channel' = "open" /\ pc' = "subscribe"
       \/ UNCHANGED channel /\ pc' = "exited"
    /\ UNCHANGED <<broker, inbox, envelope, simulated, history, breaks, throws>>

(* BasicConsume; it throws on a channel that has ended (the broker ends it *)
(* too when the queue does not exist), and Subscribe returns.              *)
BasicConsume ==
    /\ pc = "subscribe"
    /\ \/ channel = "open" /\ pc' = "wait"
       \/ channel = "broken" /\ pc' = "asleep"
    /\ UNCHANGED <<broker, inbox, channel, envelope, simulated, history, breaks, throws>>

(* Fault: the loop swallows the exception and goes round. *)
BasicConsumeMessageSpins ==
    /\ pc = "wait"
    /\ \/ /\ inbox # <<>>
          /\ envelope' = Head(inbox)
          /\ inbox' = Tail(inbox)
          /\ pc' = "callback"
       \/ /\ channel = "broken"
          /\ UNCHANGED <<pc, inbox, envelope>>
    /\ UNCHANGED <<broker, channel, simulated, history, breaks, throws>>

(* Fault: a message is acknowledged when it is taken, before the callback. *)
BasicConsumeMessageAcks ==
    /\ pc = "wait"
    /\ \/ /\ inbox # <<>>
          /\ envelope' = Head(inbox)
          /\ inbox' = Tail(inbox)
          /\ unacked' = unacked \ {Head(inbox)}
          /\ pc' = "callback"
       \/ /\ channel = "broken"
          /\ pc' = "asleep"
          /\ UNCHANGED <<inbox, envelope, unacked>>
    /\ UNCHANGED <<published, queue, channel, simulated, history, breaks, throws>>

(* BasicConsumeMessage: the next message, or the exception that ends the   *)
(* loop; Subscribe returns false, which its caller ignores.                *)
BasicConsumeMessage ==
    /\ pc = "wait"
    /\ \/ /\ inbox # <<>>
          /\ envelope' = Head(inbox)
          /\ inbox' = Tail(inbox)
          /\ pc' = "callback"
       \/ /\ channel = "broken"
          /\ pc' = "asleep"
          /\ UNCHANGED <<inbox, envelope>>
    /\ UNCHANGED <<broker, channel, simulated, history, breaks, throws>>

(* Fault: a task that was pushed is put back like one that failed. *)
CallbackRejects ==
    /\ pc = "callback"
    /\ HandleIncomingPushTask(envelope)
    /\ handled' = handled \union {envelope}
    /\ pc' = IF Pushed(envelope) THEN "reject" ELSE "ack"
    /\ UNCHANGED <<broker, inbox, channel, envelope, simulated, breaks, throws>>

(* The callback returns: the task was pushed, dropped or skipped. *)
Callback ==
    /\ pc = "callback"
    /\ HandleIncomingPushTask(envelope)
    /\ handled' = handled \union {envelope}
    /\ pc' = "ack"
    /\ UNCHANGED <<broker, inbox, channel, envelope, simulated, breaks, throws>>

(* The callback throws (memory, or the client of the push server), before  *)
(* the push was sent or after it: the message is put back in both cases.   *)
CallbackThrows ==
    /\ pc = "callback"
    /\ throws < MaxThrows
    /\ throws' = throws + 1
    /\ HandleIncomingPushTask(envelope) \/ UNCHANGED <<pushes, sent>>
    /\ pc' = "reject"
    /\ UNCHANGED <<broker, inbox, channel, envelope, simulated, handled, breaks>>

(* BasicAck does not wait for the broker: on a channel that has ended it   *)
(* throws, or it returns and the broker never learns of it.                *)
BasicAck ==
    /\ pc = "ack"
    /\ \/ /\ channel = "open"
          /\ unacked' = unacked \ {envelope}
          /\ pc' = "wait"
       \/ /\ channel = "broken"
          /\ pc' \in {"wait", "reject"}
          /\ UNCHANGED unacked
    /\ UNCHANGED <<published, queue, inbox, channel, envelope, simulated, history,
                   breaks, throws>>

(* BasicReject(requeue = true); its exception leaves the loop. *)
BasicReject ==
    /\ pc = "reject"
    /\ \/ /\ channel = "open"
          /\ unacked' = unacked \ {envelope}
          /\ queue' = <<envelope>> \o queue
          /\ pc' = "wait"
       \/ /\ channel = "broken"
          /\ pc' = "asleep"
          /\ UNCHANGED <<unacked, queue>>
    /\ UNCHANGED <<published, inbox, channel, envelope, simulated, history, breaks,
                   throws>>

(* logic_simulator starts when Subscribe has returned and calls the        *)
(* callback twice with texts of its own; the main thread sleeps for ever.  *)
Simulate ==
    /\ pc = "asleep"
    /\ simulated < 2
    /\ simulated' = simulated + 1
    /\ UNCHANGED <<broker, inbox, channel, pc, envelope, history, breaks, throws>>

-----------------------------------------------------------------------------
Main ==
    \/ Connect \/ BasicConsume \/ BasicConsumeMessage
    \/ Callback \/ CallbackThrows \/ BasicAck \/ BasicReject

Next ==
    \/ Main \/ Simulate \/ Deliver \/ BreakChannel \/ Restart
    \/ \E m \in Msgs : Publish(m)

Spec == Init /\ [][Next]_vars

(* The main thread runs, and the broker delivers what is ready. *)
FairSpec == Spec /\ WF_vars(Main) /\ WF_vars(Simulate) /\ WF_vars(Deliver)

-----------------------------------------------------------------------------
(* Types of the variables. *)
TypeOK ==
    /\ published \subseteq Msgs /\ unacked \subseteq Msgs /\ handled \subseteq Msgs
    /\ queue \in Seq(Msgs) /\ inbox \in Seq(Msgs)
    /\ Cardinality(unacked) <= Prefetch
    /\ channel \in {"none", "open", "broken"}
    /\ pc \in {"connect", "exited", "subscribe", "wait", "callback", "ack", "reject",
               "asleep"}
    /\ envelope \in Msgs \union {NoMsg}
    /\ simulated \in 0..2
    /\ pushes \in [Msgs -> Nat]
    /\ sent \subseteq Msgs \X {1, 2} \X (Msgs \union {NoMsg})
    /\ breaks \in 0..MaxBreaks /\ throws \in 0..MaxThrows

(* Subscribe acknowledges by hand, after the callback: at every moment a   *)
(* published message is with the broker or was handled, whatever breaks.   *)
NoneLost ==
    \A m \in published : m \in handled \union unacked \union ToSet(queue)

(* HandleIncomingPushTask and the acknowledgement behind it: what is sent  *)
(* goes to the platform of the receiver with the text of the message;      *)
(* malformed messages send nothing, and only a content that is no text     *)
(* makes an empty push.  A user is notified again only because a channel   *)
(* or the process ended before the acknowledgement, or because the         *)
(* callback threw after the push was sent and the message was put back: at *)
(* most once for each such end and each such exception.                    *)
PushesDue ==
    /\ \A m \in Msgs : pushes[m] <= 1 + breaks + throws
    /\ \A s \in sent :
          /\ Shape[s[1]] # "malformed"
          /\ s[2] = Platform(Receiver[s[1]])
          /\ s[3] = IF Shape[s[1]] = "contentNotText" THEN NoMsg ELSE s[1]

(* Every published message is handled, unless Subscribe has returned or    *)
(* the service never connected.                                            *)
Consumed ==
    \A m \in Msgs : m \in published ~> m \in handled \/ pc \in {"asleep", "exited"}

(* The loop behind Subscribe: "block the current thread and go on          *)
(* consuming the MQ".  A message that is published while the process is in *)
(* that loop, or was before, is handled.                                   *)
ConsumptionGoesOn ==
    \A m \in Msgs : m \in published /\ pc = "asleep" ~> m \in handled

=============================================================================

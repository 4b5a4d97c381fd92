------------------------------ MODULE TopicRelay ------------------------------
(***************************************************************************)
(* TopicRelayNode: the ROS node that echoes topics to Minecraft clients    *)
(* and publishes messages for them (nodes/ros/topic/relay.cpp).            *)
(*                                                                         *)
(* The receive thread puts commands into one queue per command type; the   *)
(* node's 50 ms drain timer empties the subscribe queue, then the          *)
(* unsubscribe queue, then the publish queue.  All callbacks of the node   *)
(* (drain timer, topic messages, timeout timers, publish timers) are in    *)
(* its default mutually exclusive callback group, so one runs at a time,   *)
(* while the receive thread enqueues at any moment, also in the middle of  *)
(* a drain: `phase' is how far the running drain callback has come.        *)
(***************************************************************************)
EXTENDS Integers, Sequences, FiniteSets

CONSTANTS
  Topics,           \* topic names
  EmptyTopic,       \* the empty topic name: "all topics" in an unsubscribe
  Types,            \* message types
  NoType,           \* the empty message type: "infer it" in a subscribe
  QosProfiles,      \* names of QoS profiles after normalisation
  KnownQos,         \* those of them QosFromProfile knows
  RequestIds,       \* request ids chosen by the clients
  SubscribeCmds,    \* the commands clients may send
  UnsubscribeCmds,
  PublishCmds,
  IdReuse,          \* FALSE: every subscribe carries an id never used before
  MaxQueue,         \* bound: commands waiting in one queue
  MaxPayloads       \* bound: payloads counted per request

\* Where an unsubscribe comes from: the datagram handler and the pruning of
\* clients hold one producer token each, and the queue is FIFO per token only.
UnsubscribeSources == {"handler", "prune"}

Rates == {"negative", "zero", "positive"}

SubscribeCmd ==
  [request_id : RequestIds, topic_name : Topics \cup {EmptyTopic},
   message_type : Types \cup {NoType}, once : BOOLEAN, timeout : BOOLEAN]

PublishCmd ==
  [request_id : RequestIds, topic_name : Topics \cup {EmptyTopic},
   message_type : Types \cup {NoType}, qos : QosProfiles, once : BOOLEAN,
   times : Nat, rate : Rates]

ASSUME RelayAssumption ==
  /\ EmptyTopic \notin Topics
  /\ NoType \notin Types
  /\ KnownQos \subseteq QosProfiles
  /\ SubscribeCmds \subseteq SubscribeCmd
  /\ UnsubscribeCmds \subseteq Topics \cup {EmptyTopic}
  /\ PublishCmds \subseteq PublishCmd
  /\ IdReuse \in BOOLEAN
  /\ MaxQueue \in Nat
  /\ MaxPayloads \in Nat

EchoRequest == [request_id : RequestIds, once : BOOLEAN]

VARIABLES
  subscribeQueue,    \* incoming TopicSubscribeCmd
  unsubscribeQueue,  \* incoming TopicUnsubscribeCmd, per producer token
  publishQueue,      \* incoming TopicPublishMessageCmd
  phase,             \* progress of the drain-timer callback
  subscriptions,     \* topic -> type and echo requests
  once_topics,       \* request id -> topic of the active request
  timeout_timers,    \* request ids with an armed timeout timer
  publishers,        \* topic -> type and QoS of its publisher
  introspection,     \* type -> introspection cache entry
  publish_timers,    \* request id -> repeated publish
  crashed,           \* the process died of an iterator or a text that was gone
  sent,              \* history: subscribe commands the clients have sent
  wanted,            \* history: ids subscribed since the topic's last unsubscribe
  payloads,          \* history: payloads enqueued per request id
  errors,            \* history: error responses enqueued per request id
  streams            \* history: what became of each publish request

queueVars   == <<subscribeQueue, unsubscribeQueue, publishQueue>>
echoVars    == <<subscriptions, once_topics, timeout_timers>>
publishVars == <<publishers, introspection, publish_timers, streams>>
clientVars  == <<sent, wanted>>
vars == <<queueVars, phase, echoVars, publishVars, crashed, clientVars, payloads, errors>>

NoSubscription == [type |-> NoType, requests |-> {}]
NoPublisher    == [type |-> NoType, qos |-> NoType]
NoTimer        == [active |-> FALSE]
NoStream       == [budget |-> 0, published |-> 0, failed |-> FALSE]

PublishTimer ==
  [active : {TRUE}, topic_name : Topics, message_type : Types,
   qos : QosProfiles, finite : BOOLEAN, remaining : Nat]

Subscription == [type : Types \cup {NoType}, requests : SUBSET EchoRequest]
Publisher    == [type : Types, qos : QosProfiles]
ErrorCodes   == {"SUBSCRIBE_FAILED", "SUBSCRIBE_TIMEOUT", "PUBLISH_FAILED"}

QueueTypes ==
  /\ subscribeQueue \in Seq(SubscribeCmd)
  /\ unsubscribeQueue \in [UnsubscribeSources -> Seq(Topics \cup {EmptyTopic})]
  /\ publishQueue \in Seq(PublishCmd)
  /\ phase \in {"idle", "subscribe", "unsubscribe", "publish"}
  /\ crashed \in BOOLEAN
  /\ sent \subseteq SubscribeCmd
  /\ wanted \in [Topics -> SUBSET RequestIds]

EchoTypes ==
  /\ subscriptions \in [Topics -> Subscription]
  /\ once_topics \in [RequestIds -> Topics \cup {EmptyTopic}]
  /\ timeout_timers \subseteq RequestIds

PublishTypes ==
  /\ publishers \in [Topics -> Publisher \cup {NoPublisher}]
  /\ introspection \in [Types -> {"unknown", "loaded", "failed"}]
  /\ publish_timers \in [RequestIds -> PublishTimer \cup {NoTimer}]
  /\ streams \in [RequestIds -> [budget : Nat, published : Nat, failed : BOOLEAN]]

ResponseTypes ==
  /\ payloads \in [RequestIds -> Nat]
  /\ errors \subseteq RequestIds \X ErrorCodes

TypeOK == QueueTypes /\ EchoTypes /\ PublishTypes /\ ResponseTypes

Init ==
  /\ subscribeQueue = <<>>
  /\ unsubscribeQueue = [s \in UnsubscribeSources |-> <<>>]
  /\ publishQueue = <<>>
  /\ phase = "idle"
  /\ subscriptions = [t \in Topics |-> NoSubscription]
  /\ once_topics = [id \in RequestIds |-> EmptyTopic]
  /\ timeout_timers = {}
  /\ publishers = [t \in Topics |-> NoPublisher]
  /\ introspection = [type \in Types |-> "unknown"]
  /\ publish_timers = [id \in RequestIds |-> NoTimer]
  /\ crashed = FALSE
  /\ sent = {}
  /\ wanted = [t \in Topics |-> {}]
  /\ payloads = [id \in RequestIds |-> 0]
  /\ errors = {}
  /\ streams = [id \in RequestIds |-> NoStream]

-------------------------------------------------------------------------------
(***************************************************************************)
(* The receive thread and the pruning of clients: enqueue only.            *)
(***************************************************************************)
EnqueueSubscribe(cmd) ==
  /\ Len(subscribeQueue) < MaxQueue
  /\ IdReuse \/ \A c \in sent : c.request_id # cmd.request_id
  /\ subscribeQueue' = Append(subscribeQueue, cmd)
  /\ sent' = sent \cup {cmd}
  /\ wanted' = [t \in Topics |->
       IF t = cmd.topic_name THEN wanted[t] \cup {cmd.request_id} ELSE wanted[t]]
  /\ UNCHANGED <<unsubscribeQueue, publishQueue, phase, echoVars, publishVars,
                 crashed, payloads, errors>>

EnqueueUnsubscribe(source, topic) ==
  /\ Len(unsubscribeQueue[source]) < MaxQueue
  /\ source = "prune" => topic = EmptyTopic
  /\ unsubscribeQueue' = [unsubscribeQueue EXCEPT ![source] = Append(@, topic)]
  /\ wanted' = [t \in Topics |-> IF topic \in {t, EmptyTopic} THEN {} ELSE wanted[t]]
  /\ UNCHANGED <<subscribeQueue, publishQueue, phase, echoVars, publishVars,
                 crashed, sent, payloads, errors>>

EnqueuePublish(cmd) ==
  /\ Len(publishQueue) < MaxQueue
  /\ publishQueue' = Append(publishQueue, cmd)
  /\ UNCHANGED <<subscribeQueue, unsubscribeQueue, phase, echoVars, publishVars,
                 crashed, clientVars, payloads, errors>>

Receive ==
  /\ ~crashed
  /\ \/ \E cmd \in SubscribeCmds : EnqueueSubscribe(cmd)
     \/ \E s \in UnsubscribeSources, t \in UnsubscribeCmds : EnqueueUnsubscribe(s, t)
     \/ \E cmd \in PublishCmds : EnqueuePublish(cmd)

-------------------------------------------------------------------------------
(***************************************************************************)
(* Echo: subscribe, message, timeout, unsubscribe.                         *)
(***************************************************************************)
Subscribed(t) == subscriptions[t] # NoSubscription
Registered(t, id) == \E r \in subscriptions[t].requests : r.request_id = id

SendError(id, code) == errors' = errors \cup {<<id, code>>}

\* The type a subscribe asks for: its own, else the one of the existing
\* subscription, else the one the ROS graph knows at this moment.
ResolvedType(cmd, discovered) ==
  IF cmd.message_type # NoType THEN cmd.message_type
  ELSE IF Subscribed(cmd.topic_name) THEN subscriptions[cmd.topic_name].type
  ELSE discovered

RejectSubscribe(cmd) ==
  /\ SendError(cmd.request_id, "SUBSCRIBE_FAILED")
  /\ UNCHANGED <<echoVars, payloads>>

\* Append the request unless the topic has one with this id already, index
\* it, and arm its timer; an armed timer of the same id is replaced.
RegisterRequest(cmd, type) ==
  LET t == cmd.topic_name
      id == cmd.request_id
      request == [request_id |-> id, once |-> cmd.once]
  IN IF Registered(t, id)
     THEN UNCHANGED echoVars
     ELSE /\ subscriptions' = [subscriptions EXCEPT ![t] =
               [type |-> type, requests |-> @.requests \cup {request}]]
          /\ once_topics' = [once_topics EXCEPT ![id] = t]
          /\ timeout_timers' = IF cmd.timeout THEN timeout_timers \cup {id}
                                              ELSE timeout_timers

\* `discovered' is the answer of the ROS graph and `creatable' whether
\* create_generic_subscription succeeds; both are up to the ROS system.
Subscribe(cmd) ==
  \E discovered \in Types \cup {NoType}, creatable \in BOOLEAN :
    \/ /\ cmd.topic_name = EmptyTopic
       /\ RejectSubscribe(cmd)
    \/ /\ cmd.topic_name # EmptyTopic
       /\ LET type == ResolvedType(cmd, discovered)
              accepted == /\ type # NoType
                          /\ IF Subscribed(cmd.topic_name)
                             THEN subscriptions[cmd.topic_name].type = type
                             ELSE creatable
          IN \/ /\ accepted
                /\ RegisterRequest(cmd, type)
                /\ UNCHANGED <<payloads, errors>>
             \/ /\ ~accepted
                /\ RejectSubscribe(cmd)

DrainSubscribeCommands ==
  /\ phase = "subscribe"
  /\ subscribeQueue # <<>>
  /\ Subscribe(Head(subscribeQueue))
  /\ subscribeQueue' = Tail(subscribeQueue)
  /\ UNCHANGED <<unsubscribeQueue, publishQueue, phase, publishVars, crashed, clientVars>>

\* Mutant: the subscription is kept when its last request goes.
KeepSubscription(t, ids) ==
  [subscriptions EXCEPT ![t].requests = {r \in @ : r.request_id \notin ids}]

\* The subscriptions that remain when the requests with the ids in `ids' are
\* taken from topic t; a subscription without requests is destroyed.
WithoutRequests(t, ids) ==
  LET left == {r \in subscriptions[t].requests : r.request_id \notin ids}
  IN [subscriptions EXCEPT ![t] =
        IF left = {} THEN NoSubscription ELSE [@ EXCEPT !.requests = left]]

ForgetIds(ids) ==
  /\ once_topics' = [id \in RequestIds |-> IF id \in ids THEN EmptyTopic ELSE once_topics[id]]
  /\ timeout_timers' = timeout_timers \ ids

\* Mutant: the timers stay armed.
RemoveKeepingTimers(t, ids) ==
  /\ subscriptions' = WithoutRequests(t, ids)
  /\ once_topics' = [id \in RequestIds |-> IF id \in ids THEN EmptyTopic ELSE once_topics[id]]
  /\ UNCHANGED timeout_timers

\* Removes the requests with these ids from the topic, their index entries and timers.
RemoveTopicRequests(t, ids) ==
  /\ subscriptions' = WithoutRequests(t, ids)
  /\ ForgetIds(ids)

\* Mutant: one-shot requests are served and stay.
ServeEveryRequest(t) ==
  LET receivers == {r.request_id : r \in subscriptions[t].requests}
  IN /\ phase = "idle"
     /\ Subscribed(t)
     /\ \A id \in receivers : payloads[id] < MaxPayloads
     /\ payloads' = [id \in RequestIds |->
                       IF id \in receivers THEN payloads[id] + 1 ELSE payloads[id]]
     /\ UNCHANGED <<queueVars, phase, echoVars, publishVars, crashed, clientVars, errors>>

HandleTopicMessage(t) ==
  LET requests == subscriptions[t].requests
      receivers == {r.request_id : r \in requests}
      oneShot == {r.request_id : r \in {q \in requests : q.once}}
  IN /\ phase = "idle"
     /\ Subscribed(t)
     /\ \A id \in receivers : payloads[id] < MaxPayloads
     /\ payloads' = [id \in RequestIds |->
                       IF id \in receivers THEN payloads[id] + 1 ELSE payloads[id]]
     /\ RemoveTopicRequests(t, oneShot)
     /\ UNCHANGED <<queueVars, phase, publishVars, crashed, clientVars, errors>>

\* Mutant: the error is sent and the index cleaned, the request stays.
TimeoutKeepsRequest(id) ==
  /\ phase = "idle"
  /\ id \in timeout_timers
  /\ ForgetIds({id})
  /\ IF once_topics[id] = EmptyTopic THEN UNCHANGED errors ELSE SendError(id, "SUBSCRIBE_TIMEOUT")
  /\ UNCHANGED <<queueVars, phase, subscriptions, publishVars, crashed, clientVars, payloads>>

\* Mutant: the timeout takes every request of its topic out.
TimeoutTakesAll(id) ==
  LET t == once_topics[id]
  IN /\ phase = "idle"
     /\ id \in timeout_timers
     /\ t # EmptyTopic
     /\ RemoveTopicRequests(t, {r.request_id : r \in subscriptions[t].requests})
     /\ SendError(id, "SUBSCRIBE_TIMEOUT")
     /\ UNCHANGED <<queueVars, phase, publishVars, crashed, clientVars, payloads>>

\* The timeout timer looks its topic up in the index; it fires once, as the
\* handler destroys it.  ForgetIds erases the entry whose topic the handler
\* then formats into the text of the error, from memory that is freed: whether
\* the process survives is undefined.
TimeoutFires(id) ==
  LET t == once_topics[id]
  IN /\ phase = "idle"
     /\ id \in timeout_timers
     /\ IF t = EmptyTopic
        THEN ForgetIds({id}) /\ UNCHANGED <<subscriptions, crashed, errors>>
        ELSE /\ RemoveTopicRequests(t, {id})
             /\ crashed' \in BOOLEAN
             /\ SendError(id, "SUBSCRIBE_TIMEOUT")
     /\ UNCHANGED <<queueVars, phase, publishVars, clientVars, payloads>>

IdsOf(topics) == UNION {{r.request_id : r \in subscriptions[t].requests} : t \in topics}

\* Mutant: the timers are cancelled, the index entries stay.
UnsubscribeKeepingIndex(topics) ==
  /\ subscriptions' = [t \in Topics |-> IF t \in topics THEN NoSubscription ELSE subscriptions[t]]
  /\ timeout_timers' = timeout_timers \ IdsOf(topics)
  /\ UNCHANGED once_topics

UnsubscribeTopics(topics) ==
  /\ subscriptions' = [t \in Topics |-> IF t \in topics THEN NoSubscription ELSE subscriptions[t]]
  /\ ForgetIds(IdsOf(topics))

\* The empty name asks for every topic.  The loop erases the element its
\* iterator is at and then advances the iterator: what is removed after the
\* first topic, and whether the process survives, is undefined.
Unsubscribe(topic) ==
  LET all == {t \in Topics : Subscribed(t)}
  IN \/ /\ topic # EmptyTopic
        /\ UnsubscribeTopics({topic})
        /\ UNCHANGED crashed
     \/ /\ topic = EmptyTopic
        /\ all = {}
        /\ UNCHANGED <<echoVars, crashed>>
     \/ /\ topic = EmptyTopic
        /\ \E removed \in SUBSET all \ {{}} : UnsubscribeTopics(removed)
        /\ crashed' \in BOOLEAN

DrainUnsubscribeCommands ==
  /\ phase = "unsubscribe"
  /\ \E source \in UnsubscribeSources :
       /\ unsubscribeQueue[source] # <<>>
       /\ Unsubscribe(Head(unsubscribeQueue[source]))
       /\ unsubscribeQueue' = [unsubscribeQueue EXCEPT ![source] = Tail(@)]
  /\ UNCHANGED <<subscribeQueue, publishQueue, phase, publishVars, clientVars, payloads, errors>>

-------------------------------------------------------------------------------
(***************************************************************************)
(* Publish: one message now, the rest of a stream from a timer.            *)
(***************************************************************************)

\* once means a single message, and so does a stream with no count and no rate.
\* Zero is a stream without end.
EffectiveTimes(cmd) ==
  IF cmd.once \/ (cmd.times = 0 /\ cmd.rate = "zero") THEN 1 ELSE cmd.times

\* Mutant: any publisher of the topic will do.
AnyPublisherUsable(t, type, qos, creatable) ==
  publishers[t] # NoPublisher \/ (qos \in KnownQos /\ creatable)

\* EnsurePublisher: the publishers after a publish of this type and QoS, or
\* no change when an existing publisher has others or none can be made.
PublisherUsable(t, type, qos, creatable) ==
  IF publishers[t] # NoPublisher
  THEN publishers[t] = [type |-> type, qos |-> qos]
  ELSE qos \in KnownQos /\ creatable

EnsurePublisher(t, type, qos, creatable) ==
  publishers' = IF PublisherUsable(t, type, qos, creatable)
                THEN [publishers EXCEPT ![t] = [type |-> type, qos |-> qos]]
                ELSE publishers

InvalidPublish(cmd) ==
  \/ cmd.topic_name = EmptyTopic
  \/ cmd.message_type = NoType
  \/ cmd.rate = "negative"

\* The payload cannot be serialised: the introspection of its type failed to
\* load, now or earlier (the failure is cached), or its YAML does not fit.
LoadIntrospection(type, loaded) ==
  introspection' = [introspection EXCEPT ![type] =
                      IF @ # "unknown" THEN @ ELSE IF loaded THEN "loaded" ELSE "failed"]

\* Mutant: the message published at once is not counted.
RemainingAll(times) == times

\* What is left to the timer after the message published at once.
RemainingAfterFirst(times) == IF times > 0 THEN times - 1 ELSE 0

\* The previous stream of the id ends whatever becomes of the new one.
RunStream(cmd, readable, creatable, published) ==
  LET id == cmd.request_id
      t == cmd.topic_name
      times == EffectiveTimes(cmd)
      ok == /\ readable
            /\ PublisherUsable(t, cmd.message_type, cmd.qos, creatable)
            /\ published
  IN /\ IF readable
        THEN EnsurePublisher(t, cmd.message_type, cmd.qos, creatable)
        ELSE UNCHANGED publishers
     /\ publish_timers' = [publish_timers EXCEPT ![id] =
          IF ok /\ times # 1
          THEN [active |-> TRUE, topic_name |-> t, message_type |-> cmd.message_type,
                qos |-> cmd.qos, finite |-> times > 0,
                remaining |-> RemainingAfterFirst(times)]
          ELSE NoTimer]
     /\ streams' = [streams EXCEPT ![id] =
          [budget |-> times, published |-> IF ok THEN 1 ELSE 0, failed |-> ~ok]]
     /\ IF ok THEN UNCHANGED errors ELSE SendError(id, "PUBLISH_FAILED")

\* loaded, readable, creatable and published are outcomes the ROS system and
\* the payload decide; without introspection no payload is readable.
StartStream(cmd) ==
  \E loaded, readable, creatable, published \in BOOLEAN :
    /\ LoadIntrospection(cmd.message_type, loaded)
    /\ readable => introspection'[cmd.message_type] = "loaded"
    /\ RunStream(cmd, readable, creatable, published)

Publish(cmd) ==
  \/ /\ InvalidPublish(cmd)
     /\ SendError(cmd.request_id, "PUBLISH_FAILED")
     /\ UNCHANGED publishVars
  \/ /\ ~InvalidPublish(cmd)
     /\ StartStream(cmd)

DrainPublishCommands ==
  /\ phase = "publish"
  /\ publishQueue # <<>>
  /\ Publish(Head(publishQueue))
  /\ publishQueue' = Tail(publishQueue)
  /\ UNCHANGED <<subscribeQueue, unsubscribeQueue, phase, echoVars, crashed, clientVars, payloads>>

\* Mutant: the count goes down, and past zero.
ContinuedPastZero(timer, ok) ==
  IF ~ok THEN NoTimer
  ELSE IF timer.finite THEN [timer EXCEPT !.remaining = @ - 1]
  ELSE timer

\* The timer of a stream after a tick: it ends at zero or at a failure.
Continued(timer, ok) ==
  LET left == IF timer.remaining = 0 THEN 0 ELSE timer.remaining - 1
  IN IF ~ok \/ (timer.finite /\ left = 0) THEN NoTimer
     ELSE IF timer.finite THEN [timer EXCEPT !.remaining = left]
     ELSE timer

\* The timer's callback.  Messages of an endless stream are not counted.
PublishTimerFires(id) ==
  LET timer == publish_timers[id]
  IN /\ phase = "idle"
     /\ timer # NoTimer
     /\ \E creatable, published \in BOOLEAN :
          LET ok == published /\ PublisherUsable(timer.topic_name, timer.message_type,
                                                 timer.qos, creatable)
          IN /\ EnsurePublisher(timer.topic_name, timer.message_type, timer.qos, creatable)
             /\ publish_timers' = [publish_timers EXCEPT ![id] = Continued(timer, ok)]
             /\ streams' = [streams EXCEPT ![id] =
                  [budget    |-> @.budget,
                   published |-> IF ok /\ timer.finite THEN @.published + 1 ELSE @.published,
                   failed    |-> ~ok]]
             /\ IF ok THEN UNCHANGED errors ELSE SendError(id, "PUBLISH_FAILED")
     /\ UNCHANGED <<queueVars, phase, echoVars, introspection, crashed, clientVars, payloads>>

-------------------------------------------------------------------------------
(***************************************************************************)
(* The drain-timer callback.                                               *)
(***************************************************************************)
UnsubscribeQueueEmpty == \A s \in UnsubscribeSources : unsubscribeQueue[s] = <<>>

DrainTimerFires ==
  /\ phase = "idle"
  /\ phase' = "subscribe"
  /\ UNCHANGED <<queueVars, echoVars, publishVars, crashed, clientVars, payloads, errors>>

\* A drain loop ends when its queue is found empty.
DrainProceeds ==
  /\ \/ phase = "subscribe" /\ subscribeQueue = <<>> /\ phase' = "unsubscribe"
     \/ phase = "unsubscribe" /\ UnsubscribeQueueEmpty /\ phase' = "publish"
     \/ phase = "publish" /\ publishQueue = <<>> /\ phase' = "idle"
  /\ UNCHANGED <<queueVars, echoVars, publishVars, crashed, clientVars, payloads, errors>>

DrainStep ==
  /\ ~crashed
  /\ \/ DrainTimerFires
     \/ DrainSubscribeCommands
     \/ DrainUnsubscribeCommands
     \/ DrainPublishCommands
     \/ DrainProceeds

Message(t) == ~crashed /\ HandleTopicMessage(t)
Timeout(id) == ~crashed /\ TimeoutFires(id)
Republish(id) == ~crashed /\ PublishTimerFires(id)

Next ==
  \/ Receive
  \/ DrainStep
  \/ \E t \in Topics : Message(t)
  \/ \E id \in RequestIds : Timeout(id) \/ Republish(id)

Spec == Init /\ [][Next]_vars

\* The executor keeps serving ready timers: the drain and the armed timers run
\* again and again between the other callbacks.  Nothing obliges a client to
\* send or a topic to have messages.  A tick of an endless stream changes
\* nothing unless it fails, which it need not: fairness is about the finite.
RepublishFinite(id) ==
  publish_timers[id] # NoTimer /\ publish_timers[id].finite /\ Republish(id)

Fairness ==
  /\ WF_vars(DrainStep)
  /\ \A id \in RequestIds : SF_vars(Timeout(id)) /\ SF_vars(RepublishFinite(id))

FairSpec == Spec /\ Fairness

-------------------------------------------------------------------------------
(***************************************************************************)
(* What the node promises, as a service without index, timers per id, or   *)
(* shared subscriptions.                                                   *)
(***************************************************************************)
QueuedIds == {subscribeQueue[i].request_id : i \in DOMAIN subscribeQueue}

LiveRequests ==
  UNION {{[request_id |-> r.request_id, topic_name |-> t, once |-> r.once] :
            r \in subscriptions[t].requests} : t \in Topics}

Echo == INSTANCE EchoService WITH
  live     <- LiveRequests,
  deadline <- timeout_timers,
  used     <- {c.request_id : c \in sent} \ QueuedIds,
  expired  <- {id \in RequestIds : <<id, "SUBSCRIBE_TIMEOUT">> \in errors}

\* The relay implements the echo service: in every interleaving of commands,
\* messages and timers, taking a request out through the topic index removes
\* that request and no other (RemoveTopicRequest, UnsubscribeTopic).
EchoServiceSpec == Echo!Spec
-------------------------------------------------------------------------------
(***************************************************************************)
(* Safety of the echo side.                                                *)
(***************************************************************************)
TimedOut(id) == <<id, "SUBSCRIBE_TIMEOUT">> \in errors
Refused(id)  == <<id, "SUBSCRIBE_FAILED">> \in errors

\* No ROS subscription outlives its last request, whichever of a one-shot
\* message, a timeout or an unsubscribe took the request out: nothing else
\* would ever destroy it (RemoveTopicRequest, UnsubscribeTopic).
NoIdleSubscription ==
  \A t \in Topics : Subscribed(t) => subscriptions[t].requests # {}

\* Every armed timeout timer belongs to an active request, also when ids
\* collide: no timer is left to fire for a request that ended, or to end a
\* later one of the same id (ClearTimeout on every removal path).
NoOrphanTimer == \A id \in timeout_timers : once_topics[id] # EmptyTopic

\* With fresh ids the index names exactly the topic each active request is
\* registered at, so a timeout removes its own request and no other.
IndexAgrees ==
  \A id \in RequestIds, t \in Topics : Registered(t, id) <=> once_topics[id] = t

\* A one-shot echo gets one outcome: a single payload, or the timeout, or a
\* refusal, never two of them, and while it is active it has had none
\* (HandleTopicMessage against the timeout timer and the queues).
Outcomes(id) ==
  payloads[id] + (IF TimedOut(id) THEN 1 ELSE 0) + (IF Refused(id) THEN 1 ELSE 0)

OnceHasOneOutcome ==
  \A c \in sent : c.once =>
    /\ Outcomes(c.request_id) <= 1
    /\ c.topic_name \in Topics /\ Registered(c.topic_name, c.request_id)
         => Outcomes(c.request_id) = 0

\* Once a request was told that it timed out, it gets no payload any more:
\* the ROS callback of a topic never serves a request its timer has ended.
SilentAfterTimeout ==
  [][\A id \in RequestIds : TimedOut(id) => payloads'[id] = payloads[id]]_vars

Drained ==
  /\ ~crashed
  /\ phase = "idle"
  /\ subscribeQueue = <<>>
  /\ UnsubscribeQueueEmpty

\* A subscribe "asks the bridge to start forwarding a topic's messages", an
\* unsubscribe "to stop": with all commands handled a topic has the requests
\* sent after its last unsubscribe, unless they ended or were refused, and no
\* others (DrainSubscribeCommands and DrainUnsubscribeCommands in turn).
LastCommandStands ==
  Drained => \A t \in Topics :
    /\ \A r \in subscriptions[t].requests : r.request_id \in wanted[t]
    /\ \A c \in sent :
         c.topic_name = t /\ c.request_id \in wanted[t] /\ ~c.once /\ ~c.timeout
           => Registered(t, c.request_id) \/ Refused(c.request_id)

(***************************************************************************)
(* Safety of the publish side.                                             *)
(***************************************************************************)
StreamActive(id) == publish_timers[id] # NoTimer

\* A running stream's topic has a publisher of the stream's type and QoS: a
\* later publish to the topic with others is refused and cannot redirect or
\* break the stream (EnsurePublisher, the timer callback).
StreamHasPublisher ==
  \A id \in RequestIds : StreamActive(id) =>
    publishers[publish_timers[id].topic_name] =
      [type |-> publish_timers[id].message_type, qos |-> publish_timers[id].qos]

\* A finite stream publishes exactly as many messages as were asked for: what
\* it has published and what its timer still owes add up to the count, and
\* when it ends without a failure nothing is owed (Publish, the timer callback).
StreamBudget ==
  \A id \in RequestIds :
    LET stream == streams[id]
        timer == publish_timers[id]
    IN IF StreamActive(id)
       THEN /\ ~stream.failed
            /\ timer.finite <=> stream.budget > 0
            /\ timer.finite => /\ timer.remaining >= 1
                               /\ stream.published + timer.remaining = stream.budget
       ELSE ~stream.failed => stream.published = stream.budget

(***************************************************************************)
(* Liveness.                                                               *)
(***************************************************************************)

\* The drain loops have no bound: a client that keeps a queue filled as fast as
\* the node empties it keeps every timer of the node from firing.  Liveness is
\* stated for the runs in which each drain ends (and the process survives).
DrainsEnd == []<>(phase = "idle" /\ ~crashed)

\* A subscribe with a timeout does not stay open for ever, and a finite stream
\* ends: all those that were sent come to their end when publish commands stop
\* coming (the drain, the timeout timers, the countdown of the publish timers).
Settled ==
  /\ \A c \in sent : c.timeout =>
       c.request_id \notin QueuedIds /\ once_topics[c.request_id] = EmptyTopic
  /\ \A id \in RequestIds : StreamActive(id) => streams[id].budget = 0

RelaySettles == DrainsEnd /\ <>[](publishQueue = <<>>) => []<>Settled
===========================================================================

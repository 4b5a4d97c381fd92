--------------------------- MODULE TopicRelayProofs ---------------------------
(***************************************************************************)
(* Proofs about TopicRelay, for all topics, types, ids and commands.       *)
(***************************************************************************)
EXTENDS TopicRelay, TLAPS

-------------------------------------------------------------------------------
(***************************************************************************)
(* Type correctness.                                                       *)
(***************************************************************************)

\* Taking requests out of a topic leaves well-typed subscriptions.
LEMMA WithoutRequestsType ==
  ASSUME EchoTypes, NEW t \in Topics, NEW ids
  PROVE  WithoutRequests(t, ids) \in [Topics -> Subscription]
  BY DEF WithoutRequests, EchoTypes, NoSubscription, Subscription

\* Erasing ids from the index and the timers keeps both well-typed.
LEMMA ForgetIdsType ==
  ASSUME EchoTypes, NEW ids, ForgetIds(ids)
  PROVE  /\ once_topics' \in [RequestIds -> Topics \cup {EmptyTopic}]
         /\ timeout_timers' \subseteq RequestIds
  BY DEF ForgetIds, EchoTypes

\* Unsubscribing from a set of topics keeps the echo state well-typed.
LEMMA UnsubscribeTopicsType ==
  ASSUME EchoTypes, NEW topics, UnsubscribeTopics(topics)
  PROVE  EchoTypes'
  BY ForgetIdsType DEF UnsubscribeTopics, EchoTypes, NoSubscription, Subscription

\* Registering a request keeps the echo state well-typed.
LEMMA RegisterRequestType ==
  ASSUME EchoTypes, NEW cmd \in SubscribeCmd, cmd.topic_name \in Topics,
         NEW type \in Types \cup {NoType}, RegisterRequest(cmd, type)
  PROVE  EchoTypes'
<1> DEFINE t == cmd.topic_name
           id == cmd.request_id
           request == [request_id |-> id, once |-> cmd.once]
<1>1. CASE Registered(t, id)
  BY <1>1 DEF RegisterRequest, EchoTypes, echoVars
<1>2. CASE ~Registered(t, id)
  <2>1. id \in RequestIds /\ request \in EchoRequest
    BY DEF SubscribeCmd, EchoRequest
  <2>2. [type |-> type, requests |-> subscriptions[t].requests \cup {request}]
          \in Subscription
    BY <2>1 DEF EchoTypes, Subscription
  <2>3. QED
    BY <1>2, <2>1, <2>2 DEF RegisterRequest, EchoTypes
<1>3. QED
  BY <1>1, <1>2

\* Handling one subscribe command keeps the echo and response state well-typed.
LEMMA SubscribeType ==
  ASSUME EchoTypes, ResponseTypes, NEW cmd \in SubscribeCmd, Subscribe(cmd)
  PROVE  EchoTypes' /\ ResponseTypes'
<1>1. CASE RejectSubscribe(cmd)
  BY <1>1 DEF RejectSubscribe, SendError, echoVars, EchoTypes, ResponseTypes, ErrorCodes,
     SubscribeCmd
<1>2. ASSUME cmd.topic_name # EmptyTopic,
             NEW discovered \in Types \cup {NoType},
             RegisterRequest(cmd, ResolvedType(cmd, discovered)),
             UNCHANGED <<payloads, errors>>
      PROVE  EchoTypes' /\ ResponseTypes'
  <2>1. cmd.topic_name \in Topics
    BY <1>2 DEF SubscribeCmd
  <2>2. ResolvedType(cmd, discovered) \in Types \cup {NoType}
    BY <2>1 DEF ResolvedType, SubscribeCmd, EchoTypes, Subscription
  <2>3. EchoTypes'
    BY <1>2, <2>1, <2>2, RegisterRequestType
  <2>4. QED
    BY <1>2, <2>3 DEF ResponseTypes
<1>3. QED
  BY <1>1, <1>2 DEF Subscribe

\* Handling one publish command keeps the publish and response state well-typed.
LEMMA PublishType ==
  ASSUME PublishTypes, ResponseTypes, NEW cmd \in PublishCmd, Publish(cmd),
         UNCHANGED payloads
  PROVE  PublishTypes' /\ ResponseTypes'
<1>1. CASE InvalidPublish(cmd) /\ UNCHANGED publishVars
                               /\ SendError(cmd.request_id, "PUBLISH_FAILED")
  BY <1>1 DEF SendError, publishVars, PublishTypes, ResponseTypes, ErrorCodes, PublishCmd
<1>2. CASE ~InvalidPublish(cmd) /\ StartStream(cmd)
  <2> DEFINE id == cmd.request_id
             t == cmd.topic_name
             times == EffectiveTimes(cmd)
  <2>1. /\ id \in RequestIds /\ t \in Topics /\ cmd.message_type \in Types
        /\ cmd.qos \in QosProfiles /\ times \in Nat
    BY <1>2 DEF InvalidPublish, PublishCmd, EffectiveTimes
  <2>2. introspection' \in [Types -> {"unknown", "loaded", "failed"}]
    BY <1>2, <2>1 DEF StartStream, LoadIntrospection, RunStream, PublishTypes
  <2>3. publishers' \in [Topics -> Publisher \cup {NoPublisher}]
    BY <1>2, <2>1 DEF StartStream, RunStream, EnsurePublisher, PublishTypes, Publisher
  <2>4. publish_timers' \in [RequestIds -> PublishTimer \cup {NoTimer}]
    <3>1. [active |-> TRUE, topic_name |-> t, message_type |-> cmd.message_type,
           qos |-> cmd.qos, finite |-> times > 0,
           remaining |-> IF times > 0 THEN times - 1 ELSE 0] \in PublishTimer
      BY <2>1 DEF PublishTimer
    <3>2. QED
      BY <1>2, <2>1, <3>1 DEF StartStream, RunStream, RemainingAfterFirst, PublishTypes
  <2>5. streams' \in [RequestIds -> [budget : Nat, published : Nat, failed : BOOLEAN]]
    BY <1>2, <2>1 DEF StartStream, RunStream, RemainingAfterFirst, PublishTypes
  <2>6. ResponseTypes'
    BY <1>2, <2>1 DEF StartStream, RunStream, SendError, ResponseTypes, ErrorCodes
  <2>7. QED
    BY <2>2, <2>3, <2>4, <2>5, <2>6 DEF PublishTypes
<1>3. QED
  BY <1>1, <1>2 DEF Publish

\* One firing of a publish timer keeps the publish and response state well-typed.
LEMMA PublishTimerType ==
  ASSUME PublishTypes, ResponseTypes, NEW id \in RequestIds, PublishTimerFires(id)
  PROVE  PublishTypes' /\ ResponseTypes'
<1> DEFINE timer == publish_timers[id]
           left == IF timer.remaining = 0 THEN 0 ELSE timer.remaining - 1
<1>1. timer \in PublishTimer
  BY DEF PublishTimerFires, PublishTypes
<1>2. left \in Nat
  <2>1. timer.remaining \in Nat
    BY <1>1 DEF PublishTimer
  <2>2. QED
    BY <2>1, SMT
<1>3. publishers' \in [Topics -> Publisher \cup {NoPublisher}]
  BY <1>1 DEF PublishTimerFires, EnsurePublisher, PublishTypes, Publisher, PublishTimer
<1>4. publish_timers' \in [RequestIds -> PublishTimer \cup {NoTimer}]
  <2>1. [timer EXCEPT !.remaining = left] \in PublishTimer
    BY <1>1, <1>2 DEF PublishTimer
  <2>2. QED
    BY <1>1, <2>1 DEF PublishTimerFires, Continued, PublishTypes
<1>5. streams' \in [RequestIds -> [budget : Nat, published : Nat, failed : BOOLEAN]]
  BY DEF PublishTimerFires, Continued, PublishTypes
<1>6. introspection' = introspection /\ payloads' = payloads
  BY DEF PublishTimerFires, queueVars, echoVars, clientVars
<1>7. ResponseTypes'
  BY <1>6 DEF PublishTimerFires, SendError, ResponseTypes, ErrorCodes
<1>8. QED
  BY <1>3, <1>4, <1>5, <1>6, <1>7 DEF PublishTypes

\* Every step keeps the types.
LEMMA TypeStep == TypeOK /\ [Next]_vars => TypeOK'
<1> SUFFICES ASSUME TypeOK, [Next]_vars PROVE TypeOK'
  OBVIOUS
<1> USE DEF TypeOK
<1>1. CASE Receive
  <2>1. ASSUME NEW cmd \in SubscribeCmds, EnqueueSubscribe(cmd) PROVE TypeOK'
    <3>1. cmd \in SubscribeCmd
      BY RelayAssumption
    <3>2. cmd.request_id \in RequestIds
      BY <3>1 DEF SubscribeCmd
    <3>3. QED
      BY <2>1, <3>1, <3>2 DEF EnqueueSubscribe, QueueTypes, EchoTypes, PublishTypes,
         ResponseTypes, echoVars, publishVars
  <2>2. ASSUME NEW s \in UnsubscribeSources, NEW t \in UnsubscribeCmds,
               EnqueueUnsubscribe(s, t)
        PROVE  TypeOK'
    <3>1. t \in Topics \cup {EmptyTopic}
      BY RelayAssumption
    <3>2. QED
      BY <2>2, <3>1 DEF EnqueueUnsubscribe, QueueTypes, EchoTypes, PublishTypes,
         ResponseTypes, echoVars, publishVars
  <2>3. ASSUME NEW cmd \in PublishCmds, EnqueuePublish(cmd) PROVE TypeOK'
    BY <2>3, RelayAssumption DEF EnqueuePublish, QueueTypes, EchoTypes, PublishTypes,
       ResponseTypes, echoVars, publishVars, clientVars
  <2>4. QED
    BY <1>1, <2>1, <2>2, <2>3 DEF Receive
<1>2. CASE DrainStep
  <2>1. CASE DrainTimerFires \/ DrainProceeds
    BY <2>1 DEF DrainTimerFires, DrainProceeds, queueVars, echoVars, publishVars, clientVars,
       QueueTypes, EchoTypes, PublishTypes, ResponseTypes
  <2>2. CASE DrainSubscribeCommands
    <3>1. /\ Head(subscribeQueue) \in SubscribeCmd
          /\ Tail(subscribeQueue) \in Seq(SubscribeCmd)
      BY <2>2 DEF DrainSubscribeCommands, QueueTypes
    <3>2. EchoTypes' /\ ResponseTypes'
      BY <2>2, <3>1, SubscribeType DEF DrainSubscribeCommands
    <3>3. QED
      BY <2>2, <3>1, <3>2 DEF DrainSubscribeCommands, QueueTypes, PublishTypes,
         publishVars, clientVars
  <2>3. CASE DrainUnsubscribeCommands
    <3>1. PICK source \in UnsubscribeSources :
            /\ unsubscribeQueue[source] # <<>>
            /\ Unsubscribe(Head(unsubscribeQueue[source]))
            /\ unsubscribeQueue' = [unsubscribeQueue EXCEPT ![source] = Tail(@)]
      BY <2>3 DEF DrainUnsubscribeCommands
    <3>2. EchoTypes' /\ crashed' \in BOOLEAN
      BY <3>1, UnsubscribeTopicsType DEF Unsubscribe, echoVars, EchoTypes, QueueTypes
    <3>3. unsubscribeQueue' \in [UnsubscribeSources -> Seq(Topics \cup {EmptyTopic})]
      BY <3>1 DEF QueueTypes
    <3>4. QED
      BY <2>3, <3>2, <3>3 DEF DrainUnsubscribeCommands, QueueTypes, PublishTypes,
         ResponseTypes, publishVars, clientVars
  <2>4. CASE DrainPublishCommands
    <3>1. /\ Head(publishQueue) \in PublishCmd
          /\ Tail(publishQueue) \in Seq(PublishCmd)
      BY <2>4 DEF DrainPublishCommands, QueueTypes
    <3>2. PublishTypes' /\ ResponseTypes'
      BY <2>4, <3>1, PublishType DEF DrainPublishCommands
    <3>3. QED
      BY <2>4, <3>1, <3>2 DEF DrainPublishCommands, QueueTypes, EchoTypes, echoVars, clientVars
  <2>5. QED
    BY <1>2, <2>1, <2>2, <2>3, <2>4 DEF DrainStep
<1>3. ASSUME NEW t \in Topics, Message(t) PROVE TypeOK'
  <2>1. HandleTopicMessage(t)
    BY <1>3 DEF Message
  <2>2. EchoTypes'
    BY <2>1, WithoutRequestsType, ForgetIdsType
       DEF HandleTopicMessage, RemoveTopicRequests, EchoTypes
  <2>3. ResponseTypes'
    BY <2>1 DEF HandleTopicMessage, ResponseTypes
  <2>4. QED
    BY <2>1, <2>2, <2>3 DEF HandleTopicMessage, QueueTypes, PublishTypes, queueVars,
       publishVars, clientVars
<1>4. ASSUME NEW id \in RequestIds, Timeout(id) PROVE TypeOK'
  <2>1. TimeoutFires(id)
    BY <1>4 DEF Timeout
  <2>2. EchoTypes'
    <3>1. once_topics[id] \in Topics \cup {EmptyTopic}
      BY DEF EchoTypes
    <3>2. QED
      BY <2>1, <3>1, WithoutRequestsType, ForgetIdsType
         DEF TimeoutFires, RemoveTopicRequests, EchoTypes
  <2>3. ResponseTypes'
    BY <2>1 DEF TimeoutFires, SendError, ResponseTypes, ErrorCodes
  <2>4. QED
    BY <2>1, <2>2, <2>3 DEF TimeoutFires, QueueTypes, PublishTypes, queueVars,
       publishVars, clientVars
<1>5. ASSUME NEW id \in RequestIds, Republish(id) PROVE TypeOK'
  <2>1. PublishTimerFires(id)
    BY <1>5 DEF Republish
  <2>2. PublishTypes' /\ ResponseTypes'
    BY <2>1, PublishTimerType
  <2>3. QED
    BY <2>1, <2>2 DEF PublishTimerFires, QueueTypes, EchoTypes, queueVars, echoVars, clientVars
<1>6. CASE UNCHANGED vars
  BY <1>6 DEF vars, queueVars, echoVars, publishVars, clientVars, QueueTypes, EchoTypes,
     PublishTypes, ResponseTypes
<1>7. QED
  BY <1>1, <1>2, <1>3, <1>4, <1>5, <1>6 DEF Next

\* The node's state stays well-typed in every run.
THEOREM TypeCorrect == Spec => []TypeOK
<1>1. Init => TypeOK
  <2> SUFFICES ASSUME Init PROVE TypeOK
    OBVIOUS
  <2>1. QueueTypes
    <3>1. /\ subscribeQueue \in Seq(SubscribeCmd)
          /\ publishQueue \in Seq(PublishCmd)
      BY DEF Init
    <3>2. unsubscribeQueue \in [UnsubscribeSources -> Seq(Topics \cup {EmptyTopic})]
      BY DEF Init
    <3>3. phase \in {"idle", "subscribe", "unsubscribe", "publish"} /\ crashed \in BOOLEAN
      BY DEF Init
    <3>4. sent \subseteq SubscribeCmd /\ wanted \in [Topics -> SUBSET RequestIds]
      BY DEF Init
    <3>5. QED
      BY <3>1, <3>2, <3>3, <3>4 DEF QueueTypes
  <2>2. EchoTypes
    BY DEF Init, EchoTypes, NoSubscription, Subscription
  <2>3. PublishTypes
    BY DEF Init, PublishTypes, NoStream
  <2>4. ResponseTypes
    BY DEF Init, ResponseTypes
  <2>5. QED
    BY <2>1, <2>2, <2>3, <2>4 DEF TypeOK
<1>2. QED
  BY <1>1, TypeStep, PTL DEF Spec

-------------------------------------------------------------------------------
(***************************************************************************)
(* Subscriptions and timers, whatever the request ids: no subscription     *)
(* without requests, no timer without an active request.  Only four        *)
(* operations touch this state; the rest of Next leaves it alone.          *)
(***************************************************************************)
EchoSafe == NoIdleSubscription /\ NoOrphanTimer

\* The steps that leave the echo state as it is.
LEMMA EchoStable ==
  ASSUME TypeOK, EchoSafe, UNCHANGED echoVars
  PROVE  EchoSafe'
  BY DEF EchoSafe, NoIdleSubscription, NoOrphanTimer, Subscribed, echoVars

\* What every step of the node does to the echo state.
LEMMA EchoSteps ==
  ASSUME TypeOK, [Next]_vars
  PROVE  \/ UNCHANGED echoVars
         \/ \E cmd \in SubscribeCmd, type \in Types \cup {NoType} :
              cmd.topic_name \in Topics /\ type # NoType /\ RegisterRequest(cmd, type)
         \/ \E topics \in SUBSET Topics : UnsubscribeTopics(topics)
         \/ \E t \in Topics, ids \in SUBSET RequestIds : RemoveTopicRequests(t, ids)
         \/ \E id \in RequestIds :
              once_topics[id] = EmptyTopic /\ ForgetIds({id}) /\ UNCHANGED subscriptions
<1>1. CASE Receive
  BY <1>1 DEF Receive, EnqueueSubscribe, EnqueueUnsubscribe, EnqueuePublish, echoVars
<1>2. CASE DrainStep
  <2>1. CASE DrainTimerFires \/ DrainProceeds \/ DrainPublishCommands
    BY <2>1 DEF DrainTimerFires, DrainProceeds, DrainPublishCommands, echoVars
  <2>2. CASE DrainSubscribeCommands
    <3>1. Head(subscribeQueue) \in SubscribeCmd
      BY <2>2 DEF DrainSubscribeCommands, TypeOK, QueueTypes
    <3>2. PICK cmd \in SubscribeCmd : Subscribe(cmd)
      BY <2>2, <3>1 DEF DrainSubscribeCommands
    <3>3. CASE RejectSubscribe(cmd)
      BY <3>3 DEF RejectSubscribe, echoVars
    <3>4. ASSUME cmd.topic_name # EmptyTopic,
                 NEW discovered \in Types \cup {NoType},
                 ResolvedType(cmd, discovered) # NoType,
                 RegisterRequest(cmd, ResolvedType(cmd, discovered))
          PROVE  \E c \in SubscribeCmd, type \in Types \cup {NoType} :
                   c.topic_name \in Topics /\ type # NoType /\ RegisterRequest(c, type)
      <4>1. cmd.topic_name \in Topics
        BY <3>4 DEF SubscribeCmd
      <4>2. ResolvedType(cmd, discovered) \in Types \cup {NoType}
        BY <4>1 DEF ResolvedType, SubscribeCmd, TypeOK, EchoTypes, Subscription
      <4>3. QED
        BY <3>4, <4>1, <4>2
    <3>5. QED
      BY <3>2, <3>3, <3>4 DEF Subscribe
  <2>3. CASE DrainUnsubscribeCommands
    <3>1. PICK source \in UnsubscribeSources :
            /\ unsubscribeQueue[source] # <<>>
            /\ Unsubscribe(Head(unsubscribeQueue[source]))
      BY <2>3 DEF DrainUnsubscribeCommands
    <3>2. Head(unsubscribeQueue[source]) \in Topics \cup {EmptyTopic}
      BY <3>1 DEF TypeOK, QueueTypes
    <3>3. QED
      BY <3>1, <3>2 DEF Unsubscribe
  <2>4. QED
    BY <1>2, <2>1, <2>2, <2>3 DEF DrainStep
<1>3. ASSUME NEW t \in Topics, Message(t)
      PROVE  \E ids \in SUBSET RequestIds : RemoveTopicRequests(t, ids)
  <2>1. {r.request_id : r \in {q \in subscriptions[t].requests : q.once}} \in SUBSET RequestIds
    BY DEF TypeOK, EchoTypes, Subscription, EchoRequest
  <2>2. QED
    BY <1>3, <2>1 DEF Message, HandleTopicMessage
<1>4. ASSUME NEW id \in RequestIds, Timeout(id)
      PROVE  \/ \E t \in Topics, ids \in SUBSET RequestIds : RemoveTopicRequests(t, ids)
             \/ once_topics[id] = EmptyTopic /\ ForgetIds({id}) /\ UNCHANGED subscriptions
  <2>1. once_topics[id] \in Topics \cup {EmptyTopic} /\ {id} \in SUBSET RequestIds
    BY DEF TypeOK, EchoTypes
  <2>2. QED
    BY <1>4, <2>1 DEF Timeout, TimeoutFires
<1>5. ASSUME NEW id \in RequestIds, Republish(id) PROVE UNCHANGED echoVars
  BY <1>5 DEF Republish, PublishTimerFires, echoVars
<1>6. CASE UNCHANGED vars
  BY <1>6 DEF vars
<1>7. QED
  BY <1>1, <1>2, <1>3, <1>4, <1>5, <1>6 DEF Next

\* Every step keeps both invariants.
LEMMA EchoSafeStep ==
  ASSUME TypeOK, EchoSafe, [Next]_vars
  PROVE  EchoSafe'
<1> USE DEF EchoSafe, NoIdleSubscription, NoOrphanTimer, Subscribed
<1>1. ASSUME NEW cmd \in SubscribeCmd, NEW type \in Types \cup {NoType},
             cmd.topic_name \in Topics, RegisterRequest(cmd, type)
      PROVE  EchoSafe'
  <2>1. CASE Registered(cmd.topic_name, cmd.request_id)
    BY <1>1, <2>1, EchoStable DEF RegisterRequest
  <2>2. CASE ~Registered(cmd.topic_name, cmd.request_id)
    <3>1. NoIdleSubscription'
      <4> DEFINE request == [request_id |-> cmd.request_id, once |-> cmd.once]
                 old == subscriptions[cmd.topic_name].requests
      <4>1. subscriptions' = [subscriptions EXCEPT ![cmd.topic_name] =
                                [type |-> type, requests |-> old \cup {request}]]
        BY <1>1, <2>2 DEF RegisterRequest
      <4>2. request \in subscriptions'[cmd.topic_name].requests
        BY <1>1, <4>1 DEF TypeOK, EchoTypes
      <4>3. \A t \in Topics : t # cmd.topic_name => subscriptions'[t] = subscriptions[t]
        BY <4>1 DEF TypeOK, EchoTypes
      <4>4. QED
        BY <4>2, <4>3
    <3>2. cmd.request_id \in RequestIds /\ cmd.topic_name # EmptyTopic
      BY <1>1, RelayAssumption DEF SubscribeCmd
    <3>3. NoOrphanTimer'
      BY <1>1, <2>2, <3>2 DEF RegisterRequest, TypeOK, EchoTypes
    <3>4. QED
      BY <3>1, <3>3
  <2>3. QED
    BY <2>1, <2>2
<1>2. ASSUME NEW topics \in SUBSET Topics, UnsubscribeTopics(topics)
      PROVE  EchoSafe'
  BY <1>2 DEF UnsubscribeTopics, ForgetIds, TypeOK, EchoTypes
<1>3. ASSUME NEW t \in Topics, NEW ids \in SUBSET RequestIds, RemoveTopicRequests(t, ids)
      PROVE  EchoSafe'
  BY <1>3 DEF RemoveTopicRequests, WithoutRequests, ForgetIds, TypeOK, EchoTypes,
     Subscription
<1>4. ASSUME NEW id \in RequestIds, ForgetIds({id}), UNCHANGED subscriptions
      PROVE  EchoSafe'
  BY <1>4 DEF ForgetIds, TypeOK, EchoTypes
<1>5. QED
  BY <1>1, <1>2, <1>3, <1>4, EchoSteps, EchoStable

LEMMA EchoAlwaysSafe == Spec => []EchoSafe
<1>1. Init => EchoSafe
  BY DEF Init, EchoSafe, NoIdleSubscription, NoOrphanTimer, Subscribed
<1> QED
  BY <1>1, EchoSafeStep, TypeCorrect, PTL DEF Spec

\* A ROS subscription exists only while a request needs it, and a timeout timer
\* only while its request is active, for all ids, colliding ones included.
THEOREM EchoSafety == Spec => [](NoIdleSubscription /\ NoOrphanTimer)
<1>1. EchoSafe => NoIdleSubscription /\ NoOrphanTimer
  BY DEF EchoSafe
<1> QED
  BY <1>1, EchoAlwaysSafe, PTL

-------------------------------------------------------------------------------
(***************************************************************************)
(* Publish streams.                                                        *)
(***************************************************************************)
StreamsSafe == StreamHasPublisher /\ StreamBudget

\* A topic's publisher, once made, is never replaced.
LEMMA PublisherKept ==
  ASSUME PublishTypes, NEW t \in Topics, NEW type \in Types, NEW qos, NEW creatable,
         EnsurePublisher(t, type, qos, creatable) \/ UNCHANGED publishers
  PROVE  /\ \A x \in Topics : publishers[x] # NoPublisher => publishers'[x] = publishers[x]
         /\ EnsurePublisher(t, type, qos, creatable)
              /\ PublisherUsable(t, type, qos, creatable)
            => publishers'[t] = [type |-> type, qos |-> qos]
  BY DEF EnsurePublisher, PublisherUsable, PublishTypes

\* A publisher of a message type is not the absent publisher.
LEMMA PublisherExists ==
  ASSUME NEW type \in Types, NEW qos
  PROVE  [type |-> type, qos |-> qos] # NoPublisher
<1> SUFFICES ASSUME [type |-> type, qos |-> qos] = NoPublisher PROVE FALSE
  OBVIOUS
<1>1. [type |-> type, qos |-> qos].type = NoPublisher.type
  OBVIOUS
<1>2. type = NoType
  BY <1>1 DEF NoPublisher
<1>3. QED
  BY <1>2, RelayAssumption

\* A step that leaves a stream's timer alone and replaces no publisher keeps
\* the stream's publisher.
LEMMA OtherStreams ==
  ASSUME PublishTypes, StreamsSafe, NEW other \in RequestIds,
         \A x \in Topics : publishers[x] # NoPublisher => publishers'[x] = publishers[x],
         publish_timers'[other] = publish_timers[other],
         StreamActive(other)'
  PROVE  publishers'[publish_timers'[other].topic_name] =
           [type |-> publish_timers'[other].message_type, qos |-> publish_timers'[other].qos]
<1>1. StreamActive(other)
  BY DEF StreamActive
<1>2. publish_timers[other] \in PublishTimer
  BY <1>1 DEF PublishTypes, StreamActive
<1>3. publish_timers[other].topic_name \in Topics /\ publish_timers[other].message_type \in Types
  BY <1>2 DEF PublishTimer
<1>4. publishers[publish_timers[other].topic_name] =
        [type |-> publish_timers[other].message_type, qos |-> publish_timers[other].qos]
  BY <1>1 DEF StreamsSafe, StreamHasPublisher
<1>5. QED
  BY <1>3, <1>4, PublisherExists

\* The start of a stream.
LEMMA RunStreamSafe ==
  ASSUME PublishTypes, StreamsSafe, NEW cmd \in PublishCmd, ~InvalidPublish(cmd),
         NEW readable \in BOOLEAN, NEW creatable \in BOOLEAN, NEW published \in BOOLEAN,
         RunStream(cmd, readable, creatable, published)
  PROVE  StreamsSafe'
<1> DEFINE id == cmd.request_id
           t == cmd.topic_name
           type == cmd.message_type
           times == EffectiveTimes(cmd)
           ok == readable /\ PublisherUsable(t, type, cmd.qos, creatable) /\ published
           started == [active |-> TRUE, topic_name |-> t, message_type |-> type,
                       qos |-> cmd.qos, finite |-> times > 0,
                       remaining |-> IF times > 0 THEN times - 1 ELSE 0]
           timer == IF ok /\ times # 1 THEN started ELSE NoTimer
           stream == [budget |-> times, published |-> IF ok THEN 1 ELSE 0, failed |-> ~ok]
<1>1. /\ id \in RequestIds /\ t \in Topics /\ type \in Types
      /\ cmd.qos \in QosProfiles /\ times \in Nat
  BY DEF InvalidPublish, PublishCmd, EffectiveTimes
<1>2. publish_timers'[id] = timer /\ streams'[id] = stream
  BY <1>1 DEF RunStream, RemainingAfterFirst, PublishTypes
<1>3. ASSUME NEW other \in RequestIds, other # id
      PROVE  publish_timers'[other] = publish_timers[other] /\ streams'[other] = streams[other]
  BY <1>1, <1>3 DEF RunStream, RemainingAfterFirst, PublishTypes
<1>4. EnsurePublisher(t, type, cmd.qos, creatable) \/ UNCHANGED publishers
  BY DEF RunStream, RemainingAfterFirst
<1>5. ok => EnsurePublisher(t, type, cmd.qos, creatable)
  BY DEF RunStream, RemainingAfterFirst
<1>6. /\ \A x \in Topics : publishers[x] # NoPublisher => publishers'[x] = publishers[x]
      /\ ok => publishers'[t] = [type |-> type, qos |-> cmd.qos]
  BY <1>1, <1>4, <1>5, PublisherKept
<1>7. StreamHasPublisher'
  <2>1. ASSUME NEW other \in RequestIds, StreamActive(other)', other # id
        PROVE  publishers'[publish_timers'[other].topic_name] =
                 [type |-> publish_timers'[other].message_type,
                  qos |-> publish_timers'[other].qos]
    <3>1. publish_timers'[other] = publish_timers[other]
      BY <1>3, <2>1
    <3>2. \A x \in Topics : publishers[x] # NoPublisher => publishers'[x] = publishers[x]
      BY <1>6
    <3>3. QED
      BY <2>1, <3>1, <3>2, OtherStreams
  <2>2. ASSUME StreamActive(id)'
        PROVE  publishers'[publish_timers'[id].topic_name] =
                 [type |-> publish_timers'[id].message_type, qos |-> publish_timers'[id].qos]
    <3>1. ok /\ publish_timers'[id] = started
      BY <1>2, <2>2 DEF StreamActive
    <3>2. QED
      BY <1>6, <3>1
  <2>3. QED
    BY <2>1, <2>2 DEF StreamHasPublisher
<1>8. StreamBudget'
  <2>1. CASE ok /\ times # 1
    <3>1. started.active = TRUE /\ NoTimer.active = FALSE
      BY DEF NoTimer
    <3>2. StreamActive(id)' /\ publish_timers'[id] = started
      BY <1>2, <2>1, <3>1 DEF StreamActive
    <3>3. stream.budget = times /\ stream.published = 1 /\ stream.failed = FALSE
      BY <2>1
    <3>4. started.finite <=> times > 0
      OBVIOUS
    <3>5. started.remaining = IF times > 0 THEN times - 1 ELSE 0
      OBVIOUS
    <3>6. times > 0 => started.remaining >= 1 /\ 1 + started.remaining = times
      <4> HIDE DEF times, started
      <4>1. QED
        BY <1>1, <2>1, <3>5
    <3>7. QED
      <4> HIDE DEF times, started, stream, ok
      <4>1. QED
        BY <1>1, <1>2, <1>3, <3>2, <3>3, <3>4, <3>6 DEF StreamBudget, StreamsSafe, StreamActive
  <2>2. CASE ~(ok /\ times # 1)
    <3>1. ~StreamActive(id)'
      BY <1>2, <2>2 DEF StreamActive
    <3>2. ~stream.failed => stream.published = stream.budget
      BY <2>2
    <3>3. QED
      BY <1>1, <1>2, <1>3, <3>1, <3>2 DEF StreamBudget, StreamsSafe, StreamActive
  <2>3. QED
    BY <2>1, <2>2
<1>9. QED
  BY <1>7, <1>8 DEF StreamsSafe

\* One firing of a stream's timer.
LEMMA PublishTimerSafe ==
  ASSUME PublishTypes, StreamsSafe, NEW id \in RequestIds, PublishTimerFires(id)
  PROVE  StreamsSafe'
<1> DEFINE timer == publish_timers[id]
           left == IF timer.remaining = 0 THEN 0 ELSE timer.remaining - 1
           t == timer.topic_name
           type == timer.message_type
<1>1. timer \in PublishTimer /\ StreamActive(id)
  BY DEF PublishTimerFires, Continued, PublishTypes, StreamActive
<1>2. /\ t \in Topics /\ type \in Types /\ timer.remaining \in Nat
      /\ timer.finite \in BOOLEAN /\ timer.active = TRUE
  BY <1>1 DEF PublishTimer
<1>3. PICK creatable \in BOOLEAN, published \in BOOLEAN :
        LET ok == published /\ PublisherUsable(t, type, timer.qos, creatable)
        IN /\ EnsurePublisher(t, type, timer.qos, creatable)
           /\ publish_timers' = [publish_timers EXCEPT ![id] =
                IF ~ok \/ (timer.finite /\ left = 0) THEN NoTimer
                ELSE IF timer.finite THEN [@ EXCEPT !.remaining = left]
                ELSE @]
           /\ streams' = [streams EXCEPT ![id] =
                [budget    |-> @.budget,
                 published |-> IF ok /\ timer.finite THEN @.published + 1 ELSE @.published,
                 failed    |-> ~ok]]
  BY DEF PublishTimerFires, Continued
<1> DEFINE ok == published /\ PublisherUsable(t, type, timer.qos, creatable)
           stopped == ~ok \/ (timer.finite /\ left = 0)
           reduced == [timer EXCEPT !.remaining = left]
<1>4. /\ stopped => publish_timers'[id] = NoTimer
      /\ ~stopped /\ timer.finite => publish_timers'[id] = reduced
      /\ ~stopped /\ ~timer.finite => publish_timers'[id] = timer
  BY <1>3 DEF PublishTypes
<1>5. /\ streams'[id].budget = streams[id].budget
      /\ streams'[id].published =
           IF ok /\ timer.finite THEN streams[id].published + 1 ELSE streams[id].published
      /\ streams'[id].failed = ~ok
  BY <1>3 DEF PublishTypes
<1>6. ASSUME NEW other \in RequestIds, other # id
      PROVE  publish_timers'[other] = publish_timers[other] /\ streams'[other] = streams[other]
  BY <1>3, <1>6 DEF PublishTypes
<1>7. \A x \in Topics : publishers[x] # NoPublisher => publishers'[x] = publishers[x]
  BY <1>2, <1>3, PublisherKept
<1>8. /\ reduced.topic_name = t /\ reduced.message_type = type /\ reduced.qos = timer.qos
      /\ reduced.finite = timer.finite /\ reduced.remaining = left /\ reduced.active = TRUE
  BY <1>1, <1>2 DEF PublishTimer
<1>9. StreamHasPublisher'
  <2>1. ASSUME NEW other \in RequestIds, StreamActive(other)', other # id
        PROVE  publishers'[publish_timers'[other].topic_name] =
                 [type |-> publish_timers'[other].message_type,
                  qos |-> publish_timers'[other].qos]
    <3>1. publish_timers'[other] = publish_timers[other]
      BY <1>6, <2>1
    <3>2. QED
      BY <1>7, <2>1, <3>1, OtherStreams
  <2>2. ASSUME StreamActive(id)'
        PROVE  publishers'[publish_timers'[id].topic_name] =
                 [type |-> publish_timers'[id].message_type, qos |-> publish_timers'[id].qos]
    <3>1. publish_timers'[id] \in {reduced, timer}
      BY <1>2, <1>4, <2>2 DEF StreamActive
    <3>2. publishers[t] = [type |-> type, qos |-> timer.qos]
      BY <1>1 DEF StreamsSafe, StreamHasPublisher
    <3>3. publishers'[t] = publishers[t]
      BY <1>2, <1>7, <3>2, PublisherExists
    <3>4. QED
      BY <1>8, <3>1, <3>2, <3>3
  <2>3. QED
    BY <2>1, <2>2 DEF StreamHasPublisher
<1>10. StreamBudget'
  <2>1. /\ ~streams[id].failed
        /\ timer.finite <=> streams[id].budget > 0
        /\ timer.finite => /\ timer.remaining >= 1
                           /\ streams[id].published + timer.remaining = streams[id].budget
    BY <1>1 DEF StreamsSafe, StreamBudget
  <2>2. streams[id].budget \in Nat /\ streams[id].published \in Nat
    BY DEF PublishTypes
  <2>3. timer.finite => left = timer.remaining - 1 /\ left \in Nat
    BY <1>2, <2>1
  <2>4. CASE stopped
    <3>1. ~StreamActive(id)'
      BY <1>4, <2>4 DEF StreamActive
    <3>2. ~streams'[id].failed => streams'[id].published = streams'[id].budget
      <4>1. CASE ~ok
        BY <1>5, <4>1
      <4>2. CASE ok
        <5>1. timer.finite /\ left = 0
          BY <2>4, <4>2
        <5>2. /\ streams'[id].published = streams[id].published + 1
              /\ streams'[id].budget = streams[id].budget
          BY <1>5, <4>2, <5>1
        <5>3. timer.remaining = 1
          BY <1>2, <2>1, <5>1
        <5>4. QED
          BY <2>1, <2>2, <5>1, <5>2, <5>3
      <4>3. QED
        BY <4>1, <4>2
    <3>3. QED
      BY <1>6, <3>1, <3>2 DEF StreamBudget, StreamsSafe, StreamActive
  <2>5. CASE ~stopped /\ timer.finite
    <3>1. NoTimer.active = FALSE
      BY DEF NoTimer
    <3>2. StreamActive(id)' /\ publish_timers'[id] = reduced
      BY <1>4, <1>8, <2>5, <3>1 DEF StreamActive
    <3>3. /\ ~streams'[id].failed
          /\ reduced.finite <=> streams'[id].budget > 0
          /\ reduced.remaining >= 1
          /\ streams'[id].published + reduced.remaining = streams'[id].budget
      <4>1. ok /\ timer.finite /\ left # 0
        BY <2>5
      <4>2. /\ ~streams'[id].failed
            /\ streams'[id].published = streams[id].published + 1
            /\ streams'[id].budget = streams[id].budget
        BY <1>5, <4>1
      <4>3. /\ streams[id].budget > 0 /\ left >= 1
            /\ streams[id].published + timer.remaining = streams[id].budget
        <5> HIDE DEF left
        <5>1. QED
          BY <2>1, <2>3, <4>1
      <4>4. streams[id].published + 1 + left = streams[id].budget
        <5> HIDE DEF left
        <5>1. QED
          BY <1>2, <2>2, <2>3, <4>1, <4>3
      <4>5. QED
        BY <1>8, <4>1, <4>2, <4>3, <4>4
    <3>4. QED
      <4> HIDE DEF left, ok, reduced
      <4>1. QED
        BY <1>6, <3>2, <3>3 DEF StreamBudget, StreamsSafe, StreamActive
  <2>6. CASE ~stopped /\ ~timer.finite
    <3>1. StreamActive(id)' /\ publish_timers'[id] = timer
      BY <1>1, <1>4, <2>6 DEF StreamActive
    <3>2. ~streams'[id].failed /\ streams'[id].budget = streams[id].budget
      BY <1>5, <2>6
    <3>3. QED
      BY <1>6, <2>1, <2>6, <3>1, <3>2 DEF StreamBudget, StreamsSafe, StreamActive
  <2>7. QED
    BY <1>2, <2>4, <2>5, <2>6
<1>11. QED
  BY <1>9, <1>10 DEF StreamsSafe

\* Every step keeps both invariants: only a publish command and a publish timer
\* touch the streams.
LEMMA StreamsSafeStep ==
  ASSUME TypeOK, StreamsSafe, [Next]_vars
  PROVE  StreamsSafe'
<1>1. ASSUME UNCHANGED publishVars PROVE StreamsSafe'
  BY <1>1 DEF StreamsSafe, StreamHasPublisher, StreamBudget, StreamActive, publishVars
<1>2. CASE Receive
  BY <1>1, <1>2 DEF Receive, EnqueueSubscribe, EnqueueUnsubscribe, EnqueuePublish
<1>3. CASE DrainStep
  <2>1. CASE DrainTimerFires \/ DrainProceeds \/ DrainSubscribeCommands
               \/ DrainUnsubscribeCommands
    BY <1>1, <2>1 DEF DrainTimerFires, DrainProceeds, DrainSubscribeCommands,
       DrainUnsubscribeCommands
  <2>2. CASE DrainPublishCommands
    <3>1. Head(publishQueue) \in PublishCmd
      BY <2>2 DEF DrainPublishCommands, TypeOK, QueueTypes
    <3>2. PICK cmd \in PublishCmd : Publish(cmd)
      BY <2>2, <3>1 DEF DrainPublishCommands
    <3>3. CASE InvalidPublish(cmd)
      BY <1>1, <3>2, <3>3 DEF Publish
    <3>4. CASE ~InvalidPublish(cmd)
      <4>1. PICK readable \in BOOLEAN, creatable \in BOOLEAN, published \in BOOLEAN :
              RunStream(cmd, readable, creatable, published)
        <5>1. StartStream(cmd)
          BY <3>2, <3>4 DEF Publish
        <5>2. QED
          BY <5>1 DEF StartStream
      <4>2. QED
        BY <3>4, <4>1, RunStreamSafe DEF TypeOK
    <3>5. QED
      BY <3>3, <3>4
  <2>3. QED
    BY <1>3, <2>1, <2>2 DEF DrainStep
<1>4. ASSUME NEW t \in Topics, Message(t) PROVE StreamsSafe'
  BY <1>1, <1>4 DEF Message, HandleTopicMessage
<1>5. ASSUME NEW id \in RequestIds, Timeout(id) PROVE StreamsSafe'
  BY <1>1, <1>5 DEF Timeout, TimeoutFires
<1>6. ASSUME NEW id \in RequestIds, Republish(id) PROVE StreamsSafe'
  BY <1>6, PublishTimerSafe DEF Republish, TypeOK
<1>7. CASE UNCHANGED vars
  BY <1>1, <1>7 DEF vars
<1>8. QED
  BY <1>2, <1>3, <1>4, <1>5, <1>6, <1>7 DEF Next

\* A running stream always has its publisher, and a finite one publishes exactly
\* the number of messages asked for unless a publish fails.
THEOREM StreamSafety == Spec => [](StreamHasPublisher /\ StreamBudget)
<1>1. Init => StreamsSafe
  <2> SUFFICES ASSUME Init PROVE StreamsSafe
    OBVIOUS
  <2>1. \A id \in RequestIds : ~StreamActive(id) /\ streams[id] = NoStream
    BY DEF Init, StreamActive
  <2>2. NoStream.published = 0 /\ NoStream.budget = 0
    BY DEF NoStream
  <2>3. QED
    BY <2>1, <2>2 DEF StreamsSafe, StreamHasPublisher, StreamBudget
<1>2. StreamsSafe => StreamHasPublisher /\ StreamBudget
  BY DEF StreamsSafe
<1>3. QED
  BY <1>1, <1>2, StreamsSafeStep, TypeCorrect, PTL DEF Spec

-------------------------------------------------------------------------------
(***************************************************************************)
(* Fresh request ids, as the mod numbers its requests: what the index, the *)
(* one-shot requests and the abstract service promise rests on them.       *)
(***************************************************************************)

\* No id is sent twice, and a command that waits was sent and waits once.
UniqueIds ==
  /\ \A c, d \in sent : c.request_id = d.request_id => c = d
  /\ \A i \in DOMAIN subscribeQueue : subscribeQueue[i] \in sent
  /\ \A i, j \in DOMAIN subscribeQueue : subscribeQueue[i].request_id = subscribeQueue[j].request_id => i = j

SentIds == {c.request_id : c \in sent}
Untouched(id) == once_topics[id] = EmptyTopic /\ payloads[id] = 0 /\ ~TimedOut(id) /\ ~Refused(id)

\* Nothing is known of an id before its command is handled.
UntouchedBefore == \A id \in RequestIds : id \notin SentIds \/ id \in QueuedIds => Untouched(id)

\* What is registered was sent so.
RegisteredAsSent ==
  \A t \in Topics : \A r \in subscriptions[t].requests :
    \E c \in sent : c.request_id = r.request_id /\ c.topic_name = t /\ c.once = r.once

\* A request that was told of its end has ended.
EndedIsGone == \A id \in RequestIds : TimedOut(id) \/ Refused(id) => once_topics[id] = EmptyTopic

FreshInv == UniqueIds /\ IndexAgrees /\ UntouchedBefore /\ RegisteredAsSent /\ EndedIsGone /\ OnceHasOneOutcome

\* The steps of the node as far as its echoes are concerned.
QuietStep ==
  /\ UNCHANGED <<subscribeQueue, sent, echoVars, payloads>>
  /\ \A id \in RequestIds : (TimedOut(id)' <=> TimedOut(id)) /\ (Refused(id)' <=> Refused(id))
HandleSubscribe(cmd) ==
  /\ subscribeQueue # <<>> /\ cmd = Head(subscribeQueue) /\ subscribeQueue' = Tail(subscribeQueue)
  /\ UNCHANGED <<sent, payloads>>
AcceptStep(cmd, type) ==
  HandleSubscribe(cmd) /\ cmd.topic_name \in Topics /\ RegisterRequest(cmd, type) /\ UNCHANGED errors
RejectStep(cmd) == HandleSubscribe(cmd) /\ RejectSubscribe(cmd)
CloseStep(topics) == UnsubscribeTopics(topics) /\ UNCHANGED <<subscribeQueue, sent, payloads, errors>>

LEMMA StepKinds ==
  ASSUME TypeOK, EchoSafe, [Next]_vars
  PROVE  \/ QuietStep
         \/ \E cmd \in SubscribeCmd : EnqueueSubscribe(cmd)
         \/ \E cmd \in SubscribeCmd, type \in Types \cup {NoType} : AcceptStep(cmd, type)
         \/ \E cmd \in SubscribeCmd : RejectStep(cmd)
         \/ \E topics \in SUBSET Topics : CloseStep(topics)
         \/ \E t \in Topics : HandleTopicMessage(t)
         \/ \E id \in RequestIds : once_topics[id] \in Topics /\ TimeoutFires(id)
<1>1. CASE Receive
  <2>1. ASSUME NEW cmd \in SubscribeCmds, EnqueueSubscribe(cmd)
        PROVE  \E c \in SubscribeCmd : EnqueueSubscribe(c)
    BY <2>1, RelayAssumption
  <2>2. ASSUME NEW s \in UnsubscribeSources, NEW t \in UnsubscribeCmds, EnqueueUnsubscribe(s, t)
        PROVE  QuietStep
    BY <2>2 DEF EnqueueUnsubscribe, QuietStep, echoVars, TimedOut, Refused
  <2>3. ASSUME NEW cmd \in PublishCmds, EnqueuePublish(cmd)
        PROVE  QuietStep
    BY <2>3 DEF EnqueuePublish, QuietStep, echoVars, clientVars, TimedOut, Refused
  <2> QED
    BY <1>1, <2>1, <2>2, <2>3 DEF Receive
<1>2. CASE DrainStep
  <2>1. CASE DrainTimerFires \/ DrainProceeds
    BY <2>1 DEF DrainTimerFires, DrainProceeds, QuietStep, queueVars, echoVars, clientVars, TimedOut, Refused
  <2>2. CASE DrainSubscribeCommands
    <3> DEFINE cmd == Head(subscribeQueue)
    <3>1. cmd \in SubscribeCmd
      BY <2>2 DEF DrainSubscribeCommands, TypeOK, QueueTypes
    <3>2. /\ cmd \in SubscribeCmd /\ Subscribe(cmd) /\ subscribeQueue # <<>>
          /\ subscribeQueue' = Tail(subscribeQueue) /\ UNCHANGED sent
      BY <2>2, <3>1 DEF DrainSubscribeCommands, TypeOK, QueueTypes, clientVars
    <3>3. CASE RejectSubscribe(cmd)
      BY <3>2, <3>3 DEF RejectStep, HandleSubscribe, RejectSubscribe
    <3>4. ASSUME cmd.topic_name # EmptyTopic, NEW discovered \in Types \cup {NoType},
                 RegisterRequest(cmd, ResolvedType(cmd, discovered)), UNCHANGED <<payloads, errors>>
          PROVE  \E c \in SubscribeCmd, type \in Types \cup {NoType} : AcceptStep(c, type)
      <4>1. cmd.topic_name \in Topics
        BY <3>2, <3>4 DEF SubscribeCmd
      <4>2. ResolvedType(cmd, discovered) \in Types \cup {NoType}
        BY <3>2, <4>1 DEF ResolvedType, SubscribeCmd, TypeOK, EchoTypes, Subscription
      <4>3. AcceptStep(cmd, ResolvedType(cmd, discovered))
        BY <3>2, <3>4, <4>1 DEF AcceptStep, HandleSubscribe
      <4> QED
        BY <3>2, <4>2, <4>3
    <3> QED
      BY <3>2, <3>3, <3>4 DEF Subscribe
  <2>3. CASE DrainUnsubscribeCommands
    <3>1. PICK source \in UnsubscribeSources :
            unsubscribeQueue[source] # <<>> /\ Unsubscribe(Head(unsubscribeQueue[source]))
      BY <2>3 DEF DrainUnsubscribeCommands
    <3>2. Head(unsubscribeQueue[source]) \in Topics \cup {EmptyTopic}
      BY <3>1 DEF TypeOK, QueueTypes
    <3>3. UNCHANGED <<subscribeQueue, sent, payloads, errors>>
      BY <2>3 DEF DrainUnsubscribeCommands, clientVars
    <3>4. UNCHANGED echoVars \/ \E topics \in SUBSET Topics : UnsubscribeTopics(topics)
      BY <3>1, <3>2 DEF Unsubscribe
    <3> QED
      BY <3>3, <3>4 DEF QuietStep, CloseStep, TimedOut, Refused
  <2>4. CASE DrainPublishCommands
    <3>1. Publish(Head(publishQueue)) /\ UNCHANGED <<subscribeQueue, sent, echoVars, payloads>>
      BY <2>4 DEF DrainPublishCommands, clientVars
    <3>2. errors' = errors \/ \E id : errors' = errors \cup {<<id, "PUBLISH_FAILED">>}
      BY <3>1 DEF Publish, StartStream, RunStream, SendError
    <3> QED
      BY <3>1, <3>2 DEF QuietStep, TimedOut, Refused
  <2> QED
    BY <1>2, <2>1, <2>2, <2>3, <2>4 DEF DrainStep
<1>3. ASSUME NEW t \in Topics, Message(t) PROVE HandleTopicMessage(t)
  BY <1>3 DEF Message
<1>4. ASSUME NEW id \in RequestIds, Timeout(id) PROVE once_topics[id] \in Topics /\ TimeoutFires(id)
  <2>1. TimeoutFires(id) /\ id \in timeout_timers
    BY <1>4 DEF Timeout, TimeoutFires
  <2> QED
    BY <2>1 DEF EchoSafe, NoOrphanTimer, TypeOK, EchoTypes
<1>5. ASSUME NEW id \in RequestIds, Republish(id) PROVE QuietStep
  <2>1. UNCHANGED <<subscribeQueue, sent, echoVars, payloads>>
    BY <1>5 DEF Republish, PublishTimerFires, queueVars, clientVars
  <2>2. errors' = errors \/ errors' = errors \cup {<<id, "PUBLISH_FAILED">>}
    BY <1>5 DEF Republish, PublishTimerFires, SendError
  <2> QED
    BY <2>1, <2>2 DEF QuietStep, TimedOut, Refused
<1>6. CASE UNCHANGED vars
  BY <1>6 DEF vars, queueVars, clientVars, QuietStep, echoVars, TimedOut, Refused
<1> QED
  BY <1>1, <1>2, <1>3, <1>4, <1>5, <1>6 DEF Next

\* A command that is sent joins the queue under a new id.
LEMMA Sending ==
  ASSUME TypeOK, ~IdReuse, UniqueIds, NEW cmd \in SubscribeCmd, EnqueueSubscribe(cmd)
  PROVE  /\ UniqueIds' /\ cmd.request_id \in RequestIds \ SentIds
         /\ SentIds' = SentIds \cup {cmd.request_id} /\ QueuedIds' = QueuedIds \cup {cmd.request_id}
<1> DEFINE q == subscribeQueue
           n == Len(q)
<1>1. /\ q \in Seq(SubscribeCmd) /\ q' = Append(q, cmd) /\ sent' = sent \cup {cmd}
      /\ \A c \in sent : c.request_id # cmd.request_id
  BY DEF EnqueueSubscribe, TypeOK, QueueTypes
<1>2. n \in Nat /\ DOMAIN q = 1 .. n /\ DOMAIN q' = 1 .. n + 1 /\ (\A i \in 1 .. n : q'[i] = q[i]) /\ q'[n + 1] = cmd
  BY <1>1
<1>3. \A i \in 1 .. n : q[i] \in sent /\ q[i].request_id # cmd.request_id
  BY <1>1, <1>2 DEF UniqueIds
<1> HIDE DEF q, n
<1>4. UniqueIds'
  <2>1. \A c, d \in sent' : c.request_id = d.request_id => c = d
    BY <1>1 DEF UniqueIds
  <2>2. \A i \in DOMAIN q' : q'[i] \in sent'
    BY <1>1, <1>2, <1>3
  <2>3. \A i, j \in DOMAIN q' : q'[i].request_id = q'[j].request_id => i = j
    <3>1. \A i, j \in 1 .. n : q[i].request_id = q[j].request_id => i = j
      BY <1>2 DEF UniqueIds, q
    <3> QED
      BY <1>2, <1>3, <3>1
  <2> QED
    BY <2>1, <2>2, <2>3 DEF UniqueIds, q
<1>5. QueuedIds' = QueuedIds \cup {cmd.request_id}
  <2>1. QueuedIds = {q[i].request_id : i \in 1 .. n} /\ QueuedIds' = {q'[i].request_id : i \in 1 .. n + 1}
    BY <1>2 DEF QueuedIds, q
  <2> QED
    BY <1>2, <2>1
<1>6. SentIds' = SentIds \cup {cmd.request_id} /\ cmd.request_id \in RequestIds \ SentIds
  BY <1>1 DEF SentIds, SubscribeCmd
<1> QED
  BY <1>4, <1>5, <1>6

\* A command that is handled leaves the queue, and its id with it.
LEMMA Handling ==
  ASSUME TypeOK, UniqueIds, NEW cmd, HandleSubscribe(cmd)
  PROVE  /\ UniqueIds' /\ cmd \in sent /\ cmd \in SubscribeCmd
         /\ QueuedIds = QueuedIds' \cup {cmd.request_id} /\ cmd.request_id \notin QueuedIds'
<1> DEFINE q == subscribeQueue
           n == Len(q)
<1>1. q \in Seq(SubscribeCmd) /\ q # <<>> /\ cmd = Head(q) /\ q' = Tail(q) /\ sent' = sent
  BY DEF HandleSubscribe, TypeOK, QueueTypes
<1>2. /\ n \in Nat /\ n >= 1 /\ DOMAIN q = 1 .. n /\ DOMAIN q' = 1 .. n - 1
      /\ (\A i \in 1 .. n - 1 : q'[i] = q[i + 1]) /\ q[1] = cmd
  BY <1>1
<1>3. cmd \in sent /\ cmd \in SubscribeCmd
  BY <1>1, <1>2 DEF UniqueIds
<1>4. \A i, j \in 1 .. n : q[i].request_id = q[j].request_id => i = j
  BY <1>2 DEF UniqueIds
<1>5. \A i \in 1 .. n : q[i] \in sent
  BY <1>2 DEF UniqueIds
<1>6. QueuedIds = {q[i].request_id : i \in 1 .. n} /\ QueuedIds' = {q'[i].request_id : i \in 1 .. n - 1}
  BY <1>2 DEF QueuedIds
<1> HIDE DEF q, n
<1>7. UniqueIds'
  <2>1. \A i \in DOMAIN q' : q'[i] \in sent
    BY <1>2, <1>5
  <2>2. \A i, j \in DOMAIN q' : q'[i].request_id = q'[j].request_id => i = j
    BY <1>2, <1>4
  <2> QED
    BY <1>1, <2>1, <2>2 DEF UniqueIds, q
<1>8. cmd.request_id \notin QueuedIds'
  BY <1>2, <1>4, <1>6
<1>9. QueuedIds = QueuedIds' \cup {cmd.request_id}
  <2>1. \A i \in 1 .. n : i = 1 \/ (i - 1 \in 1 .. n - 1 /\ q'[i - 1] = q[i])
    BY <1>2
  <2>2. QueuedIds \subseteq QueuedIds' \cup {cmd.request_id}
    BY <1>2, <1>6, <2>1
  <2>3. \A i \in 1 .. n - 1 : i + 1 \in 1 .. n /\ q'[i] = q[i + 1]
    BY <1>2
  <2>4. 1 \in 1 .. n
    BY <1>2
  <2>5. QueuedIds' \cup {cmd.request_id} \subseteq QueuedIds
    BY <1>2, <1>6, <2>3, <2>4
  <2> QED
    BY <2>2, <2>5
<1> QED
  BY <1>3, <1>7, <1>8, <1>9

\* The requests with these ids end, wherever they are registered.
Ends(ids) ==
  /\ \A t \in Topics : subscriptions'[t].requests = {r \in subscriptions[t].requests : r.request_id \notin ids}
  /\ ForgetIds(ids)

\* Where an id is registered says the index: taking ids out of their topic takes
\* them out everywhere.
LEMMA RemoveEnds ==
  ASSUME TypeOK, IndexAgrees, NEW t \in Topics, NEW ids \in SUBSET RequestIds,
         \A id \in ids : once_topics[id] = t, RemoveTopicRequests(t, ids)
  PROVE  Ends(ids)
<1> SUFFICES ASSUME NEW x \in Topics
             PROVE  subscriptions'[x].requests = {r \in subscriptions[x].requests : r.request_id \notin ids}
  BY DEF Ends, RemoveTopicRequests
<1>1. CASE x = t
  BY <1>1 DEF RemoveTopicRequests, WithoutRequests, NoSubscription, TypeOK, EchoTypes, Subscription
<1>2. CASE x # t
  <2>1. subscriptions'[x] = subscriptions[x]
    BY <1>2 DEF RemoveTopicRequests, WithoutRequests, TypeOK, EchoTypes
  <2>2. \A r \in subscriptions[x].requests : r.request_id \notin ids
    BY <1>2 DEF IndexAgrees, Registered
  <2> QED
    BY <2>1, <2>2
<1> QED
  BY <1>1, <1>2

LEMMA CloseEnds ==
  ASSUME TypeOK, IndexAgrees, NEW topics \in SUBSET Topics, UnsubscribeTopics(topics)
  PROVE  Ends(IdsOf(topics)) /\ \A id \in RequestIds : id \in IdsOf(topics) <=> once_topics[id] \in topics
<1>1. \A id \in RequestIds : id \in IdsOf(topics) <=> once_topics[id] \in topics
  <2>1. \A id : id \in IdsOf(topics) <=> \E t \in topics : Registered(t, id)
    BY DEF IdsOf, Registered
  <2> QED
    BY <2>1 DEF IndexAgrees
<1> SUFFICES ASSUME NEW x \in Topics
             PROVE  subscriptions'[x].requests = {r \in subscriptions[x].requests : r.request_id \notin IdsOf(topics)}
  BY <1>1 DEF Ends, UnsubscribeTopics
<1>2. \A r \in subscriptions[x].requests : r.request_id \in IdsOf(topics) <=> x \in topics
  <2> SUFFICES ASSUME NEW r \in subscriptions[x].requests
               PROVE  r.request_id \in IdsOf(topics) <=> x \in topics
    OBVIOUS
  <2>1. r.request_id \in RequestIds /\ Registered(x, r.request_id)
    BY DEF TypeOK, EchoTypes, Subscription, EchoRequest, Registered
  <2> QED
    BY <1>1, <2>1 DEF IndexAgrees
<1>3. subscriptions'[x] = IF x \in topics THEN NoSubscription ELSE subscriptions[x]
  BY DEF UnsubscribeTopics
<1> QED
  BY <1>2, <1>3 DEF NoSubscription

\* What ends leaves the index and what is registered in agreement.
LEMMA EndsKeepsIndex ==
  ASSUME TypeOK, IndexAgrees, RegisteredAsSent, NEW ids, Ends(ids), UNCHANGED sent
  PROVE  /\ \A t \in Topics, id \in RequestIds : Registered(t, id)' <=> Registered(t, id) /\ id \notin ids
         /\ \A id \in RequestIds : once_topics'[id] = IF id \in ids THEN EmptyTopic ELSE once_topics[id]
         /\ IndexAgrees' /\ RegisteredAsSent'
<1>1. \A t \in Topics, id \in RequestIds : Registered(t, id)' <=> Registered(t, id) /\ id \notin ids
  <2>1. \A t \in Topics : subscriptions'[t].requests = {r \in subscriptions[t].requests : r.request_id \notin ids}
    BY DEF Ends
  <2> QED
    BY <2>1 DEF Registered
<1>2. \A id \in RequestIds : once_topics'[id] = IF id \in ids THEN EmptyTopic ELSE once_topics[id]
  BY DEF Ends, ForgetIds
<1>3. IndexAgrees'
  BY <1>1, <1>2, RelayAssumption DEF IndexAgrees
<1>4. RegisteredAsSent'
  BY DEF RegisteredAsSent, Ends
<1> QED
  BY <1>1, <1>2, <1>3, <1>4

\* A command that is accepted registers a new request.
LEMMA Accepting ==
  ASSUME TypeOK, FreshInv, NEW cmd \in SubscribeCmd, NEW type \in Types \cup {NoType}, AcceptStep(cmd, type)
  PROVE  LET t == cmd.topic_name
             id == cmd.request_id
         IN /\ t \in Topics /\ id \in RequestIds /\ Untouched(id)
            /\ \A x \in Topics : subscriptions'[x].requests =
                 subscriptions[x].requests \cup (IF x = t THEN {[request_id |-> id, once |-> cmd.once]} ELSE {})
            /\ once_topics' = [once_topics EXCEPT ![id] = t]
            /\ timeout_timers' = IF cmd.timeout THEN timeout_timers \cup {id} ELSE timeout_timers
            /\ \A x \in Topics, i \in RequestIds : Registered(x, i)' <=> Registered(x, i) \/ (x = t /\ i = id)
<1> DEFINE t == cmd.topic_name
           id == cmd.request_id
<1>1. t \in Topics /\ id \in RequestIds /\ id \in QueuedIds
  BY Handling DEF AcceptStep, SubscribeCmd, FreshInv
<1>2. Untouched(id)
  BY <1>1 DEF FreshInv, UntouchedBefore
<1>3. ~Registered(t, id)
  BY <1>1, <1>2, RelayAssumption DEF FreshInv, IndexAgrees, Untouched
<1>4. /\ subscriptions' = [subscriptions EXCEPT ![t] =
            [type |-> type, requests |-> @.requests \cup {[request_id |-> id, once |-> cmd.once]}]]
      /\ once_topics' = [once_topics EXCEPT ![id] = t]
      /\ timeout_timers' = IF cmd.timeout THEN timeout_timers \cup {id} ELSE timeout_timers
  BY <1>3 DEF AcceptStep, RegisterRequest
<1>5. \A x \in Topics : subscriptions'[x].requests =
        subscriptions[x].requests \cup (IF x = t THEN {[request_id |-> id, once |-> cmd.once]} ELSE {})
  BY <1>1, <1>4 DEF TypeOK, EchoTypes, Subscription
<1>6. \A x \in Topics, i \in RequestIds : Registered(x, i)' <=> Registered(x, i) \/ (x = t /\ i = id)
  <2> SUFFICES ASSUME NEW x \in Topics, NEW i \in RequestIds
               PROVE  Registered(x, i)' <=> Registered(x, i) \/ (x = t /\ i = id)
    OBVIOUS
  <2>1. CASE x = t
    <3> DEFINE new == [request_id |-> id, once |-> cmd.once]
    <3>1. subscriptions'[x].requests = subscriptions[x].requests \cup {new} /\ new.request_id = id
      BY <1>5, <2>1
    <3> HIDE DEF new
    <3>2. Registered(x, i)' <=> Registered(x, i) \/ new.request_id = i
      BY <3>1 DEF Registered
    <3> QED
      BY <2>1, <3>1, <3>2
  <2>2. CASE x # t
    BY <1>5, <2>2 DEF Registered
  <2> QED
    BY <2>1, <2>2
<1> QED
  BY <1>1, <1>2, <1>4, <1>5, <1>6

-------------------------------------------------------------------------------
\* The kinds of steps, one by one.
LEMMA QuietKeepsFresh ==
  ASSUME TypeOK, FreshInv, QuietStep
  PROVE  FreshInv'
<1> USE DEF FreshInv, QuietStep, echoVars
<1>1. UniqueIds' /\ IndexAgrees' /\ RegisteredAsSent'
  BY DEF UniqueIds, IndexAgrees, Registered, RegisteredAsSent
<1>2. UntouchedBefore' /\ EndedIsGone'
  BY DEF UntouchedBefore, Untouched, SentIds, QueuedIds, EndedIsGone
<1>3. OnceHasOneOutcome'
  BY DEF OnceHasOneOutcome, Outcomes, Registered, TypeOK, QueueTypes, SubscribeCmd
<1> QED
  BY <1>1, <1>2, <1>3

LEMMA SendKeepsFresh ==
  ASSUME TypeOK, FreshInv, ~IdReuse, NEW cmd \in SubscribeCmd, EnqueueSubscribe(cmd)
  PROVE  FreshInv'
<1> DEFINE id == cmd.request_id
<1>1. /\ UniqueIds' /\ id \in RequestIds \ SentIds
      /\ SentIds' = SentIds \cup {id} /\ QueuedIds' = QueuedIds \cup {id}
  BY Sending DEF FreshInv
<1>2. UNCHANGED <<subscriptions, once_topics, timeout_timers, payloads, errors>> /\ sent' = sent \cup {cmd}
  BY DEF EnqueueSubscribe, echoVars
<1>3. Untouched(id) /\ \A t \in Topics : ~Registered(t, id)
  <2>1. Untouched(id)
    BY <1>1 DEF FreshInv, UntouchedBefore
  <2> QED
    BY <1>1, <2>1, RelayAssumption DEF FreshInv, IndexAgrees, Untouched
<1>4. IndexAgrees' /\ RegisteredAsSent' /\ EndedIsGone'
  BY <1>2 DEF FreshInv, IndexAgrees, Registered, RegisteredAsSent, EndedIsGone, TimedOut, Refused
<1>5. UntouchedBefore'
  BY <1>1, <1>2, <1>3 DEF FreshInv, UntouchedBefore, Untouched, TimedOut, Refused
<1>6. OnceHasOneOutcome'
  <2> SUFFICES ASSUME NEW c \in sent', c.once
               PROVE  Outcomes(c.request_id)' <= 1 /\ (c.topic_name \in Topics /\ Registered(c.topic_name, c.request_id)' => Outcomes(c.request_id)' = 0)
    BY DEF OnceHasOneOutcome
  <2>1. CASE c \in sent
    BY <1>2, <2>1 DEF FreshInv, OnceHasOneOutcome, Outcomes, Registered, TimedOut, Refused
  <2>2. CASE c = cmd
    BY <1>2, <1>3, <2>2 DEF Untouched, Outcomes, TimedOut, Refused
  <2> QED
    BY <1>2, <2>1, <2>2
<1> QED
  BY <1>1, <1>4, <1>5, <1>6 DEF FreshInv

LEMMA AcceptKeepsFresh ==
  ASSUME TypeOK, FreshInv, NEW cmd \in SubscribeCmd, NEW type \in Types \cup {NoType}, AcceptStep(cmd, type)
  PROVE  FreshInv'
<1> DEFINE id == cmd.request_id
           t == cmd.topic_name
<1>1. UniqueIds' /\ cmd \in sent /\ QueuedIds = QueuedIds' \cup {id} /\ id \notin QueuedIds'
  BY Handling DEF FreshInv, AcceptStep
<1>2. UNCHANGED <<sent, payloads, errors>> /\ SentIds' = SentIds
  BY DEF AcceptStep, HandleSubscribe, SentIds
<1>3. /\ t \in Topics /\ id \in RequestIds /\ Untouched(id)
      /\ \A x \in Topics : subscriptions'[x].requests =
           subscriptions[x].requests \cup (IF x = t THEN {[request_id |-> id, once |-> cmd.once]} ELSE {})
      /\ once_topics' = [once_topics EXCEPT ![id] = t]
      /\ \A x \in Topics, i \in RequestIds : Registered(x, i)' <=> Registered(x, i) \/ (x = t /\ i = id)
  BY Accepting
<1>4. \A i \in RequestIds : once_topics'[i] = IF i = id THEN t ELSE once_topics[i]
  BY <1>3 DEF TypeOK, EchoTypes
<1>5. \A i \in RequestIds : (TimedOut(i)' <=> TimedOut(i)) /\ (Refused(i)' <=> Refused(i))
  BY <1>2 DEF TimedOut, Refused
<1>6. IndexAgrees'
  BY <1>3, <1>4, RelayAssumption DEF FreshInv, IndexAgrees, Untouched
<1>7. RegisteredAsSent'
  <2> SUFFICES ASSUME NEW x \in Topics, NEW r \in subscriptions'[x].requests
               PROVE  \E c \in sent : c.request_id = r.request_id /\ c.topic_name = x /\ c.once = r.once
    BY <1>2 DEF RegisteredAsSent
  <2>1. CASE r \in subscriptions[x].requests
    BY <2>1 DEF FreshInv, RegisteredAsSent
  <2>2. CASE x = t /\ r = [request_id |-> id, once |-> cmd.once]
    BY <1>1, <2>2
  <2> QED
    BY <1>3, <2>1, <2>2
<1>8. UntouchedBefore'
  <2>1. id \in SentIds
    BY <1>1 DEF SentIds
  <2> QED
    BY <1>1, <1>2, <1>4, <1>5, <2>1 DEF FreshInv, UntouchedBefore, Untouched
<1>9. EndedIsGone'
  BY <1>3, <1>4, <1>5 DEF FreshInv, EndedIsGone, Untouched
<1>10. OnceHasOneOutcome'
  <2> SUFFICES ASSUME NEW c \in sent, c.once
               PROVE  Outcomes(c.request_id)' <= 1 /\ (c.topic_name \in Topics /\ Registered(c.topic_name, c.request_id)' => Outcomes(c.request_id)' = 0)
    BY <1>2 DEF OnceHasOneOutcome
  <2>1. c.request_id \in RequestIds
    BY DEF TypeOK, QueueTypes, SubscribeCmd
  <2>2. Outcomes(c.request_id)' = Outcomes(c.request_id)
    BY <1>2, <1>5, <2>1 DEF Outcomes
  <2>3. CASE c.request_id = id
    BY <1>3, <2>2, <2>3 DEF Outcomes, Untouched
  <2>4. CASE c.request_id # id
    <3>1. c.topic_name \in Topics /\ Registered(c.topic_name, c.request_id)' => Registered(c.topic_name, c.request_id)
      BY <1>3, <2>1, <2>4
    <3> QED
      BY <2>2, <3>1 DEF FreshInv, OnceHasOneOutcome
  <2> QED
    BY <2>3, <2>4
<1> QED
  BY <1>1, <1>6, <1>7, <1>8, <1>9, <1>10 DEF FreshInv

LEMMA RejectKeepsFresh ==
  ASSUME TypeOK, FreshInv, NEW cmd \in SubscribeCmd, RejectStep(cmd)
  PROVE  FreshInv'
<1> DEFINE id == cmd.request_id
<1>1. UniqueIds' /\ cmd \in sent /\ QueuedIds = QueuedIds' \cup {id} /\ id \notin QueuedIds' /\ id \in RequestIds
  BY Handling DEF FreshInv, RejectStep, SubscribeCmd
<1>2. /\ UNCHANGED <<sent, payloads, subscriptions, once_topics>> /\ SentIds' = SentIds
      /\ errors' = errors \cup {<<id, "SUBSCRIBE_FAILED">>}
  BY DEF RejectStep, HandleSubscribe, RejectSubscribe, SendError, SentIds, echoVars
<1>3. Untouched(id)
  BY <1>1 DEF FreshInv, UntouchedBefore
<1>4. \A i \in RequestIds : (TimedOut(i)' <=> TimedOut(i)) /\ (Refused(i)' <=> Refused(i) \/ i = id)
  BY <1>2 DEF TimedOut, Refused
<1>5. IndexAgrees' /\ RegisteredAsSent'
  BY <1>2 DEF FreshInv, IndexAgrees, Registered, RegisteredAsSent
<1>6. EndedIsGone'
  BY <1>2, <1>3, <1>4 DEF FreshInv, EndedIsGone, Untouched
<1>7. UntouchedBefore'
  <2>1. id \in SentIds
    BY <1>1 DEF SentIds
  <2> QED
    BY <1>1, <1>2, <1>4, <2>1 DEF FreshInv, UntouchedBefore, Untouched
<1>8. OnceHasOneOutcome'
  <2> SUFFICES ASSUME NEW c \in sent, c.once
               PROVE  /\ Outcomes(c.request_id)' <= 1
                      /\ c.topic_name \in Topics /\ Registered(c.topic_name, c.request_id)' => Outcomes(c.request_id)' = 0
    BY <1>2 DEF OnceHasOneOutcome
  <2>1. c.request_id \in RequestIds
    BY DEF TypeOK, QueueTypes, SubscribeCmd
  <2>2. Registered(c.topic_name, c.request_id)' <=> Registered(c.topic_name, c.request_id)
    BY <1>2 DEF Registered
  <2>3. CASE c.request_id = id
    <3>1. Outcomes(id)' = 1
      BY <1>1, <1>2, <1>3, <1>4 DEF Outcomes, Untouched
    <3>2. c.topic_name \in Topics => ~Registered(c.topic_name, id)
      BY <1>1, <1>3, RelayAssumption DEF Untouched, FreshInv, IndexAgrees
    <3> QED
      BY <2>2, <2>3, <3>1, <3>2
  <2>4. CASE c.request_id # id
    <3>1. Outcomes(c.request_id)' = Outcomes(c.request_id)
      BY <1>2, <1>4, <2>1, <2>4 DEF Outcomes
    <3> QED
      BY <2>2, <3>1 DEF FreshInv, OnceHasOneOutcome
  <2> QED
    BY <2>3, <2>4
<1> QED
  BY <1>1, <1>5, <1>6, <1>7, <1>8 DEF FreshInv

\* The request the index names is the one that was sent.
LEMMA ActiveAsSent ==
  ASSUME FreshInv, NEW c \in sent, c.request_id \in RequestIds, once_topics[c.request_id] \in Topics
  PROVE  /\ c.topic_name = once_topics[c.request_id] /\ Registered(c.topic_name, c.request_id)
         /\ \A r \in subscriptions[c.topic_name].requests : r.request_id = c.request_id => r.once = c.once
<1> DEFINE t == once_topics[c.request_id]
<1>1. Registered(t, c.request_id)
  BY DEF FreshInv, IndexAgrees
<1>2. \A r \in subscriptions[t].requests : r.request_id = c.request_id => c.topic_name = t /\ r.once = c.once
  BY DEF FreshInv, RegisteredAsSent, UniqueIds
<1> QED
  BY <1>1, <1>2 DEF Registered

\* What every end of requests keeps, whoever ends them.
LEMMA EndsKeepsFresh ==
  ASSUME TypeOK, FreshInv, NEW ids, Ends(ids), UNCHANGED <<sent, subscribeQueue>>,
         \A id \in RequestIds : once_topics[id] = EmptyTopic =>
           /\ payloads'[id] = payloads[id]
           /\ TimedOut(id)' <=> TimedOut(id)
           /\ Refused(id)' <=> Refused(id),
         \A id \in RequestIds : once_topics[id] # EmptyTopic /\ id \notin ids =>
           ~TimedOut(id)' /\ ~Refused(id)',
         \A c \in sent : c.once /\ once_topics[c.request_id] # EmptyTopic =>
           /\ Outcomes(c.request_id)' <= 1
           /\ c.request_id \notin ids => Outcomes(c.request_id)' = 0
  PROVE  FreshInv'
<1>1. /\ \A t \in Topics, id \in RequestIds : Registered(t, id)' <=> Registered(t, id) /\ id \notin ids
      /\ \A id \in RequestIds : once_topics'[id] = IF id \in ids THEN EmptyTopic ELSE once_topics[id]
      /\ IndexAgrees' /\ RegisteredAsSent'
  BY EndsKeepsIndex DEF FreshInv
<1>2. UniqueIds' /\ SentIds' = SentIds /\ QueuedIds' = QueuedIds
  BY DEF FreshInv, UniqueIds, SentIds, QueuedIds
<1>3. UntouchedBefore'
  BY <1>1, <1>2 DEF FreshInv, UntouchedBefore, Untouched
<1>4. EndedIsGone'
  BY <1>1 DEF FreshInv, EndedIsGone
<1>5. OnceHasOneOutcome'
  <2> SUFFICES ASSUME NEW c \in sent, c.once
               PROVE  /\ Outcomes(c.request_id)' <= 1
                      /\ c.topic_name \in Topics /\ Registered(c.topic_name, c.request_id)' => Outcomes(c.request_id)' = 0
    BY DEF OnceHasOneOutcome
  <2>1. c.request_id \in RequestIds
    BY DEF TypeOK, QueueTypes, SubscribeCmd
  <2>2. CASE once_topics[c.request_id] = EmptyTopic
    <3>1. Outcomes(c.request_id)' = Outcomes(c.request_id)
      BY <2>1, <2>2 DEF Outcomes
    <3> QED
      BY <1>1, <2>1, <3>1 DEF FreshInv, OnceHasOneOutcome
  <2>3. CASE once_topics[c.request_id] # EmptyTopic
    BY <1>1, <2>1, <2>3
  <2> QED
    BY <2>2, <2>3
<1> QED
  BY <1>1, <1>2, <1>3, <1>4, <1>5 DEF FreshInv

\* While a one-shot request is active it has had no outcome.
LEMMA ActiveHasNone ==
  ASSUME TypeOK, FreshInv, NEW c \in sent, c.once, once_topics[c.request_id] # EmptyTopic
  PROVE  /\ c.request_id \in RequestIds /\ once_topics[c.request_id] \in Topics
         /\ Outcomes(c.request_id) = 0 /\ payloads[c.request_id] = 0
         /\ ~TimedOut(c.request_id) /\ ~Refused(c.request_id)
<1>1. c.request_id \in RequestIds
  BY DEF TypeOK, QueueTypes, SubscribeCmd
<1>2. once_topics[c.request_id] \in Topics
  BY <1>1 DEF TypeOK, EchoTypes
<1>3. Outcomes(c.request_id) = 0
  BY <1>1, <1>2, ActiveAsSent DEF FreshInv, OnceHasOneOutcome
<1>4. ~TimedOut(c.request_id) /\ ~Refused(c.request_id)
  BY <1>1 DEF FreshInv, EndedIsGone
<1>5. payloads[c.request_id] \in Nat
  BY <1>1 DEF TypeOK, ResponseTypes
<1> QED
  BY <1>1, <1>2, <1>3, <1>4, <1>5 DEF Outcomes

LEMMA CloseKeepsFresh ==
  ASSUME TypeOK, FreshInv, NEW topics \in SUBSET Topics, CloseStep(topics)
  PROVE  FreshInv'
<1> DEFINE ids == IdsOf(topics)
<1>1. Ends(ids) /\ UNCHANGED <<sent, subscribeQueue, payloads, errors>>
  BY CloseEnds DEF CloseStep, FreshInv
<1>2. \A id \in RequestIds : payloads'[id] = payloads[id] /\ (TimedOut(id)' <=> TimedOut(id)) /\ (Refused(id)' <=> Refused(id))
  BY <1>1 DEF TimedOut, Refused
<1>3. \A id \in RequestIds : once_topics[id] # EmptyTopic => ~TimedOut(id)' /\ ~Refused(id)'
  BY <1>2 DEF FreshInv, EndedIsGone
<1>4. \A c \in sent : c.once /\ once_topics[c.request_id] # EmptyTopic =>
        Outcomes(c.request_id)' <= 1 /\ Outcomes(c.request_id)' = 0
  <2> SUFFICES ASSUME NEW c \in sent, c.once, once_topics[c.request_id] # EmptyTopic
               PROVE  Outcomes(c.request_id)' <= 1 /\ Outcomes(c.request_id)' = 0
    OBVIOUS
  <2>1. c.request_id \in RequestIds /\ Outcomes(c.request_id) = 0
    BY ActiveHasNone
  <2>2. Outcomes(c.request_id)' = Outcomes(c.request_id)
    BY <1>2, <2>1 DEF Outcomes
  <2> QED
    BY <2>1, <2>2
<1> HIDE DEF ids
<1> QED
  BY <1>1, <1>2, <1>3, <1>4, EndsKeepsFresh

\* The ids a message of topic t reaches, and those of them it ends.
ReceiverIds(t) == {r.request_id : r \in subscriptions[t].requests}
OneShotIds(t) == {r.request_id : r \in {q \in subscriptions[t].requests : q.once}}

LEMMA MessageEnds ==
  ASSUME TypeOK, FreshInv, NEW t \in Topics, HandleTopicMessage(t)
  PROVE  /\ Ends(OneShotIds(t)) /\ UNCHANGED <<sent, subscribeQueue, errors>>
         /\ \A id \in RequestIds : id \in ReceiverIds(t) <=> once_topics[id] = t
         /\ OneShotIds(t) \subseteq ReceiverIds(t) /\ ReceiverIds(t) \subseteq RequestIds
         /\ payloads' = [id \in RequestIds |-> IF id \in ReceiverIds(t) THEN payloads[id] + 1 ELSE payloads[id]]
<1>1. /\ RemoveTopicRequests(t, OneShotIds(t)) /\ UNCHANGED <<sent, subscribeQueue, errors>>
      /\ payloads' = [id \in RequestIds |-> IF id \in ReceiverIds(t) THEN payloads[id] + 1 ELSE payloads[id]]
  BY DEF HandleTopicMessage, OneShotIds, ReceiverIds, queueVars, clientVars
<1>2. OneShotIds(t) \subseteq ReceiverIds(t) /\ ReceiverIds(t) \subseteq RequestIds
  BY DEF OneShotIds, ReceiverIds, TypeOK, EchoTypes, Subscription, EchoRequest
<1>3. \A id \in RequestIds : id \in ReceiverIds(t) <=> once_topics[id] = t
  <2>1. \A id \in RequestIds : id \in ReceiverIds(t) <=> Registered(t, id)
    BY DEF ReceiverIds, Registered
  <2> QED
    BY <2>1 DEF FreshInv, IndexAgrees
<1>4. \A id \in OneShotIds(t) : once_topics[id] = t
  BY <1>2, <1>3
<1>5. Ends(OneShotIds(t))
  BY <1>1, <1>2, <1>4, RemoveEnds DEF FreshInv
<1> QED
  BY <1>1, <1>2, <1>3, <1>5

LEMMA MessageKeepsFresh ==
  ASSUME TypeOK, FreshInv, NEW t \in Topics, HandleTopicMessage(t)
  PROVE  FreshInv'
<1> DEFINE ids == OneShotIds(t)
<1>1. /\ Ends(ids) /\ UNCHANGED <<sent, subscribeQueue, errors>>
      /\ \A id \in RequestIds : id \in ReceiverIds(t) <=> once_topics[id] = t
      /\ payloads' = [id \in RequestIds |-> IF id \in ReceiverIds(t) THEN payloads[id] + 1 ELSE payloads[id]]
  BY MessageEnds
<1>2. \A id \in RequestIds : (TimedOut(id)' <=> TimedOut(id)) /\ (Refused(id)' <=> Refused(id))
  BY <1>1 DEF TimedOut, Refused
<1>3. \A id \in RequestIds : once_topics[id] = EmptyTopic => payloads'[id] = payloads[id]
  BY <1>1, RelayAssumption
<1>4. \A id \in RequestIds : once_topics[id] # EmptyTopic => ~TimedOut(id)' /\ ~Refused(id)'
  BY <1>2 DEF FreshInv, EndedIsGone
<1>5. \A c \in sent : c.once /\ once_topics[c.request_id] # EmptyTopic =>
        /\ Outcomes(c.request_id)' <= 1
        /\ c.request_id \notin ids => Outcomes(c.request_id)' = 0
  <2> SUFFICES ASSUME NEW c \in sent, c.once, once_topics[c.request_id] # EmptyTopic
               PROVE  /\ Outcomes(c.request_id)' <= 1
                      /\ c.request_id \notin ids => Outcomes(c.request_id)' = 0
    OBVIOUS
  <2>1. c.request_id \in RequestIds /\ once_topics[c.request_id] \in Topics
    BY ActiveHasNone
  <2>2. ~TimedOut(c.request_id) /\ ~Refused(c.request_id) /\ payloads[c.request_id] = 0
    BY ActiveHasNone
  <2>3. Outcomes(c.request_id)' = payloads'[c.request_id] /\ payloads'[c.request_id] \in {0, 1}
    BY <1>1, <1>2, <2>1, <2>2 DEF Outcomes
  <2>4. ASSUME c.request_id \notin ids PROVE once_topics[c.request_id] # t
    BY <2>1, <2>4, ActiveAsSent DEF OneShotIds, Registered
  <2> QED
    BY <1>1, <2>1, <2>2, <2>3, <2>4
<1> HIDE DEF ids
<1> QED
  BY <1>1, <1>2, <1>3, <1>4, <1>5, EndsKeepsFresh

LEMMA TimeoutEndsIt ==
  ASSUME TypeOK, FreshInv, NEW id \in RequestIds, once_topics[id] \in Topics, TimeoutFires(id)
  PROVE  /\ Ends({id}) /\ UNCHANGED <<sent, subscribeQueue, payloads>> /\ id \in timeout_timers
         /\ errors' = errors \cup {<<id, "SUBSCRIBE_TIMEOUT">>}
<1>1. /\ RemoveTopicRequests(once_topics[id], {id}) /\ UNCHANGED <<sent, subscribeQueue, payloads>>
      /\ errors' = errors \cup {<<id, "SUBSCRIBE_TIMEOUT">>} /\ id \in timeout_timers
  BY RelayAssumption DEF TimeoutFires, SendError, queueVars, clientVars
<1>2. \A i \in {id} : once_topics[i] = once_topics[id]
  OBVIOUS
<1> QED
  BY <1>1, <1>2, RemoveEnds DEF FreshInv

LEMMA TimeoutKeepsFresh ==
  ASSUME TypeOK, FreshInv, NEW id \in RequestIds, once_topics[id] \in Topics, TimeoutFires(id)
  PROVE  FreshInv'
<1>1. /\ Ends({id}) /\ UNCHANGED <<sent, subscribeQueue, payloads>>
      /\ errors' = errors \cup {<<id, "SUBSCRIBE_TIMEOUT">>}
  BY TimeoutEndsIt
<1>2. \A i \in RequestIds : (TimedOut(i)' <=> TimedOut(i) \/ i = id) /\ (Refused(i)' <=> Refused(i))
  BY <1>1 DEF TimedOut, Refused
<1>3. \A i \in RequestIds : once_topics[i] = EmptyTopic =>
        payloads'[i] = payloads[i] /\ (TimedOut(i)' <=> TimedOut(i)) /\ (Refused(i)' <=> Refused(i))
  BY <1>1, <1>2, RelayAssumption
<1>4. \A i \in RequestIds : once_topics[i] # EmptyTopic /\ i \notin {id} => ~TimedOut(i)' /\ ~Refused(i)'
  BY <1>2 DEF FreshInv, EndedIsGone
<1>5. \A c \in sent : c.once /\ once_topics[c.request_id] # EmptyTopic =>
        /\ Outcomes(c.request_id)' <= 1
        /\ c.request_id \notin {id} => Outcomes(c.request_id)' = 0
  <2> SUFFICES ASSUME NEW c \in sent, c.once, once_topics[c.request_id] # EmptyTopic
               PROVE  /\ Outcomes(c.request_id)' <= 1
                      /\ c.request_id # id => Outcomes(c.request_id)' = 0
    OBVIOUS
  <2>1. c.request_id \in RequestIds /\ ~TimedOut(c.request_id) /\ ~Refused(c.request_id)
        /\ payloads[c.request_id] = 0
    BY ActiveHasNone
  <2> QED
    BY <1>1, <1>2, <2>1 DEF Outcomes
<1> QED
  BY <1>1, <1>3, <1>4, <1>5, EndsKeepsFresh

-------------------------------------------------------------------------------
LEMMA FreshInit ==
  ASSUME Init
  PROVE  FreshInv
<1> USE DEF Init
<1>1. UniqueIds /\ SentIds = {} /\ QueuedIds = {}
  BY DEF UniqueIds, SentIds, QueuedIds
<1>2. IndexAgrees /\ RegisteredAsSent
  BY RelayAssumption DEF IndexAgrees, Registered, NoSubscription, RegisteredAsSent
<1>3. UntouchedBefore /\ EndedIsGone /\ OnceHasOneOutcome
  BY <1>1 DEF UntouchedBefore, Untouched, TimedOut, Refused, EndedIsGone, OnceHasOneOutcome
<1> QED
  BY <1>1, <1>2, <1>3 DEF FreshInv

LEMMA FreshStep ==
  ASSUME TypeOK, EchoSafe, FreshInv, ~IdReuse, [Next]_vars
  PROVE  FreshInv'
BY StepKinds, QuietKeepsFresh, SendKeepsFresh, AcceptKeepsFresh, RejectKeepsFresh,
   CloseKeepsFresh, MessageKeepsFresh, TimeoutKeepsFresh

\* Of a request that was told it timed out the index knows nothing, so no
\* message reaches it, whatever the step.
LEMMA SilentStep ==
  ASSUME TypeOK, EchoSafe, FreshInv, [Next]_vars, NEW id \in RequestIds, TimedOut(id)
  PROVE  payloads'[id] = payloads[id]
<1>1. once_topics[id] = EmptyTopic
  BY DEF FreshInv, EndedIsGone
<1>2. ASSUME NEW t \in Topics, HandleTopicMessage(t)
      PROVE  payloads'[id] = payloads[id]
  BY <1>1, <1>2, MessageEnds, RelayAssumption
<1>3. ASSUME NEW i \in RequestIds, TimeoutFires(i)
      PROVE  payloads' = payloads
  BY <1>3 DEF TimeoutFires
<1> QED
  BY <1>2, <1>3, StepKinds DEF QuietStep, EnqueueSubscribe, AcceptStep, RejectStep, HandleSubscribe, CloseStep

\* All of it together, when no client sends an id twice.
LEMMA FreshAlways == ASSUME ~IdReuse PROVE Spec => [](TypeOK /\ EchoSafe /\ FreshInv)
<1>1. TypeOK /\ EchoSafe /\ FreshInv /\ [Next]_vars => FreshInv'
  BY FreshStep
<1> QED
  BY <1>1, FreshInit, TypeCorrect, EchoAlwaysSafe, PTL DEF Spec

\* With fresh request ids the index always names exactly the topic each active
\* request is registered at: subscribe, message, timeout and unsubscribe keep the
\* two records of the node in agreement in every interleaving.
THEOREM IndexSafety == ASSUME ~IdReuse PROVE Spec => []IndexAgrees
<1>1. FreshInv => IndexAgrees
  BY DEF FreshInv
<1> QED
  BY <1>1, FreshAlways, PTL

\* With fresh request ids a one-shot echo gets one outcome at most, a payload, the
\* timeout or a refusal, and none while it is active, however messages, timers
\* and queued commands interleave.
THEOREM OnceSafety == ASSUME ~IdReuse PROVE Spec => []OnceHasOneOutcome
<1>1. FreshInv => OnceHasOneOutcome
  BY DEF FreshInv
<1> QED
  BY <1>1, FreshAlways, PTL

\* With fresh request ids no message of a topic is ever counted for a request that
\* was told it timed out.
THEOREM SilenceSafety == ASSUME ~IdReuse PROVE Spec => SilentAfterTimeout
<1>1. TypeOK /\ EchoSafe /\ FreshInv /\ [Next]_vars =>
        [\A id \in RequestIds : TimedOut(id) => payloads'[id] = payloads[id]]_vars
  BY SilentStep
<1> QED
  BY <1>1, FreshAlways, PTL DEF Spec, SilentAfterTimeout

-------------------------------------------------------------------------------
(***************************************************************************)
(* The relay implements the echo service: every step is a step of the     *)
(* service or changes nothing a client sees.                               *)
(***************************************************************************)

\* The live requests are those registered, each at its topic.
LiveAgrees ==
  /\ LiveRequests \subseteq Echo!Request
  /\ \A q \in Echo!Request :
       q \in LiveRequests <=>
         [request_id |-> q.request_id, once |-> q.once] \in subscriptions[q.topic_name].requests

LEMMA LiveIsRegistered == TypeOK => LiveAgrees
<1> SUFFICES ASSUME TypeOK PROVE LiveAgrees
  OBVIOUS
<1>1. ASSUME NEW q \in LiveRequests
      PROVE  /\ q \in Echo!Request
             /\ [request_id |-> q.request_id, once |-> q.once] \in subscriptions[q.topic_name].requests
  <2>1. PICK t \in Topics : \E r \in subscriptions[t].requests :
          q = [request_id |-> r.request_id, topic_name |-> t, once |-> r.once]
    BY DEF LiveRequests
  <2>2. PICK r \in subscriptions[t].requests :
          q = [request_id |-> r.request_id, topic_name |-> t, once |-> r.once]
    BY <2>1
  <2>3. r \in EchoRequest
    BY DEF TypeOK, EchoTypes, Subscription
  <2>4. r = [request_id |-> q.request_id, once |-> q.once] /\ q.topic_name = t
    BY <2>2, <2>3 DEF EchoRequest
  <2> QED
    BY <2>2, <2>3, <2>4 DEF EchoRequest, Echo!Request
<1>2. ASSUME NEW q \in Echo!Request,
             [request_id |-> q.request_id, once |-> q.once] \in subscriptions[q.topic_name].requests
      PROVE  q \in LiveRequests
  <2> DEFINE r == [request_id |-> q.request_id, once |-> q.once]
  <2>1. q = [request_id |-> r.request_id, topic_name |-> q.topic_name, once |-> r.once] /\ q.topic_name \in Topics
    BY DEF Echo!Request
  <2> QED
    BY <1>2, <2>1 DEF LiveRequests
<1> QED
  BY <1>1, <1>2 DEF LiveAgrees

LEMMA LiveStaysRegistered == TypeOK' => LiveAgrees'
BY LiveIsRegistered, PTL

\* Each live request is the one the index names, and the only one of its id.
LEMMA LiveIsIndexed ==
  ASSUME TypeOK, FreshInv
  PROVE  /\ \A q \in LiveRequests : q.request_id \in RequestIds /\ once_topics[q.request_id] = q.topic_name
         /\ \A p, q \in LiveRequests : p.request_id = q.request_id => p = q
         /\ \A id \in RequestIds : once_topics[id] \in Topics => \E q \in LiveRequests : q.request_id = id
<1>1. ASSUME NEW q \in LiveRequests
      PROVE  /\ q \in Echo!Request /\ q.request_id \in RequestIds /\ once_topics[q.request_id] = q.topic_name
             /\ \E c \in sent : c.request_id = q.request_id /\ c.topic_name = q.topic_name /\ c.once = q.once
  <2> DEFINE r == [request_id |-> q.request_id, once |-> q.once]
  <2>1. q \in Echo!Request /\ r \in subscriptions[q.topic_name].requests
    BY LiveIsRegistered DEF LiveAgrees
  <2>2. q.topic_name \in Topics /\ q.request_id \in RequestIds /\ r.request_id = q.request_id /\ r.once = q.once
    BY <2>1 DEF Echo!Request
  <2> HIDE DEF r
  <2>3. Registered(q.topic_name, q.request_id)
    BY <2>1, <2>2 DEF Registered
  <2> QED
    BY <2>1, <2>2, <2>3 DEF FreshInv, IndexAgrees, RegisteredAsSent
<1>2. ASSUME NEW p \in LiveRequests, NEW q \in LiveRequests, p.request_id = q.request_id
      PROVE  p = q
  <2>1. p.once = q.once /\ p.topic_name = q.topic_name
    BY <1>1, <1>2 DEF FreshInv, UniqueIds
  <2> QED
    BY <1>1, <1>2, <2>1 DEF Echo!Request
<1>3. ASSUME NEW id \in RequestIds, once_topics[id] \in Topics
      PROVE  \E q \in LiveRequests : q.request_id = id
  <2>1. PICK r \in subscriptions[once_topics[id]].requests : r.request_id = id
    BY <1>3 DEF FreshInv, IndexAgrees, Registered
  <2> DEFINE q == [request_id |-> id, topic_name |-> once_topics[id], once |-> r.once]
  <2>2. q \in LiveRequests
    BY <1>3, <2>1 DEF LiveRequests
  <2> QED
    BY <2>2
<1> QED
  BY <1>1, <1>2, <1>3

\* The end of ids is the end of the live requests with these ids.
LEMMA EndsRefines ==
  ASSUME TypeOK, TypeOK', EchoSafe, FreshInv, NEW ids, Ends(ids),
         NEW R \in SUBSET LiveRequests, \A q \in LiveRequests : q.request_id \in ids <=> q \in R
  PROVE  Echo!End(R)
<1>1. LiveRequests' = LiveRequests \ R
  <2>1. LiveRequests' \subseteq Echo!Request /\ LiveRequests \subseteq Echo!Request
    BY LiveIsRegistered, LiveStaysRegistered DEF LiveAgrees
  <2>2. ASSUME NEW q \in Echo!Request
        PROVE  q \in LiveRequests' <=> q \in LiveRequests /\ q.request_id \notin ids
    <3> DEFINE r == [request_id |-> q.request_id, once |-> q.once]
    <3>1. q \in LiveRequests <=> r \in subscriptions[q.topic_name].requests
      BY LiveIsRegistered DEF LiveAgrees
    <3>2. q \in LiveRequests' <=> r \in subscriptions'[q.topic_name].requests
      BY LiveStaysRegistered DEF LiveAgrees
    <3>3. q.topic_name \in Topics /\ r.request_id = q.request_id
      BY DEF Echo!Request
    <3> HIDE DEF r
    <3>4. subscriptions'[q.topic_name].requests = {x \in subscriptions[q.topic_name].requests : x.request_id \notin ids}
      BY <3>3 DEF Ends
    <3> QED
      BY <3>1, <3>2, <3>3, <3>4
  <2> QED
    BY <2>1, <2>2
<1>2. timeout_timers' = timeout_timers \ {r.request_id : r \in R}
  <2>1. timeout_timers' = timeout_timers \ ids
    BY DEF Ends, ForgetIds
  <2>2. \A id \in timeout_timers : \E q \in LiveRequests : q.request_id = id
    BY LiveIsIndexed DEF EchoSafe, NoOrphanTimer, TypeOK, EchoTypes
  <2> QED
    BY <2>1, <2>2
<1> QED
  BY <1>1, <1>2 DEF Echo!End

LEMMA AcceptRefines ==
  ASSUME TypeOK, TypeOK', FreshInv, NEW cmd \in SubscribeCmd, NEW type \in Types \cup {NoType}, AcceptStep(cmd, type)
  PROVE  \E r \in Echo!Request, timed \in BOOLEAN : Echo!Open(r, timed)
<1> DEFINE id == cmd.request_id
           t == cmd.topic_name
           new == [request_id |-> id, once |-> cmd.once]
           r == [request_id |-> id, topic_name |-> t, once |-> cmd.once]
<1>1. /\ t \in Topics /\ id \in RequestIds
      /\ \A x \in Topics : subscriptions'[x].requests = subscriptions[x].requests \cup (IF x = t THEN {new} ELSE {})
      /\ timeout_timers' = IF cmd.timeout THEN timeout_timers \cup {id} ELSE timeout_timers
  BY Accepting
<1>2. r \in Echo!Request /\ cmd.timeout \in BOOLEAN
  BY <1>1 DEF Echo!Request, SubscribeCmd
<1>3. LiveRequests' = LiveRequests \cup {r}
  <2>1. LiveRequests' \subseteq Echo!Request /\ LiveRequests \subseteq Echo!Request
    BY LiveIsRegistered, LiveStaysRegistered DEF LiveAgrees
  <2>2. ASSUME NEW q \in Echo!Request
        PROVE  q \in LiveRequests' <=> q \in LiveRequests \/ q = r
    <3> DEFINE e == [request_id |-> q.request_id, once |-> q.once]
    <3>1. q \in LiveRequests <=> e \in subscriptions[q.topic_name].requests
      BY LiveIsRegistered DEF LiveAgrees
    <3>2. q \in LiveRequests' <=> e \in subscriptions'[q.topic_name].requests
      BY LiveStaysRegistered DEF LiveAgrees
    <3>3. q.topic_name \in Topics /\ (q = r <=> q.topic_name = t /\ e = new)
      BY DEF Echo!Request
    <3> HIDE DEF e, new
    <3> QED
      BY <1>1, <3>1, <3>2, <3>3
  <2> QED
    BY <1>2, <2>1, <2>2
<1>4. cmd \in sent /\ QueuedIds = QueuedIds' \cup {id} /\ id \notin QueuedIds' /\ UNCHANGED <<sent, payloads, errors>>
  BY Handling DEF FreshInv, AcceptStep, HandleSubscribe
<1>5. /\ id \notin SentIds \ QueuedIds
      /\ (SentIds \ QueuedIds)' = (SentIds \ QueuedIds) \cup {id}
  BY <1>4 DEF SentIds
<1>6. Echo!Open(r, cmd.timeout)
  BY <1>1, <1>3, <1>4, <1>5 DEF Echo!Open, SentIds
<1> QED
  BY <1>2, <1>6

LEMMA RejectRefines ==
  ASSUME TypeOK, FreshInv, NEW cmd \in SubscribeCmd, RejectStep(cmd)
  PROVE  cmd.request_id \in RequestIds /\ Echo!Refuse(cmd.request_id)
<1> DEFINE id == cmd.request_id
<1>1. cmd \in sent /\ QueuedIds = QueuedIds' \cup {id} /\ id \notin QueuedIds' /\ id \in RequestIds
  BY Handling DEF FreshInv, RejectStep, SubscribeCmd
<1>2. /\ UNCHANGED <<sent, payloads, subscriptions, timeout_timers>>
      /\ errors' = errors \cup {<<id, "SUBSCRIBE_FAILED">>}
  BY DEF RejectStep, HandleSubscribe, RejectSubscribe, SendError, echoVars
<1>3. /\ id \notin SentIds \ QueuedIds
      /\ (SentIds \ QueuedIds)' = (SentIds \ QueuedIds) \cup {id}
  BY <1>1, <1>2 DEF SentIds
<1>4. LiveRequests' = LiveRequests
  BY <1>2 DEF LiveRequests
<1>5. {i \in RequestIds : <<i, "SUBSCRIBE_TIMEOUT">> \in errors'} = {i \in RequestIds : <<i, "SUBSCRIBE_TIMEOUT">> \in errors}
  BY <1>2
<1> QED
  BY <1>1, <1>2, <1>3, <1>4, <1>5 DEF Echo!Refuse, SentIds

LEMMA CloseRefines ==
  ASSUME TypeOK, TypeOK', EchoSafe, FreshInv, NEW topics \in SUBSET Topics, CloseStep(topics)
  PROVE  Echo!Close(topics)
<1> DEFINE R == {r \in LiveRequests : r.topic_name \in topics}
<1>1. Ends(IdsOf(topics)) /\ \A id \in RequestIds : id \in IdsOf(topics) <=> once_topics[id] \in topics
  BY CloseEnds DEF CloseStep, FreshInv
<1>2. \A q \in LiveRequests : q.request_id \in IdsOf(topics) <=> q \in R
  BY <1>1, LiveIsIndexed
<1>3. Echo!End(R)
  BY <1>1, <1>2, EndsRefines
<1>4. UNCHANGED <<subscribeQueue, sent, payloads, errors>>
  BY DEF CloseStep
<1> QED
  BY <1>3, <1>4 DEF Echo!Close, QueuedIds

LEMMA MessageRefines ==
  ASSUME TypeOK, TypeOK', EchoSafe, FreshInv, NEW t \in Topics, HandleTopicMessage(t)
  PROVE  Echo!Deliver(t)
<1> DEFINE receivers == {r \in LiveRequests : r.topic_name = t}
           R == {r \in receivers : r.once}
<1>1. /\ Ends(OneShotIds(t)) /\ UNCHANGED <<sent, subscribeQueue, errors>>
      /\ \A id \in RequestIds : id \in ReceiverIds(t) <=> once_topics[id] = t
      /\ OneShotIds(t) \subseteq ReceiverIds(t) /\ ReceiverIds(t) \subseteq RequestIds
      /\ payloads' = [id \in RequestIds |-> IF id \in ReceiverIds(t) THEN payloads[id] + 1 ELSE payloads[id]]
  BY MessageEnds
<1>2. \A id \in RequestIds : id \in ReceiverIds(t) <=> \E r \in receivers : r.request_id = id
  BY <1>1, LiveIsIndexed
<1>3. receivers # {}
  <2>1. PICK r \in subscriptions[t].requests : TRUE
    BY DEF HandleTopicMessage, EchoSafe, NoIdleSubscription
  <2>2. r.request_id \in ReceiverIds(t)
    BY DEF ReceiverIds
  <2> QED
    BY <1>1, <1>2, <2>2
<1>4. \A q \in LiveRequests : q.request_id \in OneShotIds(t) <=> q \in R
  <2> SUFFICES ASSUME NEW q \in LiveRequests
               PROVE  q.request_id \in OneShotIds(t) <=> q \in R
    OBVIOUS
  <2> DEFINE e == [request_id |-> q.request_id, once |-> q.once]
  <2>1. /\ q \in Echo!Request /\ e \in subscriptions[q.topic_name].requests
        /\ e.request_id = q.request_id /\ e.once = q.once
    BY LiveIsRegistered DEF LiveAgrees
  <2>2. q.request_id \in RequestIds /\ once_topics[q.request_id] = q.topic_name
    BY LiveIsIndexed
  <2>3. ASSUME q \in R PROVE q.request_id \in OneShotIds(t)
    <3> HIDE DEF e
    <3> QED
      BY <2>1, <2>3 DEF OneShotIds
  <2>4. ASSUME q.request_id \in OneShotIds(t) PROVE q \in R
    <3>1. q.topic_name = t
      BY <1>1, <2>2, <2>4
    <3>2. PICK r \in subscriptions[t].requests : r.once /\ r.request_id = q.request_id
      BY <2>4 DEF OneShotIds
    <3> DEFINE p == [request_id |-> r.request_id, topic_name |-> t, once |-> r.once]
    <3>3. p \in LiveRequests
      BY DEF LiveRequests
    <3>4. p = q
      BY <3>2, <3>3, LiveIsIndexed
    <3> QED
      BY <3>1, <3>2, <3>4
  <2> QED
    BY <2>3, <2>4
<1>5. Echo!End(R)
  BY <1>1, <1>4, EndsRefines
<1>6. payloads' = [id \in RequestIds |-> IF \E r \in receivers : r.request_id = id THEN payloads[id] + 1 ELSE payloads[id]]
  BY <1>1, <1>2
<1> QED
  BY <1>1, <1>3, <1>5, <1>6 DEF Echo!Deliver, QueuedIds

LEMMA TimeoutRefines ==
  ASSUME TypeOK, TypeOK', EchoSafe, FreshInv, NEW id \in RequestIds, once_topics[id] \in Topics, TimeoutFires(id)
  PROVE  Echo!Expire(id)
<1> DEFINE R == {r \in LiveRequests : r.request_id = id}
<1>1. /\ Ends({id}) /\ UNCHANGED <<sent, subscribeQueue, payloads>> /\ id \in timeout_timers
      /\ errors' = errors \cup {<<id, "SUBSCRIBE_TIMEOUT">>}
  BY TimeoutEndsIt
<1>2. Echo!End(R)
  BY <1>1, EndsRefines
<1>3. {i \in RequestIds : <<i, "SUBSCRIBE_TIMEOUT">> \in errors'} =
        {i \in RequestIds : <<i, "SUBSCRIBE_TIMEOUT">> \in errors} \cup {id}
  BY <1>1
<1> QED
  BY <1>1, <1>2, <1>3 DEF Echo!Expire, QueuedIds

LEMMA QuietRefines ==
  ASSUME QuietStep
  PROVE  UNCHANGED Echo!vars
BY DEF QuietStep, echoVars, Echo!vars, LiveRequests, QueuedIds, TimedOut

LEMMA SendRefines ==
  ASSUME TypeOK, FreshInv, ~IdReuse, NEW cmd \in SubscribeCmd, EnqueueSubscribe(cmd)
  PROVE  UNCHANGED Echo!vars
<1>1. /\ cmd.request_id \in RequestIds \ SentIds
      /\ SentIds' = SentIds \cup {cmd.request_id} /\ QueuedIds' = QueuedIds \cup {cmd.request_id}
  BY Sending DEF FreshInv
<1>2. (SentIds \ QueuedIds)' = SentIds \ QueuedIds
  BY <1>1
<1>3. UNCHANGED <<subscriptions, timeout_timers, payloads, errors>>
  BY DEF EnqueueSubscribe, echoVars
<1> QED
  BY <1>2, <1>3 DEF Echo!vars, LiveRequests, SentIds

\* With fresh request ids the echo side of the node implements EchoService: what
\* clients see is a set of requests that open once, are served while they live
\* and end for good, although the node keeps an index, timers per id and
\* subscriptions shared by requests.
THEOREM EchoRefinement == ASSUME ~IdReuse PROVE Spec => EchoServiceSpec
<1>1. Init => Echo!Init
  BY DEF Init, Echo!Init, LiveRequests, QueuedIds, NoSubscription
<1>2. TypeOK /\ TypeOK' /\ EchoSafe /\ FreshInv /\ [Next]_vars => [Echo!Next]_(Echo!vars)
  BY StepKinds, QuietRefines, SendRefines, AcceptRefines, RejectRefines,
     CloseRefines, MessageRefines, TimeoutRefines DEF Echo!Next
<1> QED
  BY <1>1, <1>2, FreshAlways, PTL DEF Spec, EchoServiceSpec, Echo!Spec

===============================================================================

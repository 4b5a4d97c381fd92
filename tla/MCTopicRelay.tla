---------------------------- MODULE MCTopicRelay -----------------------------
(***************************************************************************)
(* TopicRelay on two small instances, one per behaviour: the echo side with *)
(* the commands of the configuration, and the publish side with one timed  *)
(* subscribe beside it.  The commands are chosen so that requests share a  *)
(* topic, types conflict, one-shot and lasting requests mix, and streams   *)
(* have zero, one, two and three messages.                                 *)
(***************************************************************************)
EXTENDS TopicRelay

CONSTANTS a, b, t1, t2, none, q1, q2

Sub(id, topic, type, once, timeout) ==
  [request_id |-> id, topic_name |-> topic, message_type |-> type,
   once |-> once, timeout |-> timeout]

Pub(id, topic, type, qos, once, times, rate) ==
  [request_id |-> id, topic_name |-> topic, message_type |-> type, qos |-> qos,
   once |-> once, times |-> times, rate |-> rate]

EchoSubscribes ==
  { Sub(1, a, t1, TRUE, TRUE),  Sub(2, a, none, FALSE, TRUE),
    Sub(3, b, t1, FALSE, FALSE), Sub(3, a, t2, TRUE, FALSE),
    Sub(3, EmptyTopic, t1, FALSE, FALSE) }

TimedSubscribe == { Sub(1, a, t1, FALSE, TRUE) }

LastingSubscribes == { Sub(1, a, t1, FALSE, FALSE), Sub(2, a, t1, FALSE, FALSE) }

NoCommands == {}
EchoUnsubscribes == {a, EmptyTopic}
OneUnsubscribe == {a}

Publishes ==
  { Pub(1, a, t1, q1, TRUE, 0, "zero"), Pub(1, a, t1, q1, FALSE, 3, "positive"),
    Pub(2, a, t1, q1, FALSE, 0, "positive"), Pub(2, a, t2, q1, FALSE, 2, "zero"),
    Pub(1, b, t2, q2, FALSE, 2, "negative"), Pub(2, b, t2, q2, FALSE, 2, "zero"),
    Pub(1, EmptyTopic, t1, q1, TRUE, 0, "zero") }

CONSTANT Foci   \* the instances that are checked
VARIABLE focus

Streams == INSTANCE TopicRelay WITH
  SubscribeCmds <- TimedSubscribe, UnsubscribeCmds <- {}, PublishCmds <- Publishes,
  MaxQueue <- 1, MaxPayloads <- 1

RelayVars == <<focus, vars>>
RelayInit == focus \in Foci /\ Init
RelayNext ==
  /\ \/ focus = "echo" /\ Next
     \/ focus = "streams" /\ Streams!Next
  /\ UNCHANGED focus
RelaySpec == RelayInit /\ [][RelayNext]_RelayVars
===============================================================================

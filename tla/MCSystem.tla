------------------------------- MODULE MCSystem -------------------------------
(***************************************************************************)
(* The parts of the running bridge on small instances, one of them per     *)
(* behaviour: `focus' names it, the others stay as they began.  The safety *)
(* of the relay and of the arena has modules of its own (MCTopicRelay and  *)
(* MCCore); what they must come to is checked here.  The modules whose     *)
(* theorems state properties checked here are extended, the others are     *)
(* instances.                                                              *)
(***************************************************************************)
EXTENDS ModRequests, NetworkClients, AppLifecycle, ActionGoal, ServiceCall, FrameArena,
        PacketDispatch

CONSTANT Foci    \* the parts that are checked

VARIABLES
  focus,
  \* TopicRelay
  subscribeQueue, unsubscribeQueue, publishQueue, drain_phase, subscriptions, once_topics, timeout_timers,
  publishers, introspection, publish_timers, crashed, subscribes, wanted, payloads, errors, streams,
  \* ArenaAlloc
  growth, blocks, head, grow_state, total_capacity, block_count, stats, failure, pc, request, block,
  observed, value, ranges

relay_vars   == <<subscribeQueue, unsubscribeQueue, publishQueue, drain_phase, subscriptions, once_topics,
                  timeout_timers, publishers, introspection, publish_timers, crashed, subscribes, wanted,
                  payloads, errors, streams>>
arena_vars   == <<growth, blocks, head, grow_state, total_capacity, block_count, stats, failure, pc,
                  request, block, observed, value, ranges>>
system_vars == <<focus, clientsVars, relay_vars, arena_vars, frameVars, appVars, dispatch_vars, goalVars, callVars, vars>>

TimedSubscribe ==
  {[request_id |-> 1, topic_name |-> "a", message_type |-> "t1", once |-> FALSE, timeout |-> TRUE]}
Publish(id, times) ==
  [request_id |-> id, topic_name |-> "a", message_type |-> "t1", qos |-> "q", once |-> FALSE,
   times |-> times, rate |-> "positive"]
Relay == INSTANCE TopicRelay WITH
  Topics <- {"a"}, EmptyTopic <- "all", Types <- {"t1", "t2"}, NoType <- "none", QosProfiles <- {"q"},
  KnownQos <- {"q"}, RequestIds <- {1, 2}, SubscribeCmds <- TimedSubscribe, UnsubscribeCmds <- {},
  PublishCmds <- {Publish(1, 3), Publish(2, 2), Publish(2, 0)}, IdReuse <- FALSE, MaxQueue <- 1,
  MaxPayloads <- 1, phase <- drain_phase, sent <- subscribes

Allocators == {"first", "second"}
Arena == INSTANCE ArenaAlloc WITH
  Threads <- Allocators, Requests <- {[bytes |-> 2, alignment |-> 1]}, InitialCapacity <- 3,
  Growths <- {[mode |-> "linear", step |-> 3, max_capacity |-> 9]}, Bases <- {0}, MaxAllocations <- 3

\* Clients whose datagrams are handled at once, so that one of them is pruned
\* only when it is silent.
FairClients == INSTANCE NetworkClients WITH
  Modes <- {TRUE}, HandleTime <- 0

AnswerTypes(q) == IF q = "goal" THEN {"result", "error"} ELSE {"list"}
AnswerOrder == <<"result", "error">>

Goal(r, a, t, timed, valid) ==
  [request_id |-> r, action_name |-> a, action_type |-> t, feedback |-> timed, timed |-> timed, valid |-> valid]
GoalCommands ==
  {Goal(1, "spin", "Spin", TRUE, TRUE), Goal(2, "spin", "Spin", FALSE, TRUE),
   Goal(2, "spin", "Dock", TRUE, TRUE), Goal(2, "dock", "Dock", TRUE, FALSE)}
TimedGoalCommands == {Goal(1, "spin", "Spin", TRUE, TRUE), Goal(2, "spin", "Dock", FALSE, TRUE)}
FairGoals == INSTANCE ActionGoal WITH Commands <- TimedGoalCommands

CallOf(id, service, type, repeats, valid) ==
  [request_id |-> id, service_name |-> service, service_type |-> type, repeat_count |-> repeats, valid |-> valid]
Calls ==
  {CallOf(1, "a", "t1", 2, TRUE), CallOf(1, "a", "t2", 1, TRUE), CallOf(2, "a", "t1", 0, TRUE),
   CallOf(2, "b", "t1", 1, FALSE)}

-----------------------------------------------------------------------------
\* The choices of Init are left to the part in focus.
SystemInit ==
  /\ focus \in Foci
  /\ ClientsInit /\ (focus = "clients" \/ multi_client = FALSE)
  /\ Relay!Init /\ Arena!Init /\ FramesInit
  /\ AppInit /\ (focus = "app" \/ host = "run")
  /\ DispatchInit /\ GoalsInit
  /\ CallsInit /\ (focus = "services" \/ executor_threads = CHOOSE n \in ExecutorSizes : TRUE)
  /\ Init /\ (focus = "mod" \/ bridgeType = CHOOSE t \in BridgeTypes : TRUE)

OnlyClients ==
  focus = "clients" /\ UNCHANGED <<focus, relay_vars, arena_vars, frameVars, appVars, dispatch_vars, goalVars, callVars, vars>>
OnlyFairClients ==
  focus = "fair clients" /\ UNCHANGED <<focus, relay_vars, arena_vars, frameVars, appVars, dispatch_vars, goalVars, callVars, vars>>
OnlyRelay ==
  focus = "relay" /\ UNCHANGED <<focus, clientsVars, arena_vars, frameVars, appVars, dispatch_vars, goalVars, callVars, vars>>
OnlyArena ==
  focus = "arena" /\ UNCHANGED <<focus, clientsVars, relay_vars, frameVars, appVars, dispatch_vars, goalVars, callVars, vars>>
OnlyFrames ==
  focus = "frames" /\ UNCHANGED <<focus, clientsVars, relay_vars, arena_vars, appVars, dispatch_vars, goalVars, callVars, vars>>
OnlyApp ==
  focus = "app" /\ UNCHANGED <<focus, clientsVars, relay_vars, arena_vars, frameVars, dispatch_vars, goalVars, callVars, vars>>
OnlyPackets ==
  focus = "packets" /\ UNCHANGED <<focus, clientsVars, relay_vars, arena_vars, frameVars, appVars, goalVars, callVars, vars>>
OnlyGoals ==
  focus = "goals" /\ UNCHANGED <<focus, clientsVars, relay_vars, arena_vars, frameVars, appVars, dispatch_vars, callVars, vars>>
OnlyFairGoals ==
  focus = "fair goals" /\ UNCHANGED <<focus, clientsVars, relay_vars, arena_vars, frameVars, appVars, dispatch_vars, callVars, vars>>
OnlyServices ==
  focus = "services" /\ UNCHANGED <<focus, clientsVars, relay_vars, arena_vars, frameVars, appVars, dispatch_vars, goalVars, vars>>
OnlyMod ==
  focus = "mod" /\ UNCHANGED <<focus, clientsVars, relay_vars, arena_vars, frameVars, appVars, dispatch_vars, goalVars, callVars>>

SystemNext ==
  \/ OnlyClients /\ ClientsNext
  \/ OnlyFairClients /\ FairClients!ClientsNext
  \/ OnlyRelay /\ Relay!Next
  \/ OnlyArena /\ Arena!Next
  \/ OnlyFrames /\ FramesNext
  \/ OnlyApp /\ AppNext
  \/ OnlyPackets /\ DispatchNext
  \/ OnlyGoals /\ GoalsNext
  \/ OnlyFairGoals /\ FairGoals!GoalsNext
  \/ OnlyServices /\ CallsNext
  \/ OnlyMod /\ Next

\* The fairness each module states, for the part in focus: the parts share the
\* conditions, as no behaviour has two of them in focus.
Weak1 ==
  \/ OnlyRelay /\ Relay!DrainStep
  \/ OnlyArena /\ Arena!Step("first")
  \/ OnlyFairClients /\ FairClients!Handling
  \/ OnlyApp /\ Own
  \/ OnlyPackets /\ BeginFlush
  \/ OnlyFairGoals /\ FairGoals!PollStep
  \/ OnlyServices /\ EndWait
  \/ OnlyMod /\ Tick
Weak2 ==
  \/ OnlyArena /\ Arena!Step("second")
  \/ OnlyFairClients /\ FairClients!MainThread
  \/ OnlyApp /\ RosProgress
  \/ OnlyPackets /\ DrainAndFlush
  \/ OnlyServices /\ DeliverResponse
  \/ OnlyMod /\ TimePasses
Weak3 ==
  \/ OnlyApp /\ NotifyAll
  \/ OnlyPackets /\ NodePoll("goal")
  \/ OnlyServices /\ CallTimePasses
Weak4 == OnlyServices /\ OtherReturns
Strong1 ==
  \/ OnlyRelay /\ Relay!Timeout(1)
  \/ OnlyFairClients /\ FairClients!Drain("echo")
  \/ OnlyFairGoals /\ FairGoals!OnGoalTimeout(1)
  \/ OnlyServices /\ Poll
Strong2 ==
  \/ OnlyRelay /\ Relay!RepublishFinite(1)
  \/ OnlyFairClients /\ FairClients!ClientsTimePasses
  \/ OnlyFairGoals /\ FairGoals!OnGoalTimeout(2)
  \/ OnlyServices /\ RepeatTimerFires(1)
Strong3 ==
  \/ OnlyRelay /\ Relay!RepublishFinite(2)
  \/ OnlyServices /\ RepeatTimerFires(2)

SystemSpec ==
  /\ SystemInit /\ [][SystemNext]_system_vars
  /\ WF_system_vars(Weak1) /\ WF_system_vars(Weak2) /\ WF_system_vars(Weak3)
  /\ WF_system_vars(Weak4)
  /\ SF_system_vars(Strong1) /\ SF_system_vars(Strong2) /\ SF_system_vars(Strong3)

-----------------------------------------------------------------------------
(* The properties of the parts.                                            *)

\* NetworkClients: when every client falls silent, the sessions stop.
SilentClientsStop == focus = "fair clients" => FairClients!SilenceStops

\* Each part comes to an end of what it must do, again and again (Settled of
\* the part in focus; the others are settled from the beginning), the relay
\* where its drains end and the publish commands stop coming.
EverythingSettles ==
  (Relay!DrainsEnd /\ <>[](publishQueue = <<>>)) =>
  []<>(/\ focus # "clients" => ClientsSettled
       /\ Relay!Settled /\ Arena!Settled /\ AppSettled /\ DispatchSettled
       /\ focus # "goals" => GoalsSettled
       /\ CallsSettled /\ Settled)
===============================================================================

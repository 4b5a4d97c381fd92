------------------------------- MODULE ActionGoal ------------------------------
(***************************************************************************)
(* ActionSendGoalNode: goals sent to action servers on behalf of Minecraft *)
(* clients (nodes/ros/action/send_goal.cpp).                               *)
(*                                                                         *)
(* The poll timer is in the default callback group of the node; it drains  *)
(* the commands, and waits inside for the server and for its response.     *)
(* Responses, feedback and the timeouts of goals are callbacks of another  *)
(* group (action_group_), so they run during such a wait if the executor   *)
(* has a second thread, and otherwise after it.  That both groups use      *)
(* sessions_ without a lock is not modelled: callbacks of action_group_    *)
(* run between the polls or during a wait, not beside the code around it.  *)
(***************************************************************************)
EXTENDS Integers, Sequences, FiniteSets

CONSTANTS
  Threads,       \* threads of the executor
  RequestIds,
  Actions,
  Types,
  NoType,
  Commands,      \* the ActionSendGoalCmd clients may send
  MaxCommands    \* bound: commands sent with one id

\* `valid' is FALSE for an empty name or type or a negative timeout, `timed'
\* is FALSE for a timeout of zero.
ActionSendGoalCmd ==
  [request_id : RequestIds, action_name : Actions, action_type : Types,
   feedback : BOOLEAN, timed : BOOLEAN, valid : BOOLEAN]

ASSUME GoalsAssumption ==
  /\ Commands \subseteq ActionSendGoalCmd
  /\ NoType \notin Types

VARIABLES
  goal_queue,              \* incoming ActionSendGoalCmd
  poll,                    \* where the poll callback is, and its command and goal
  generic_action_clients,  \* action -> type of its clients, or NoType
  goal_sessions,           \* request id -> session, or NoSession
  goals,                   \* the goals sent, numbered as their UUIDs, as servers see them
  reply,                   \* what the future of the goal response holds
  callback_failed,         \* an exception left the callback
  results,                 \* history: ActionResultCmd enqueued per request id
  fed,                     \* history: feedback enqueued since the last result
  asked,                   \* history: commands sent per request id
  superseded,              \* history: sessions removed for a command of the same id
  abandoned                \* history: goals the node gave up without cancelling them

history == <<results, fed, asked, superseded, abandoned>>
goalVars == <<goal_queue, poll, generic_action_clients, goal_sessions, goals, reply, callback_failed, history>>

NoSession == [uuid |-> 0]
Idle == [at |-> "idle"]
Draining == [at |-> "drain"]

GoalsInit ==
  /\ goal_queue = <<>>
  /\ poll = Idle
  /\ generic_action_clients = [a \in Actions |-> NoType]
  /\ goal_sessions = [r \in RequestIds |-> NoSession]
  /\ goals = <<>>
  /\ reply = "none"
  /\ callback_failed = FALSE
  /\ results = [r \in RequestIds |-> 0]
  /\ fed = [r \in RequestIds |-> FALSE]
  /\ asked = [r \in RequestIds |-> 0]
  /\ superseded = [r \in RequestIds |-> 0]
  /\ abandoned = {}

Sessions == {r \in RequestIds : goal_sessions[r] # NoSession}

\* Enqueues an ActionResultCmd for each of the ids.
SendResults(S) ==
  /\ results' = [r \in RequestIds |-> IF r \in S THEN results[r] + 1 ELSE results[r]]
  /\ fed' = [r \in RequestIds |-> fed[r] /\ r \notin S]

NoResult == UNCHANGED <<results, fed>>

\* Mutant: the session stays when its result goes out.
KeepSessions(S) == goal_sessions

RemoveSessions(S) == [r \in RequestIds |-> IF r \in S THEN NoSession ELSE goal_sessions[r]]

TypeConflict(cmd) ==
  generic_action_clients[cmd.action_name] \notin {NoType, cmd.action_type}

\* The clients and the subscription of the action are made, unless it has them.
EnsureGenericClientEntry(cmd) ==
  generic_action_clients' = [generic_action_clients EXCEPT ![cmd.action_name] = cmd.action_type]

ClientEntryMayFail(cmd) ==
  TypeConflict(cmd) \/ generic_action_clients[cmd.action_name] = NoType


\* A callback of action_group_ has a thread, and is not beside the poll's code.
GroupFree == ~callback_failed /\ (poll.at = "idle" \/ (Threads > 1 /\ poll.at \in {"service", "response"}))

-----------------------------------------------------------------------------
\* A client asks for a goal.
Receive(cmd) ==
  /\ asked[cmd.request_id] < MaxCommands
  /\ goal_queue' = Append(goal_queue, cmd)
  /\ asked' = [asked EXCEPT ![cmd.request_id] = @ + 1]
  /\ UNCHANGED <<poll, generic_action_clients, goal_sessions, goals, reply, callback_failed,
                 results, fed, superseded, abandoned>>

OnPollTimer ==
  /\ poll = Idle /\ ~callback_failed
  /\ poll' = Draining
  /\ UNCHANGED <<goal_queue, generic_action_clients, goal_sessions, goals, reply, callback_failed, history>>

\* The command is refused: before anything else if it is invalid, and after
\* its old session went if the clients of the action have another type or
\* cannot be created.
DispatchSendGoal ==
  /\ poll.at = "drain" /\ goal_queue # <<>>
  /\ goal_queue' = Tail(goal_queue)
  /\ LET cmd == Head(goal_queue)
         old == Sessions \cap {cmd.request_id}
         RemoveOld ==
           /\ goal_sessions' = RemoveSessions(old)
           /\ superseded' = [r \in RequestIds |-> superseded[r] + Cardinality(old \cap {r})]
           /\ abandoned' = abandoned \cup {goal_sessions[r].uuid : r \in old}
     IN \/ /\ ~cmd.valid
           /\ SendResults({cmd.request_id})
           /\ UNCHANGED <<poll, goal_sessions, generic_action_clients, superseded, abandoned>>
        \/ /\ cmd.valid
           /\ ClientEntryMayFail(cmd)
           /\ RemoveOld
           /\ SendResults({cmd.request_id})
           /\ UNCHANGED <<poll, generic_action_clients>>
        \/ /\ cmd.valid /\ ~TypeConflict(cmd)
           /\ RemoveOld
           /\ EnsureGenericClientEntry(cmd)
           /\ poll' = [at |-> "service", cmd |-> cmd]
           /\ NoResult
  /\ UNCHANGED <<goals, reply, callback_failed, asked>>

\* No server in time: the clients of the action go, also from under the
\* sessions that wait for their result through them.
ServiceUnavailable ==
  /\ poll.at = "service"
  /\ LET a == poll.cmd.action_name
     IN /\ generic_action_clients' = [generic_action_clients EXCEPT ![a] = NoType]
        /\ goal_sessions' = [r \in RequestIds |->
             IF goal_sessions[r] # NoSession /\ goal_sessions[r].result = "waiting"
                /\ goal_sessions[r].cmd.action_name = a
             THEN [goal_sessions[r] EXCEPT !.result = "broken"]
             ELSE goal_sessions[r]]
  /\ SendResults({poll.cmd.request_id})
  /\ poll' = Draining
  /\ UNCHANGED <<goal_queue, goals, reply, callback_failed, asked, superseded, abandoned>>

\* The goal goes out, or building or sending it fails.
SendGoal ==
  /\ poll.at = "service"
  /\ \/ /\ goals' = Append(goals, [action_name |-> poll.cmd.action_name, status |-> "sent"])
        /\ poll' = [at |-> "response", cmd |-> poll.cmd]
        /\ reply' = "none"
        /\ NoResult
     \/ /\ SendResults({poll.cmd.request_id})
        /\ poll' = Draining
        /\ UNCHANGED <<goals, reply>>
  /\ UNCHANGED <<goal_queue, generic_action_clients, goal_sessions, callback_failed, asked, superseded, abandoned>>

\* The wait for the response ends without one.
ResponseTimeout ==
  /\ poll.at = "response" /\ reply = "none"
  /\ SendResults({poll.cmd.request_id})
  /\ abandoned' = abandoned \cup {Len(goals)}
  /\ poll' = Draining
  /\ UNCHANGED <<goal_queue, generic_action_clients, goal_sessions, goals, reply, callback_failed, asked, superseded>>

\* ... or with one.  A goal that was accepted gets its session and the request
\* for its result, which may fail.
ResponseHandled ==
  /\ poll.at = "response" /\ reply # "none"
  /\ LET r == poll.cmd.request_id
     IN \/ /\ reply = "rejected"
           /\ SendResults({r})
           /\ UNCHANGED <<goal_sessions, abandoned>>
        \/ /\ reply = "accepted"
           /\ goal_sessions' = [goal_sessions EXCEPT ![r] =
                [uuid |-> Len(goals), cmd |-> poll.cmd, result |-> "waiting"]]
           /\ NoResult /\ UNCHANGED abandoned
        \/ /\ reply = "accepted"
           /\ SendResults({r})
           /\ abandoned' = abandoned \cup {Len(goals)}
           /\ UNCHANGED goal_sessions
  /\ poll' = Draining
  /\ UNCHANGED <<goal_queue, generic_action_clients, goals, reply, callback_failed, asked, superseded>>

\* The queue is empty: results that are there go out.  get() of a future
\* whose client is gone throws, after the sessions handled before it.
CheckGetResultFutures ==
  /\ poll.at = "drain" /\ goal_queue = <<>>
  /\ LET ready == {r \in Sessions : goal_sessions[r].result = "ready"}
         broken == {r \in Sessions : goal_sessions[r].result = "broken"}
     IN \/ /\ broken = {}
           /\ SendResults(ready)
           /\ goal_sessions' = RemoveSessions(ready)
           /\ UNCHANGED callback_failed
        \/ /\ broken # {}
           /\ \E S \in SUBSET ready : SendResults(S) /\ goal_sessions' = RemoveSessions(S)
           /\ callback_failed' = TRUE
  /\ poll' = Idle
  /\ UNCHANGED <<goal_queue, generic_action_clients, goals, reply, asked, superseded, abandoned>>

-----------------------------------------------------------------------------
\* Callbacks of action_group_.

\* The response to the goal the poll waits for; one that is no longer waited
\* for was removed from the client and is dropped.
GoalResponse ==
  /\ GroupFree /\ poll.at = "response" /\ reply = "none"
  /\ goals[Len(goals)].status \in {"accepted", "rejected"}
  /\ reply' = goals[Len(goals)].status
  /\ UNCHANGED <<goal_queue, poll, generic_action_clients, goal_sessions, goals, callback_failed, history>>

HandleFeedbackMessage(g) ==
  /\ GroupFree
  /\ goals[g].status = "accepted"
  /\ generic_action_clients[goals[g].action_name] # NoType
  /\ \E r \in Sessions :
       /\ goal_sessions[r].uuid = g /\ goal_sessions[r].cmd.feedback
       /\ fed' = [fed EXCEPT ![r] = TRUE]
  /\ UNCHANGED <<goal_queue, poll, generic_action_clients, goal_sessions, goals, reply, callback_failed,
                 results, asked, superseded, abandoned>>

\* The answer to get_result: the goal has come to its end.
ResultResponse(r) ==
  /\ GroupFree
  /\ r \in Sessions /\ goal_sessions[r].result = "waiting"
  /\ goals[goal_sessions[r].uuid].status = "done"
  /\ goal_sessions' = [goal_sessions EXCEPT ![r].result = "ready"]
  /\ UNCHANGED <<goal_queue, poll, generic_action_clients, goals, reply, callback_failed, history>>

\* Mutants: the goal is not cancelled; its session waits for the cancellation
\* to be confirmed; its session is marked and stays.
ForgetGoal(g) == UNCHANGED goals
AwaitCancellation(r) ==
  /\ GroupFree
  /\ r \in Sessions /\ goal_sessions[r].cmd.timed
  /\ goals' = [goals EXCEPT ![goal_sessions[r].uuid].status = "cancelled"]
  /\ UNCHANGED <<goal_queue, poll, generic_action_clients, goal_sessions, reply, callback_failed, history>>
CancelGoal(g) ==
  goals' = [goals EXCEPT ![g].status = IF @ = "accepted" THEN "cancelled" ELSE @]

\* The goal is cancelled, whatever its future may hold already.
OnGoalTimeout(r) ==
  /\ GroupFree
  /\ r \in Sessions /\ goal_sessions[r].cmd.timed
  /\ CancelGoal(goal_sessions[r].uuid)
  /\ SendResults({r})
  /\ goal_sessions' = RemoveSessions({r})
  /\ UNCHANGED <<goal_queue, poll, generic_action_clients, reply, callback_failed, asked, superseded, abandoned>>

-----------------------------------------------------------------------------
\* An action server takes or refuses a goal, and ends one it took.
ServerDecides(g) ==
  /\ goals[g].status = "sent"
  /\ \E status \in {"accepted", "rejected"} : goals' = [goals EXCEPT ![g].status = status]
  /\ UNCHANGED <<goal_queue, poll, generic_action_clients, goal_sessions, reply, callback_failed, history>>

ServerFinishes(g) ==
  /\ goals[g].status \in {"accepted", "cancelled"}
  /\ goals' = [goals EXCEPT ![g].status = "done"]
  /\ UNCHANGED <<goal_queue, poll, generic_action_clients, goal_sessions, reply, callback_failed, history>>

PollStep ==
  \/ OnPollTimer \/ DispatchSendGoal \/ ServiceUnavailable \/ SendGoal
  \/ ResponseTimeout \/ ResponseHandled \/ CheckGetResultFutures

GoalsNext ==
  \/ \E cmd \in Commands : Receive(cmd)
  \/ PollStep
  \/ GoalResponse
  \/ \E r \in RequestIds : ResultResponse(r) \/ OnGoalTimeout(r)
  \/ \E g \in 1 .. Len(goals) :
       HandleFeedbackMessage(g) \/ ServerDecides(g) \/ ServerFinishes(g)

GoalsSpec == GoalsInit /\ [][GoalsNext]_goalVars

\* The executor serves the poll timer and ends its waits; a timeout stays due
\* while polls come in between.
GoalsFairSpec == GoalsSpec /\ WF_goalVars(PollStep) /\ \A r \in RequestIds : SF_goalVars(OnGoalTimeout(r))

-----------------------------------------------------------------------------
\* The state is of the kind the code's types allow.
GoalsTypeOK ==
  /\ goal_queue \in Seq(Commands)
  /\ poll \in {Idle, Draining} \cup [at : {"service", "response"}, cmd : Commands]
  /\ generic_action_clients \in [Actions -> Types \cup {NoType}]
  /\ goals \in Seq([action_name : Actions,
                    status : {"sent", "accepted", "rejected", "cancelled", "done"}])
  /\ goal_sessions \in [RequestIds -> {NoSession} \cup
       [uuid : 1 .. Len(goals), cmd : Commands, result : {"waiting", "ready", "broken"}]]
  /\ reply \in {"none", "accepted", "rejected"}
  /\ callback_failed \in BOOLEAN
  /\ results \in [RequestIds -> Nat] /\ asked \in [RequestIds -> Nat]
  /\ superseded \in [RequestIds -> Nat] /\ fed \in [RequestIds -> BOOLEAN]
  /\ abandoned \subseteq 1 .. Len(goals)

Holding(r) == poll.at \in {"service", "response"} /\ poll.cmd.request_id = r

Queued(r) == Cardinality({i \in DOMAIN goal_queue : goal_queue[i].request_id = r})

\* Where the goals of an id are that have not ended.
Outstanding(r) ==
  Queued(r) + (IF Holding(r) THEN 1 ELSE 0) + (IF r \in Sessions THEN 1 ELSE 0)

\* No goal gets lost and none is answered twice: whatever fails on the way
\* (DispatchSendGoal and DispatchGenericGoal have fifteen early returns), each
\* command is answered by one result, or is still there, or made way for
\* another with its id.
GoalAccount ==
  \A r \in RequestIds : asked[r] = results[r] + superseded[r] + Outstanding(r)

\* A goal that a server has, or may yet take, has a session that will end or
\* cancel it, except where the node gives up without a word to the server: the
\* response took too long, the result could not be asked for, or the session
\* made way for another.
GoalsTracked ==
  \A g \in DOMAIN goals : goals[g].status \in {"sent", "accepted"} =>
    \/ g \in abandoned
    \/ poll.at = "response" /\ g = Len(goals)
    \/ \E r \in Sessions : goal_sessions[r].uuid = g

\* A session that waits for its result has the clients it was sent through,
\* although goals of other requests share them, create them and drop them.
WaitingHasClients ==
  \A r \in Sessions : goal_sessions[r].result = "waiting" =>
    generic_action_clients[goal_sessions[r].cmd.action_name] = goal_sessions[r].cmd.action_type

\* The node gives what GoalService promises: one result per goal, no feedback
\* before the goal is asked for or after its result.
Service == INSTANCE GoalService WITH
  open <- [r \in RequestIds |-> Outstanding(r)], ended <- results, heard <- fed

GoalServiceSpec == Service!ServiceSpec

\* A goal with a timeout that has begun ends, whatever the server does; with no
\* server at all, a command that was taken is answered (the waits end), unless
\* an exception ended the node.
TimedGoal(r) ==
  \/ r \in Sessions /\ goal_sessions[r].cmd.timed
  \/ Holding(r) /\ poll.cmd.timed

GoalsSettled == callback_failed \/ \A r \in RequestIds : ~TimedGoal(r)

\* Commands, sessions, clients and the goals of the servers agree.
GoalsConsistent == GoalsTypeOK /\ GoalAccount /\ GoalsTracked /\ WaitingHasClients

===============================================================================

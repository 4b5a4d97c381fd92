------------------------------ MODULE ServiceCall ------------------------------
(***************************************************************************)
(* ServiceCallNode: service calls on behalf of Minecraft clients, once or  *)
(* repeatedly (nodes/ros/service/call.cpp).                                *)
(*                                                                         *)
(* The poll timer and the repeat timers are in one mutually exclusive      *)
(* callback group, so one of their callbacks runs at a time; it waits      *)
(* inside, first for the service and then for the response, and keeps an   *)
(* executor thread all the while.  The response is handed over by a        *)
(* callback of another group (client_group_), on another thread: the       *)
(* executor of App has none to spare (App::SpinROS), that of the tests has.*)
(* Time is the age of the wait under way.                                  *)
(***************************************************************************)
EXTENDS Integers, Sequences, FiniteSets

CONSTANTS
  ExecutorSizes,     \* how many threads an executor may have
  OtherNodes,        \* further nodes with callbacks that wait (the action node)
  CallIds,           \* request ids
  Services,
  ServiceTypes,
  NoServiceType,
  CallCommands,      \* the ServiceCallCmd clients may send
  CallTimeout,       \* the timeout of a wait
  MaxCalls           \* bound: commands sent in a behaviour

\* `valid' is FALSE for an empty name or a negative timeout or rate.
ServiceCallCmd ==
  [request_id : CallIds, service_name : Services, service_type : ServiceTypes,
   repeat_count : Nat, valid : BOOLEAN]

ASSUME CallsAssumption ==
  /\ CallCommands \subseteq ServiceCallCmd
  /\ NoServiceType \notin ServiceTypes
  /\ CallTimeout \in Nat /\ MaxCalls \in Nat
  /\ ExecutorSizes \subseteq Nat /\ IsFiniteSet(OtherNodes)

NotYet == -1

VARIABLES
  queue,                     \* incoming ServiceCallCmd
  received,                  \* how many were ever sent
  polling,                   \* the poll callback is in its drain loop
  call,                      \* the invocation under way
  answered,                  \* age of the wait when the service answered it, or NotYet
  ready,                     \* the future has its value
  pending_requests,          \* requests the generic clients keep a future for
  generic_service_clients_,  \* service -> type
  repeat_timers,             \* request id -> remaining calls and what is called
  executor_threads,          \* threads of the executor that spins the nodes
  waiting,                   \* other nodes whose callback is waiting
  account                    \* history: calls asked for and made per request id

callNodeVars == <<queue, received, polling, generic_service_clients_, repeat_timers, account>>
waitVars == <<call, answered, ready, pending_requests>>
callVars == <<callNodeVars, waitVars, executor_threads, waiting>>

NoCall  == [at |-> "none"]
NoTimer == [remaining |-> 0]

\* `repeated' distinguishes the call of a repeat timer from that of a command.
Call  == [at : {"discover", "response"}, cmd : ServiceCallCmd, repeated : BOOLEAN, age : 0 .. CallTimeout]
Timer == [remaining : Nat, cmd : ServiceCallCmd]

CallsTypeOK ==
  /\ queue \in Seq(ServiceCallCmd)
  /\ received \in 0 .. MaxCalls
  /\ polling \in BOOLEAN
  /\ call \in Call \cup {NoCall}
  /\ answered \in 0 .. CallTimeout \cup {NotYet}
  /\ ready \in BOOLEAN
  /\ pending_requests \in Nat
  /\ generic_service_clients_ \in [Services -> ServiceTypes \cup {NoServiceType}]
  /\ repeat_timers \in [CallIds -> Timer \cup {NoTimer}]
  /\ executor_threads \in ExecutorSizes
  /\ waiting \subseteq OtherNodes
  /\ account \in [CallIds -> [asked : Nat, made : Nat, failed : BOOLEAN]]

CallsInit ==
  /\ queue = <<>>
  /\ received = 0
  /\ polling = FALSE
  /\ call = NoCall
  /\ answered = NotYet
  /\ ready = FALSE
  /\ pending_requests = 0
  /\ generic_service_clients_ = [s \in Services |-> NoServiceType]
  /\ repeat_timers = [id \in CallIds |-> NoTimer]
  /\ executor_threads \in ExecutorSizes
  /\ waiting = {}
  /\ account = [id \in CallIds |-> [asked |-> 0, made |-> 0, failed |-> FALSE]]

InCallback == polling \/ call # NoCall
ThreadFree ==
  executor_threads > Cardinality(waiting) + Cardinality({c \in {"this node"} : InCallback})

-------------------------------------------------------------------------------
\* The receive thread, and the callbacks of other nodes that wait.
ReceiveCall(cmd) ==
  /\ received < MaxCalls
  /\ queue' = Append(queue, cmd)
  /\ received' = received + 1
  /\ UNCHANGED <<polling, generic_service_clients_, repeat_timers, account, waitVars, executor_threads, waiting>>

OtherReturns ==
  /\ \E n \in waiting : waiting' = waiting \ {n}
  /\ UNCHANGED <<callNodeVars, waitVars, executor_threads>>

OtherWaits ==
  \/ /\ ThreadFree
     /\ \E n \in OtherNodes \ waiting : waiting' = waiting \cup {n}
     /\ UNCHANGED <<callNodeVars, waitVars, executor_threads>>
  \/ OtherReturns

-------------------------------------------------------------------------------
(***************************************************************************)
(* One invocation.  It ends with a response to the client, and a repeated  *)
(* one also ends its timer if it failed or was the last.                   *)
(***************************************************************************)
\* The response arrived, or remove_pending_request.
ForgetRequest == pending_requests' = 0

TimerAfterFirst(cmd) ==
  IF cmd.repeat_count = 0 THEN NoTimer ELSE [remaining |-> cmd.repeat_count, cmd |-> cmd]

\* A failed call ends the series; a first success starts its timer.  Either
\* is the end of the callback, unless it is the poll, which drains on.
EndCall(cmd, repeated, ok) ==
  LET id == cmd.request_id
  IN /\ call' = NoCall
     /\ answered' = NotYet
     /\ ready' = FALSE
     /\ ForgetRequest
     /\ repeat_timers' = [repeat_timers EXCEPT ![id] =
          IF ~ok THEN NoTimer
          ELSE IF ~repeated THEN TimerAfterFirst(cmd)
          ELSE IF @.remaining = 0 THEN NoTimer
          ELSE @]
     /\ account' = [account EXCEPT ![id] =
          [asked |-> @.asked, made |-> @.made + 1, failed |-> ~ok]]

\* EnsureGenericClient: a cached client of another type is refused; the type
\* may not load, nor the client be made.
ClientUsable(cmd, creatable) ==
  IF generic_service_clients_[cmd.service_name] = NoServiceType THEN creatable
  ELSE generic_service_clients_[cmd.service_name] = cmd.service_type

\* InvokeServiceCall up to its first wait, in the state that `timers' and
\* `series' (the accounts) describe.
Invoke(cmd, repeated, timers, series) ==
  \E creatable \in BOOLEAN :
    IF ClientUsable(cmd, creatable)
    THEN /\ generic_service_clients_' = [generic_service_clients_ EXCEPT ![cmd.service_name] = cmd.service_type]
         /\ call' = [at |-> "discover", cmd |-> cmd, repeated |-> repeated, age |-> 0]
         /\ repeat_timers' = timers
         /\ account' = series
         /\ UNCHANGED <<answered, ready, pending_requests>>
    ELSE /\ UNCHANGED <<generic_service_clients_, waitVars>>
         /\ repeat_timers' = [timers EXCEPT ![cmd.request_id] = NoTimer]
         /\ account' = [series EXCEPT ![cmd.request_id] =
              [asked |-> @.asked, made |-> @.made + 1, failed |-> TRUE]]

\* wait_for_service succeeds whenever the service appears; then the request
\* is sent, if it can be serialised.
Discovered ==
  /\ call.at = "discover"
  /\ \/ /\ call' = [call EXCEPT !.at = "response", !.age = 0]
        /\ pending_requests' = pending_requests + 1
        /\ UNCHANGED <<answered, ready, repeat_timers, account>>
     \/ EndCall(call.cmd, call.repeated, FALSE)
  /\ UNCHANGED <<queue, received, polling, generic_service_clients_, executor_threads, waiting>>

\* No service in time: the cached client is discarded.
Undiscovered ==
  /\ call.at = "discover"
  /\ call.age = CallTimeout
  /\ generic_service_clients_' = [generic_service_clients_ EXCEPT ![call.cmd.service_name] = NoServiceType]
  /\ EndCall(call.cmd, call.repeated, FALSE)
  /\ UNCHANGED <<queue, received, polling, executor_threads, waiting>>

\* The service answers: the response waits for the executor.
Answer ==
  /\ call.at = "response"
  /\ answered = NotYet
  /\ answered' = call.age
  /\ UNCHANGED <<callNodeVars, call, ready, pending_requests, executor_threads, waiting>>

\* Mutant: the client is made in the callback group of the timers.
DeliverableInGroup == answered # NotYet /\ ~ready /\ ThreadFree /\ ~InCallback

Deliverable == answered # NotYet /\ ~ready /\ ThreadFree

\* A thread of the executor takes the response and sets the future.
DeliverResponse ==
  /\ Deliverable
  /\ ready' = TRUE
  /\ pending_requests' = pending_requests - 1
  /\ UNCHANGED <<callNodeVars, call, answered, executor_threads, waiting>>

\* The response may fail to convert.
Responded ==
  /\ call.at = "response"
  /\ ready
  /\ \E ok \in BOOLEAN : EndCall(call.cmd, call.repeated, ok)
  /\ UNCHANGED <<queue, received, polling, generic_service_clients_, executor_threads, waiting>>

Unanswered ==
  /\ call.at = "response"
  /\ ~ready
  /\ call.age = CallTimeout
  /\ EndCall(call.cmd, call.repeated, FALSE)
  /\ UNCHANGED <<queue, received, polling, generic_service_clients_, executor_threads, waiting>>

\* Bound: a thread that is free takes a response within a unit of time.
CallTimePasses ==
  /\ call # NoCall
  /\ call.age < CallTimeout
  /\ ~Deliverable
  /\ call' = [call EXCEPT !.age = @ + 1]
  /\ UNCHANGED <<callNodeVars, answered, ready, pending_requests, executor_threads, waiting>>

-------------------------------------------------------------------------------
(***************************************************************************)
(* The callbacks of the poll timer and of the repeat timers.               *)
(***************************************************************************)
BeginPoll ==
  /\ ~InCallback
  /\ ThreadFree
  /\ polling' = TRUE
  /\ UNCHANGED <<queue, received, generic_service_clients_, repeat_timers, account, waitVars, executor_threads, waiting>>

\* Mutant: a new call under an id leaves the old series of it running.
KeepSeries(id) == repeat_timers

\* A new call under an id ends the series of the old one.
EndSeries(id) == [repeat_timers EXCEPT ![id] = NoTimer]

DispatchServiceCall ==
  LET cmd == Head(queue)
      id  == cmd.request_id
      series == [account EXCEPT ![id] =
                   [asked |-> cmd.repeat_count + 1, made |-> 0, failed |-> FALSE]]
  IN /\ polling
     /\ call = NoCall
     /\ queue # <<>>
     /\ queue' = Tail(queue)
     /\ \/ ~cmd.valid /\ UNCHANGED <<generic_service_clients_, repeat_timers, account, waitVars>>
        \/ cmd.valid /\ Invoke(cmd, FALSE, EndSeries(id), series)
     /\ UNCHANGED <<received, polling, executor_threads, waiting>>

EndPoll ==
  /\ polling
  /\ call = NoCall
  /\ queue = <<>>
  /\ polling' = FALSE
  /\ UNCHANGED <<queue, received, generic_service_clients_, repeat_timers, account, waitVars, executor_threads, waiting>>

\* The handler's branch for a timer with nothing remaining is left out: see
\* RepeatBudget.
RepeatTimerFires(id) ==
  LET timer == repeat_timers[id]
  IN /\ ~InCallback
     /\ ThreadFree
     /\ timer # NoTimer
     /\ Invoke(timer.cmd, TRUE,
               [repeat_timers EXCEPT ![id].remaining = @ - 1], account)
     /\ UNCHANGED <<queue, received, polling, executor_threads, waiting>>

Wait == Discovered \/ Undiscovered \/ Responded \/ Unanswered
Poll == BeginPoll \/ DispatchServiceCall \/ EndPoll

CallsNext ==
  \/ \E cmd \in CallCommands : ReceiveCall(cmd)
  \/ OtherWaits
  \/ Poll
  \/ \E id \in CallIds : RepeatTimerFires(id)
  \/ Wait \/ Answer \/ DeliverResponse \/ CallTimePasses

CallsSpec == CallsInit /\ [][CallsNext]_callVars

\* The executor serves the timers of the node again and again, time goes on,
\* and the waits of other nodes have timeouts, too.  No service need appear or
\* answer.
EndWait == Undiscovered \/ Responded \/ Unanswered

CallsFairness ==
  /\ WF_callVars(EndWait)
  /\ WF_callVars(DeliverResponse)
  /\ WF_callVars(CallTimePasses)
  /\ WF_callVars(OtherReturns)
  /\ SF_callVars(Poll)
  /\ \A id \in CallIds : SF_callVars(RepeatTimerFires(id))

CallsFairSpec == CallsSpec /\ CallsFairness

-------------------------------------------------------------------------------
\* At its deadline a call that was answered earlier has its future set.
AnsweredInTime ==
  call.at = "response" =>
    (call.age = CallTimeout /\ answered \in 0 .. CallTimeout - 1 => ready)

\* No call has its answer, and every one that was made has failed.
NoCallSucceeds == ~ready /\ \A id \in CallIds : account[id].made > 0 => account[id].failed

SpareThread == executor_threads > Cardinality(OtherNodes) + 1

\* Whether a response that is there before the deadline reaches the call that
\* waits for it (CallGenericService, client_group_) is decided by the executor:
\* with a thread for every callback that may wait and one more, as in the tests,
\* it does ("Returns true and sends response when service succeeds"), whoever
\* else occupies the threads; with the one of App::SpinROS none ever does.
AnswersReachCalls ==
  /\ SpareThread => AnsweredInTime
  /\ executor_threads <= 1 => NoCallSucceeds

\* A series makes the call it was asked for and as many repetitions, however
\* it is interrupted: what was made, is under way and is still owed add up,
\* and a new command under its id leaves nothing of it (DispatchServiceCall
\* and the handler of the repeat timer).
RepeatBudget ==
  \A id \in CallIds :
    LET series == account[id]
        timer == repeat_timers[id]
        underway == call # NoCall /\ call.cmd.request_id = id
    IN /\ timer # NoTimer =>
            /\ ~series.failed
            /\ ~underway => timer.remaining >= 1
            /\ underway => call.repeated
            /\ series.made + timer.remaining + (IF underway THEN 1 ELSE 0) = series.asked
       /\ timer = NoTimer /\ ~underway /\ ~series.failed => series.made = series.asked

\* Between calls the clients keep no future: none that timed out piles up
\* (remove_pending_request in CallGenericService).
NoPendingLeak == call = NoCall => pending_requests = 0

\* Every call ends and every series with it, answered or not, and so every
\* command that was sent is handled (the two waits of CallGenericService).
CallsSettled == queue = <<>> /\ call = NoCall /\ repeat_timers = [id \in CallIds |-> NoTimer]

\* Neither a call of a series nor a future gets lost.
CallsAccounted == CallsTypeOK /\ RepeatBudget /\ NoPendingLeak

===============================================================================

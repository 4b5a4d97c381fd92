--------------------------- MODULE ServiceCallProofs ---------------------------
(***************************************************************************)
(* The calls of the service node, for any commands, ids and services: each *)
(* series makes the calls it was asked for, no future stays behind, an     *)
(* answer in time reaches its call if the executor has threads to spare,   *)
(* and none ever does if it has one thread.                                *)
(***************************************************************************)
EXTENDS ServiceCall, FiniteSetTheorems, TLAPS

\* What there is of a wait: nothing between the calls and before the request is
\* sent; then a future with the client until it has its value.
WaitInv ==
  /\ call.at # "response" => answered = NotYet /\ ~ready /\ pending_requests = 0
  /\ call.at = "response" =>
       /\ pending_requests = IF ready THEN 0 ELSE 1
       /\ ready => answered # NotYet
       /\ answered # NotYet => answered <= call.age

Underway(id) == call # NoCall /\ call.cmd.request_id = id

\* A timer calls what its own series asked for; the call under way is the first
\* of a series, which has no timer yet, or one that its timer made.
SeriesInv ==
  \A id \in CallIds :
    /\ repeat_timers[id] # NoTimer => repeat_timers[id].cmd.request_id = id
    /\ Underway(id) =>
         /\ ~account[id].failed
         /\ call.repeated <=> repeat_timers[id] # NoTimer
         /\ ~call.repeated => account[id].made = 0 /\ account[id].asked = call.cmd.repeat_count + 1

CallInv == CallsTypeOK /\ WaitInv /\ SeriesInv /\ RepeatBudget

-------------------------------------------------------------------------------
\* The kinds of records.
LEMMA CallType ==
  ASSUME CallsTypeOK, call # NoCall
  PROVE  /\ call \in Call /\ call.cmd \in ServiceCallCmd /\ call.cmd.request_id \in CallIds
         /\ call.cmd.service_name \in Services /\ call.cmd.service_type \in ServiceTypes
         /\ call.cmd.repeat_count \in Nat /\ call.repeated \in BOOLEAN /\ call.age \in 0 .. CallTimeout
         /\ call.at \in {"discover", "response"}
<1>1. call \in Call
  BY DEF CallsTypeOK
<1> QED
  BY <1>1 DEF Call, ServiceCallCmd

LEMMA NoCallType == NoCall.at = "none"
BY DEF NoCall

LEMMA TimerIsOne ==
  ASSUME NEW timer \in Timer
  PROVE  timer # NoTimer
<1>1. "cmd" \in DOMAIN timer
  BY DEF Timer
<1>2. DOMAIN NoTimer = {"remaining"}
  BY DEF NoTimer
<1> QED
  BY <1>1, <1>2

LEMMA TimerType ==
  ASSUME CallsTypeOK, NEW id \in CallIds, repeat_timers[id] # NoTimer
  PROVE  /\ repeat_timers[id] \in Timer /\ repeat_timers[id].remaining \in Nat
         /\ repeat_timers[id].cmd \in ServiceCallCmd
<1>1. repeat_timers[id] \in Timer
  BY DEF CallsTypeOK
<1> QED
  BY <1>1 DEF Timer

LEMMA AccountType ==
  ASSUME CallsTypeOK, NEW id \in CallIds
  PROVE  /\ account[id] \in [asked : Nat, made : Nat, failed : BOOLEAN]
         /\ account[id].asked \in Nat /\ account[id].made \in Nat /\ account[id].failed \in BOOLEAN
BY DEF CallsTypeOK

-------------------------------------------------------------------------------
(***************************************************************************)
(* The two ends of a call.                                                 *)
(***************************************************************************)
\* It begins, or fails before its first wait, for a series that `timers' and
\* `series' describe.
LEMMA InvokeKeeps ==
  ASSUME CallInv, call = NoCall,
         NEW cmd \in ServiceCallCmd, NEW repeated \in BOOLEAN,
         NEW timers \in [CallIds -> Timer \cup {NoTimer}],
         NEW series \in [CallIds -> [asked : Nat, made : Nat, failed : BOOLEAN]],
         \A id \in CallIds : id # cmd.request_id => timers[id] = repeat_timers[id] /\ series[id] = account[id],
         ~series[cmd.request_id].failed,
         repeated <=> timers[cmd.request_id] # NoTimer,
         repeated => /\ timers[cmd.request_id].cmd.request_id = cmd.request_id
                     /\ series[cmd.request_id].made + timers[cmd.request_id].remaining + 1 = series[cmd.request_id].asked,
         ~repeated => series[cmd.request_id].made = 0 /\ series[cmd.request_id].asked = cmd.repeat_count + 1,
         Invoke(cmd, repeated, timers, series),
         queue' \in Seq(ServiceCallCmd), UNCHANGED <<received, polling, executor_threads, waiting>>
  PROVE  CallInv'
<1> DEFINE own == cmd.request_id
<1>1. /\ own \in CallIds /\ cmd.service_name \in Services /\ cmd.service_type \in ServiceTypes
      /\ CallsTypeOK
  BY DEF ServiceCallCmd, CallInv
<1>2. /\ answered = NotYet /\ ~ready /\ pending_requests = 0
      /\ \A id : ~Underway(id)
  BY NoCallType DEF CallInv, WaitInv, Underway
<1>3. CASE /\ generic_service_clients_' = [generic_service_clients_ EXCEPT ![cmd.service_name] = cmd.service_type]
           /\ call' = [at |-> "discover", cmd |-> cmd, repeated |-> repeated, age |-> 0]
           /\ repeat_timers' = timers
           /\ account' = series
           /\ UNCHANGED <<answered, ready, pending_requests>>
  <2>1. call' \in Call /\ call' # NoCall /\ call'.cmd = cmd /\ call'.repeated = repeated /\ call'.at = "discover"
    BY <1>3, NoCallType, CallsAssumption DEF Call
  <2>2. CallsTypeOK'
    BY <1>1, <1>3, <2>1 DEF CallsTypeOK
  <2>3. WaitInv'
    BY <1>2, <1>3, <2>1 DEF WaitInv
  <2>4. \A id : Underway(id)' <=> id = own
    BY <2>1 DEF Underway
  <2>5. SeriesInv'
    <3> SUFFICES ASSUME NEW id \in CallIds
                 PROVE  /\ timers[id] # NoTimer => timers[id].cmd.request_id = id
                        /\ id = own =>
                             /\ ~series[id].failed
                             /\ repeated <=> timers[id] # NoTimer
                             /\ ~repeated => series[id].made = 0 /\ series[id].asked = cmd.repeat_count + 1
      BY <1>3, <2>1, <2>4 DEF SeriesInv
    <3>1. CASE id = own
      BY <3>1
    <3>2. CASE id # own
      BY <3>2 DEF CallInv, SeriesInv
    <3> QED
      BY <3>1, <3>2
  <2>6. RepeatBudget'
    <3> SUFFICES ASSUME NEW id \in CallIds
                 PROVE  /\ timers[id] # NoTimer =>
                             /\ ~series[id].failed
                             /\ id # own => timers[id].remaining >= 1
                             /\ id = own => repeated
                             /\ series[id].made + timers[id].remaining + (IF id = own THEN 1 ELSE 0) = series[id].asked
                        /\ timers[id] = NoTimer /\ id # own /\ ~series[id].failed => series[id].made = series[id].asked
      BY <1>3, <2>1, <2>4 DEF RepeatBudget, Underway
    <3>1. CASE id = own
      BY <3>1
    <3>2. CASE id # own
      <4>1. timers[id] = repeat_timers[id] /\ series[id] = account[id] /\ ~Underway(id)
        BY <1>2, <3>2
      <4> QED
        BY <3>2, <4>1 DEF CallInv, RepeatBudget, Underway
    <3> QED
      BY <3>1, <3>2
  <2> QED
    BY <2>2, <2>3, <2>5, <2>6 DEF CallInv
<1>4. CASE /\ UNCHANGED <<generic_service_clients_, waitVars>>
           /\ repeat_timers' = [timers EXCEPT ![own] = NoTimer]
           /\ account' = [series EXCEPT ![own] = [asked |-> @.asked, made |-> @.made + 1, failed |-> TRUE]]
  <2>1. /\ repeat_timers'[own] = NoTimer /\ account'[own].failed = TRUE
        /\ \A id \in CallIds : id # own => repeat_timers'[id] = repeat_timers[id] /\ account'[id] = account[id]
    BY <1>1, <1>4
  <2>2. CallsTypeOK'
    <3>1. series[own].asked \in Nat /\ series[own].made \in Nat
      BY <1>1
    <3>2. account' \in [CallIds -> [asked : Nat, made : Nat, failed : BOOLEAN]]
      <4>1. [asked |-> series[own].asked, made |-> series[own].made + 1, failed |-> TRUE]
              \in [asked : Nat, made : Nat, failed : BOOLEAN]
        BY <3>1
      <4>2. account' = [series EXCEPT ![own] =
              [asked |-> series[own].asked, made |-> series[own].made + 1, failed |-> TRUE]]
        BY <1>1, <1>4
      <4> QED
        BY <4>1, <4>2
    <3>3. repeat_timers' \in [CallIds -> Timer \cup {NoTimer}]
      BY <1>4
    <3> QED
      BY <1>1, <1>4, <3>2, <3>3 DEF CallsTypeOK, waitVars
  <2>3. WaitInv' /\ call' = NoCall
    BY <1>4 DEF CallInv, WaitInv, waitVars
  <2>4. \A id : ~Underway(id)'
    BY <2>3 DEF Underway
  <2>5. SeriesInv'
    <3> SUFFICES ASSUME NEW id \in CallIds, repeat_timers'[id] # NoTimer
                 PROVE  repeat_timers'[id].cmd.request_id = id
      BY <2>4 DEF SeriesInv
    <3>1. id # own /\ repeat_timers'[id] = repeat_timers[id]
      BY <2>1
    <3> QED
      BY <3>1 DEF CallInv, SeriesInv
  <2>6. RepeatBudget'
    <3> SUFFICES ASSUME NEW id \in CallIds
                 PROVE  /\ repeat_timers'[id] # NoTimer =>
                             /\ ~account'[id].failed
                             /\ repeat_timers'[id].remaining >= 1
                             /\ account'[id].made + repeat_timers'[id].remaining + 0 = account'[id].asked
                        /\ repeat_timers'[id] = NoTimer /\ ~account'[id].failed => account'[id].made = account'[id].asked
      BY <2>3 DEF RepeatBudget
    <3>1. CASE id = own
      BY <2>1, <3>1
    <3>2. CASE id # own
      <4>1. repeat_timers'[id] = repeat_timers[id] /\ account'[id] = account[id] /\ ~Underway(id)
        BY <1>2, <2>1, <3>2
      <4> QED
        BY <4>1 DEF CallInv, RepeatBudget, Underway
    <3> QED
      BY <3>1, <3>2
  <2> QED
    BY <2>2, <2>3, <2>5, <2>6 DEF CallInv
<1> QED
  BY <1>3, <1>4 DEF Invoke

\* It ends, in success or not.
LEMMA EndCallKeeps ==
  ASSUME CallInv, call # NoCall, NEW ok \in BOOLEAN, EndCall(call.cmd, call.repeated, ok),
         generic_service_clients_' \in [Services -> ServiceTypes \cup {NoServiceType}],
         UNCHANGED <<queue, received, polling, executor_threads, waiting>>
  PROVE  CallInv'
<1> DEFINE own   == call.cmd.request_id
           timer == repeat_timers[own]
           after == IF ~ok THEN NoTimer
                    ELSE IF ~call.repeated THEN TimerAfterFirst(call.cmd)
                    ELSE IF timer.remaining = 0 THEN NoTimer
                    ELSE timer
<1>1. /\ CallsTypeOK /\ own \in CallIds /\ call.cmd \in ServiceCallCmd /\ call.repeated \in BOOLEAN
      /\ call.cmd.repeat_count \in Nat
  BY CallType DEF CallInv
<1>2. /\ call' = NoCall /\ answered' = NotYet /\ ready' = FALSE /\ pending_requests' = 0
      /\ repeat_timers' = [repeat_timers EXCEPT ![own] = after]
      /\ account' = [account EXCEPT ![own] = [asked |-> account[own].asked, made |-> account[own].made + 1, failed |-> ~ok]]
  BY <1>1 DEF EndCall, ForgetRequest, CallsTypeOK
<1>3. /\ account[own].asked \in Nat /\ account[own].made \in Nat
      /\ timer \in Timer \cup {NoTimer}
  BY <1>1, AccountType DEF CallsTypeOK
<1>4. after \in Timer \cup {NoTimer}
  BY <1>1, <1>3 DEF TimerAfterFirst, Timer
<1>5. /\ repeat_timers'[own] = after
      /\ account'[own] = [asked |-> account[own].asked, made |-> account[own].made + 1, failed |-> ~ok]
      /\ \A id \in CallIds : id # own => repeat_timers'[id] = repeat_timers[id] /\ account'[id] = account[id]
  BY <1>1, <1>2 DEF CallsTypeOK
<1>6. CallsTypeOK'
  <2>1. account' \in [CallIds -> [asked : Nat, made : Nat, failed : BOOLEAN]]
    BY <1>1, <1>2, <1>3 DEF CallsTypeOK
  <2>2. repeat_timers' \in [CallIds -> Timer \cup {NoTimer}]
    BY <1>1, <1>2, <1>4 DEF CallsTypeOK
  <2> QED
    BY <1>1, <1>2, <2>1, <2>2 DEF CallsTypeOK
<1>7. WaitInv'
  BY <1>2, NoCallType DEF WaitInv
<1>8. \A id : ~Underway(id)'
  BY <1>2 DEF Underway
<1>9. /\ Underway(own) /\ (\A id \in CallIds : id # own => ~Underway(id))
      /\ ~account[own].failed /\ (call.repeated <=> timer # NoTimer)
      /\ ~call.repeated => account[own].made = 0 /\ account[own].asked = call.cmd.repeat_count + 1
      /\ call.repeated => /\ timer.cmd.request_id = own /\ timer.remaining \in Nat
                          /\ account[own].made + timer.remaining + 1 = account[own].asked
  <2>1. Underway(own) /\ (\A id \in CallIds : id # own => ~Underway(id))
    BY DEF Underway
  <2>2. /\ ~account[own].failed /\ (call.repeated <=> timer # NoTimer)
        /\ ~call.repeated => account[own].made = 0 /\ account[own].asked = call.cmd.repeat_count + 1
        /\ timer # NoTimer => timer.cmd.request_id = own
    BY <1>1, <2>1 DEF CallInv, SeriesInv
  <2>3. timer # NoTimer => timer.remaining \in Nat /\ account[own].made + timer.remaining + 1 = account[own].asked
    BY <1>1, <2>1, TimerType DEF CallInv, RepeatBudget, Underway
  <2> QED
    BY <2>1, <2>2, <2>3
<1>10. CASE after = NoTimer
  <2>1. ok => account[own].made + 1 = account[own].asked
    <3>1. CASE ~call.repeated
      <4>1. ok => TimerAfterFirst(call.cmd) = NoTimer
        BY <1>10, <3>1
      <4>2. call.cmd.repeat_count # 0 => TimerAfterFirst(call.cmd) \in Timer
        BY <1>1 DEF TimerAfterFirst, Timer
      <4>3. ok => call.cmd.repeat_count = 0
        BY <4>1, <4>2, TimerIsOne
      <4> QED
        BY <1>9, <3>1, <4>3
    <3>2. CASE call.repeated
      <4>1. ok => timer.remaining = 0
        BY <1>9, <1>10, <3>2
      <4> QED
        BY <1>3, <1>9, <3>2, <4>1
    <3> QED
      BY <1>1, <3>1, <3>2
  <2>2. SeriesInv'
    BY <1>5, <1>8, <1>10 DEF CallInv, SeriesInv
  <2>3. RepeatBudget'
    <3> SUFFICES ASSUME NEW id \in CallIds
                 PROVE  /\ repeat_timers'[id] # NoTimer =>
                             /\ ~account'[id].failed
                             /\ repeat_timers'[id].remaining >= 1
                             /\ account'[id].made + repeat_timers'[id].remaining + 0 = account'[id].asked
                        /\ repeat_timers'[id] = NoTimer /\ ~account'[id].failed => account'[id].made = account'[id].asked
      BY <1>2 DEF RepeatBudget
    <3>1. CASE id = own
      <4>1. account'[id].made = account[own].made + 1 /\ account'[id].asked = account[own].asked
            /\ account'[id].failed = ~ok /\ repeat_timers'[id] = NoTimer
        BY <1>5, <1>10, <3>1
      <4>2. CASE ok
        BY <2>1, <4>1, <4>2
      <4>3. CASE ~ok
        BY <4>1, <4>3
      <4> QED
        BY <4>2, <4>3
    <3>2. CASE id # own
      BY <1>5, <1>9, <3>2 DEF CallInv, RepeatBudget, Underway
    <3> QED
      BY <3>1, <3>2
  <2> QED
    BY <1>6, <1>7, <2>2, <2>3 DEF CallInv
<1>11. CASE after # NoTimer
  <2>1. /\ ok /\ after.cmd.request_id = own /\ after.remaining \in Nat /\ after.remaining >= 1
        /\ account[own].made + 1 + after.remaining = account[own].asked
    <3>1. CASE ~call.repeated
      <4>1. ok /\ after = [remaining |-> call.cmd.repeat_count, cmd |-> call.cmd] /\ call.cmd.repeat_count # 0
        BY <1>11, <3>1 DEF TimerAfterFirst
      <4> HIDE DEF after
      <4> QED
        BY <1>1, <1>9, <3>1, <4>1
    <3>2. CASE call.repeated
      <4>1. ok /\ after = timer /\ timer.remaining # 0
        BY <1>11, <3>2
      <4> HIDE DEF after
      <4> QED
        BY <1>3, <1>9, <3>2, <4>1
    <3> QED
      BY <1>1, <3>1, <3>2
  <2> HIDE DEF after
  <2>2. SeriesInv'
    BY <1>5, <1>8, <2>1 DEF CallInv, SeriesInv
  <2>3. RepeatBudget'
    <3> SUFFICES ASSUME NEW id \in CallIds
                 PROVE  /\ repeat_timers'[id] # NoTimer =>
                             /\ ~account'[id].failed
                             /\ repeat_timers'[id].remaining >= 1
                             /\ account'[id].made + repeat_timers'[id].remaining + 0 = account'[id].asked
                        /\ repeat_timers'[id] = NoTimer /\ ~account'[id].failed => account'[id].made = account'[id].asked
      BY <1>2 DEF RepeatBudget
    <3>1. CASE id = own
      <4>1. account'[id].made = account[own].made + 1 /\ account'[id].asked = account[own].asked
            /\ account'[id].failed = ~ok /\ repeat_timers'[id] = after
        BY <1>5, <3>1
      <4>2. ~account'[id].failed
        BY <2>1, <4>1
      <4>3. account'[id].made + after.remaining + 0 = account'[id].asked
        BY <1>3, <2>1, <4>1
      <4> QED
        BY <1>11, <2>1, <4>1, <4>2, <4>3
    <3>2. CASE id # own
      BY <1>5, <1>9, <3>2 DEF CallInv, RepeatBudget, Underway
    <3> QED
      BY <3>1, <3>2
  <2> QED
    BY <1>6, <1>7, <2>2, <2>3 DEF CallInv
<1> QED
  BY <1>10, <1>11

-------------------------------------------------------------------------------
(***************************************************************************)
(* The steps.                                                              *)
(***************************************************************************)
LEMMA InitHolds ==
  CallsInit => CallInv
<1> SUFFICES ASSUME CallsInit PROVE CallInv
  OBVIOUS
<1>1. CallsTypeOK
  <2>1. queue \in Seq(ServiceCallCmd) /\ received \in 0 .. MaxCalls
    BY CallsAssumption DEF CallsInit
  <2>2. account \in [CallIds -> [asked : Nat, made : Nat, failed : BOOLEAN]]
    BY DEF CallsInit
  <2> QED
    BY <2>1, <2>2 DEF CallsInit, CallsTypeOK
<1>2. \A id : ~Underway(id)
  BY DEF CallsInit, Underway
<1> QED
  BY <1>1, <1>2, NoCallType DEF CallsInit, CallInv, WaitInv, SeriesInv, RepeatBudget

\* Nothing that the invariant speaks of, but the queue and the flags.
LEMMA QuietKeeps ==
  ASSUME CallInv, queue' \in Seq(ServiceCallCmd), received' \in 0 .. MaxCalls, polling' \in BOOLEAN,
         waiting' \subseteq OtherNodes,
         UNCHANGED <<generic_service_clients_, repeat_timers, account, waitVars, executor_threads>>
  PROVE  CallInv'
<1>1. CallsTypeOK'
  BY DEF CallInv, CallsTypeOK, waitVars
<1>2. WaitInv' /\ SeriesInv' /\ RepeatBudget'
  BY DEF CallInv, WaitInv, SeriesInv, RepeatBudget, Underway, waitVars
<1> QED
  BY <1>1, <1>2 DEF CallInv

LEMMA DispatchKeeps ==
  ASSUME CallInv, DispatchServiceCall
  PROVE  CallInv'
<1> DEFINE cmd    == Head(queue)
           id     == cmd.request_id
           series == [account EXCEPT ![id] = [asked |-> cmd.repeat_count + 1, made |-> 0, failed |-> FALSE]]
<1>1. /\ call = NoCall /\ queue \in Seq(ServiceCallCmd) /\ queue # <<>> /\ queue' = Tail(queue)
      /\ UNCHANGED <<received, polling, executor_threads, waiting>> /\ CallsTypeOK
  BY DEF DispatchServiceCall, CallInv, CallsTypeOK
<1>2. cmd \in ServiceCallCmd /\ queue' \in Seq(ServiceCallCmd)
  BY <1>1
<1>3. id \in CallIds /\ cmd.repeat_count \in Nat
  BY <1>2 DEF ServiceCallCmd
<1>4. CASE UNCHANGED <<generic_service_clients_, repeat_timers, account, waitVars>>
  BY <1>1, <1>2, <1>4, QuietKeeps DEF CallsTypeOK
<1>5. CASE Invoke(cmd, FALSE, EndSeries(id), series)
  <2>1. EndSeries(id) \in [CallIds -> Timer \cup {NoTimer}] /\ EndSeries(id)[id] = NoTimer
        /\ \A q \in CallIds : q # id => EndSeries(id)[q] = repeat_timers[q]
    BY <1>1, <1>3 DEF EndSeries, CallsTypeOK
  <2>2. series \in [CallIds -> [asked : Nat, made : Nat, failed : BOOLEAN]]
    <3>1. [asked |-> cmd.repeat_count + 1, made |-> 0, failed |-> FALSE] \in [asked : Nat, made : Nat, failed : BOOLEAN]
      BY <1>3
    <3>2. account \in [CallIds -> [asked : Nat, made : Nat, failed : BOOLEAN]]
      BY <1>1 DEF CallsTypeOK
    <3> HIDE DEF cmd
    <3> QED
      BY <3>1, <3>2
  <2>3. series[id].made = 0 /\ series[id].asked = cmd.repeat_count + 1 /\ ~series[id].failed
        /\ \A q \in CallIds : q # id => series[q] = account[q]
    BY <1>1, <1>3 DEF CallsTypeOK
  <2> DEFINE timers == EndSeries(id)
  <2>4. Invoke(cmd, FALSE, timers, series)
    BY <1>5
  <2>5. /\ timers \in [CallIds -> Timer \cup {NoTimer}]
        /\ \A q \in CallIds : q # cmd.request_id => timers[q] = repeat_timers[q] /\ series[q] = account[q]
        /\ FALSE <=> timers[cmd.request_id] # NoTimer
        /\ ~series[cmd.request_id].failed
        /\ series[cmd.request_id].made = 0 /\ series[cmd.request_id].asked = cmd.repeat_count + 1
    BY <2>1, <2>3
  <2> HIDE DEF series, timers, cmd
  <2> QED
    BY <1>1, <1>2, <2>2, <2>4, <2>5, InvokeKeeps
<1> QED
  BY <1>4, <1>5 DEF DispatchServiceCall

LEMMA RepeatKeeps ==
  ASSUME CallInv, NEW id \in CallIds, RepeatTimerFires(id)
  PROVE  CallInv'
<1> DEFINE timer  == repeat_timers[id]
           timers == [repeat_timers EXCEPT ![id].remaining = @ - 1]
<1>1. /\ call = NoCall /\ timer # NoTimer /\ Invoke(timer.cmd, TRUE, timers, account)
      /\ UNCHANGED <<queue, received, polling, executor_threads, waiting>> /\ CallsTypeOK
  BY DEF RepeatTimerFires, InCallback, CallInv
<1>2. /\ timer \in Timer /\ timer.cmd \in ServiceCallCmd /\ timer.cmd.request_id = id
      /\ timer.remaining \in Nat /\ timer.remaining >= 1
      /\ ~account[id].failed /\ account[id].made + timer.remaining = account[id].asked
  <2>1. timer \in Timer /\ timer.cmd \in ServiceCallCmd /\ timer.remaining \in Nat
    BY <1>1, TimerType
  <2>2. timer.cmd.request_id = id
    BY <1>1 DEF CallInv, SeriesInv
  <2>3. /\ ~account[id].failed /\ timer.remaining >= 1
        /\ account[id].made + timer.remaining + 0 = account[id].asked
    BY <1>1 DEF CallInv, RepeatBudget
  <2> QED
    BY <1>1, <2>1, <2>2, <2>3, AccountType
<1>3. timers = [repeat_timers EXCEPT ![id] = [remaining |-> timer.remaining - 1, cmd |-> timer.cmd]]
  <2>1. [timer EXCEPT !.remaining = timer.remaining - 1] = [remaining |-> timer.remaining - 1, cmd |-> timer.cmd]
    BY <1>2 DEF Timer
  <2>2. timers = [repeat_timers EXCEPT ![id] = [timer EXCEPT !.remaining = timer.remaining - 1]]
    OBVIOUS
  <2> QED
    BY <2>1, <2>2
<1>4. [remaining |-> timer.remaining - 1, cmd |-> timer.cmd] \in Timer
  BY <1>2 DEF Timer
<1>5. /\ timers \in [CallIds -> Timer \cup {NoTimer}]
      /\ timers[id] = [remaining |-> timer.remaining - 1, cmd |-> timer.cmd]
      /\ \A q \in CallIds : q # id => timers[q] = repeat_timers[q]
  BY <1>1, <1>3, <1>4 DEF CallsTypeOK
<1>6. /\ timers[id] # NoTimer /\ timers[id].cmd.request_id = id
      /\ account[id].made + timers[id].remaining + 1 = account[id].asked
  BY <1>1, <1>2, <1>4, <1>5, TimerIsOne, AccountType
<1>7. account \in [CallIds -> [asked : Nat, made : Nat, failed : BOOLEAN]] /\ queue' \in Seq(ServiceCallCmd)
  BY <1>1 DEF CallsTypeOK
<1> DEFINE cmd == timer.cmd
<1>8. /\ cmd \in ServiceCallCmd /\ cmd.request_id = id /\ ~account[cmd.request_id].failed
      /\ timers[cmd.request_id] # NoTimer /\ timers[cmd.request_id].cmd.request_id = cmd.request_id
      /\ account[cmd.request_id].made + timers[cmd.request_id].remaining + 1 = account[cmd.request_id].asked
      /\ \A q \in CallIds : q # cmd.request_id => timers[q] = repeat_timers[q]
  BY <1>2, <1>5, <1>6
<1> HIDE DEF timers, cmd
<1> QED
  BY <1>1, <1>5, <1>7, <1>8, InvokeKeeps DEF cmd

LEMMA WaitKeeps ==
  ASSUME CallInv, Wait
  PROVE  CallInv'
<1>1. CallsTypeOK /\ call # NoCall /\ UNCHANGED <<queue, received, polling, executor_threads, waiting>>
  BY NoCallType DEF CallInv, Wait, Discovered, Undiscovered, Responded, Unanswered
<1>2. ASSUME NEW ok \in BOOLEAN, EndCall(call.cmd, call.repeated, ok),
             \/ UNCHANGED generic_service_clients_
             \/ generic_service_clients_' =
                  [generic_service_clients_ EXCEPT ![call.cmd.service_name] = NoServiceType]
      PROVE  CallInv'
  <2>1. generic_service_clients_' \in [Services -> ServiceTypes \cup {NoServiceType}]
    BY <1>1, <1>2 DEF CallsTypeOK
  <2> QED
    BY <1>1, <1>2, <2>1, EndCallKeeps
<1>3. CASE /\ call.at = "discover"
           /\ call' = [call EXCEPT !.at = "response", !.age = 0]
           /\ pending_requests' = pending_requests + 1
           /\ UNCHANGED <<answered, ready, repeat_timers, account, generic_service_clients_>>
  <2>1. /\ call' = [at |-> "response", cmd |-> call.cmd, repeated |-> call.repeated, age |-> 0]
        /\ call \in Call
    BY <1>1, <1>3, CallType DEF Call
  <2>2. call' \in Call /\ call' # NoCall
    BY <2>1, CallsAssumption, NoCallType DEF Call
  <2>3. answered = NotYet /\ ~ready /\ pending_requests = 0
    BY <1>3 DEF CallInv, WaitInv
  <2>4. CallsTypeOK'
    BY <1>1, <1>3, <2>2, <2>3 DEF CallsTypeOK
  <2>5. WaitInv'
    BY <1>3, <2>1, <2>3 DEF WaitInv
  <2>6. \A id : Underway(id)' <=> Underway(id)
    BY <1>1, <2>1, <2>2 DEF Underway
  <2>7. SeriesInv'
    BY <1>3, <2>1, <2>6 DEF CallInv, SeriesInv
  <2>8. RepeatBudget'
    BY <1>1, <1>3, <2>1, <2>2 DEF CallInv, RepeatBudget
  <2> QED
    BY <2>4, <2>5, <2>7, <2>8 DEF CallInv
<1> QED
  BY <1>2, <1>3 DEF Wait, Discovered, Undiscovered, Responded, Unanswered

\* The service answers, the executor delivers, and time passes.
LEMMA DeliveryKeeps ==
  ASSUME CallInv, Answer \/ DeliverResponse \/ CallTimePasses
  PROVE  CallInv'
<1>1. CallsTypeOK /\ UNCHANGED <<callNodeVars, executor_threads, waiting>>
  BY DEF CallInv, Answer, DeliverResponse, CallTimePasses
<1>2. CASE Answer
  <2>1. call # NoCall /\ call.age \in 0 .. CallTimeout
    BY <1>1, <1>2, NoCallType, CallType DEF Answer
  <2>2. CallsTypeOK'
    BY <1>1, <1>2, <2>1 DEF CallsTypeOK, Answer, callNodeVars
  <2>3. WaitInv'
    BY <1>2, <2>1 DEF CallInv, WaitInv, Answer, NotYet
  <2> QED
    BY <1>1, <1>2, <2>2, <2>3 DEF CallInv, Answer, SeriesInv, RepeatBudget, Underway, callNodeVars
<1>3. CASE DeliverResponse
  <2>1. call.at = "response" /\ ~ready /\ answered # NotYet /\ pending_requests = 1
    BY <1>3 DEF DeliverResponse, Deliverable, CallInv, WaitInv
  <2>2. CallsTypeOK'
    BY <1>1, <1>3, <2>1 DEF CallsTypeOK, DeliverResponse, callNodeVars
  <2>3. WaitInv'
    BY <1>3, <2>1 DEF CallInv, WaitInv, DeliverResponse
  <2> QED
    BY <1>1, <1>3, <2>2, <2>3 DEF CallInv, DeliverResponse, SeriesInv, RepeatBudget, Underway, callNodeVars
<1>4. CASE CallTimePasses
  <2>1. call # NoCall /\ call \in Call /\ call.age \in 0 .. CallTimeout /\ call.age < CallTimeout
    BY <1>1, <1>4, CallType DEF CallTimePasses
  <2>2. call' = [at |-> call.at, cmd |-> call.cmd, repeated |-> call.repeated, age |-> call.age + 1]
    BY <1>4, <2>1 DEF CallTimePasses, Call
  <2>3. call' \in Call /\ call' # NoCall
    <3>1. call'.at = call.at /\ call.at # "none"
      BY <2>2, <1>1, <2>1, CallType
    <3>2. call.age + 1 \in 0 .. CallTimeout
      BY <2>1, CallsAssumption
    <3>3. call' \in Call
      BY <2>1, <2>2, <3>2 DEF Call
    <3> QED
      BY <3>1, <3>3, NoCallType
  <2>4. UNCHANGED <<answered, ready, pending_requests>>
    BY <1>4 DEF CallTimePasses
  <2>5. CallsTypeOK'
    BY <1>1, <2>3, <2>4 DEF CallsTypeOK, callNodeVars
  <2>6. WaitInv'
    <3>1. answered \in Int
      BY <1>1, CallsAssumption DEF CallsTypeOK, NotYet
    <3> QED
      BY <2>1, <2>2, <2>4, <3>1 DEF CallInv, WaitInv
  <2>7. \A id : Underway(id)' <=> Underway(id)
    BY <2>1, <2>2, <2>3 DEF Underway
  <2>8. SeriesInv'
    BY <1>1, <2>2, <2>7 DEF CallInv, SeriesInv, callNodeVars
  <2>9. RepeatBudget'
    BY <1>1, <2>1, <2>2, <2>3 DEF CallInv, RepeatBudget, callNodeVars
  <2> QED
    BY <2>5, <2>6, <2>8, <2>9 DEF CallInv
<1> QED
  BY <1>2, <1>3, <1>4

LEMMA CallStep ==
  CallInv /\ [CallsNext]_callVars => CallInv'
<1> SUFFICES ASSUME CallInv, [CallsNext]_callVars PROVE CallInv'
  OBVIOUS
<1>1. ASSUME NEW cmd \in CallCommands, ReceiveCall(cmd)
      PROVE  CallInv'
  <2>1. queue' \in Seq(ServiceCallCmd) /\ received' \in 0 .. MaxCalls
    BY <1>1, CallsAssumption DEF ReceiveCall, CallInv, CallsTypeOK
  <2> QED
    BY <1>1, <2>1, QuietKeeps DEF ReceiveCall, CallInv, CallsTypeOK
<1>2. CASE OtherWaits
  BY <1>2, QuietKeeps DEF OtherWaits, OtherReturns, CallInv, CallsTypeOK, callNodeVars
<1>3. CASE BeginPoll \/ EndPoll
  BY <1>3, QuietKeeps DEF BeginPoll, EndPoll, CallInv, CallsTypeOK
<1>4. CASE UNCHANGED callVars
  BY <1>4, QuietKeeps DEF callVars, callNodeVars, CallInv, CallsTypeOK
<1>5. CASE DispatchServiceCall \/ Wait \/ \E id \in CallIds : RepeatTimerFires(id)
  BY <1>5, DispatchKeeps, WaitKeeps, RepeatKeeps
<1>6. CASE Answer \/ DeliverResponse \/ CallTimePasses
  BY <1>6, DeliveryKeeps
<1> QED
  BY <1>1, <1>2, <1>3, <1>4, <1>5, <1>6 DEF CallsNext, Poll

LEMMA CallInductive == CallsSpec => []CallInv
BY InitHolds, CallStep, PTL DEF CallsSpec

\* A series of calls makes the one it was asked for and its repetitions, no more
\* and no less unless it fails, however polls, timers and new commands under its
\* id interleave (DispatchServiceCall, the handler of the repeat timer), and
\* between calls no client keeps a future (remove_pending_request).
THEOREM CallSafety == CallsSpec => []CallsAccounted
<1>1. CallInv => CallsAccounted
  BY NoCallType DEF CallInv, CallsAccounted, NoPendingLeak, WaitInv
<1> QED
  BY <1>1, CallInductive, PTL

-------------------------------------------------------------------------------
(***************************************************************************)
(* Answers: of an executor with a thread for each callback that may wait   *)
(* and one more, and of one with a single thread.                          *)
(***************************************************************************)
\* Whatever was answered before this unit of time has been delivered.
Delivered ==
  call.at = "response" /\ answered # NotYet /\ answered < call.age => ready

LEMMA ThreadsStay ==
  ASSUME [CallsNext]_callVars
  PROVE  executor_threads' = executor_threads
BY DEF CallsNext, callVars, ReceiveCall, OtherWaits, OtherReturns, Poll, BeginPoll, DispatchServiceCall, EndPoll,
       RepeatTimerFires, Wait, Discovered, Undiscovered, Responded, Unanswered, Answer, DeliverResponse,
       CallTimePasses

LEMMA ThreadSpared ==
  ASSUME CallsTypeOK, SpareThread
  PROVE  ThreadFree
<1> DEFINE here == {c \in {"this node"} : InCallback}
<1>1. Cardinality(waiting) \in Nat /\ Cardinality(OtherNodes) \in Nat /\ Cardinality(waiting) <= Cardinality(OtherNodes)
  <2>1. waiting \in SUBSET OtherNodes /\ IsFiniteSet(OtherNodes)
    BY CallsAssumption DEF CallsTypeOK
  <2> QED
    BY <2>1, FS_Subset, FS_CardinalityType
<1>2. Cardinality(here) \in Nat /\ Cardinality(here) <= 1
  <2>1. here \in SUBSET {"this node"} /\ IsFiniteSet({"this node"}) /\ Cardinality({"this node"}) = 1
    BY FS_Singleton
  <2> HIDE DEF here
  <2> QED
    BY <2>1, FS_Subset, FS_CardinalityType
<1>3. ThreadFree <=> executor_threads > Cardinality(waiting) + Cardinality(here)
  BY DEF ThreadFree
<1>4. executor_threads \in Nat
  BY CallsAssumption DEF CallsTypeOK
<1> HIDE DEF here
<1> QED
  BY <1>1, <1>2, <1>3, <1>4 DEF SpareThread

LEMMA DeliveredStep ==
  ASSUME CallInv, SpareThread, Delivered, [CallsNext]_callVars
  PROVE  Delivered'
<1>1. CallsTypeOK /\ ThreadFree
  BY ThreadSpared DEF CallInv
<1>2. ASSUME NEW cmd \in CallCommands, ReceiveCall(cmd)
      PROVE  Delivered'
  BY <1>2 DEF ReceiveCall, Delivered, waitVars
<1>3. CASE OtherWaits \/ BeginPoll \/ EndPoll \/ UNCHANGED callVars
  BY <1>3 DEF OtherWaits, OtherReturns, BeginPoll, EndPoll, callVars, Delivered, waitVars
<1>4. CASE DispatchServiceCall \/ \E id \in CallIds : RepeatTimerFires(id)
  <2>1. call = NoCall
    BY <1>4 DEF DispatchServiceCall, RepeatTimerFires, InCallback
  <2>2. \/ call' = NoCall
        \/ \E cmd, repeated : call' = [at |-> "discover", cmd |-> cmd, repeated |-> repeated, age |-> 0]
    <3>1. ASSUME NEW cmd, NEW repeated, NEW timers, NEW series, Invoke(cmd, repeated, timers, series)
          PROVE  \/ call' = call
                 \/ call' = [at |-> "discover", cmd |-> cmd, repeated |-> repeated, age |-> 0]
      BY <3>1 DEF Invoke, waitVars
    <3>2. CASE DispatchServiceCall
      BY <2>1, <3>1, <3>2 DEF DispatchServiceCall, waitVars
    <3>3. CASE \E id \in CallIds : RepeatTimerFires(id)
      BY <2>1, <3>1, <3>3 DEF RepeatTimerFires
    <3> QED
      BY <1>4, <3>2, <3>3
  <2>3. call'.at # "response"
    BY <2>2 DEF NoCall
  <2> QED
    BY <2>3 DEF Delivered
<1>5. CASE Wait
  <2>1. answered' = NotYet
    BY <1>5 DEF Wait, Discovered, Undiscovered, Responded, Unanswered, EndCall, CallInv, WaitInv
  <2> QED
    BY <2>1 DEF Delivered
<1>6. CASE Answer
  <2>1. call # NoCall /\ call.age \in Int /\ answered' = call.age /\ call' = call
    BY <1>1, <1>6, NoCallType, CallType DEF Answer
  <2> QED
    BY <2>1 DEF Delivered
<1>7. CASE DeliverResponse
  BY <1>7 DEF DeliverResponse, Delivered
<1>8. CASE CallTimePasses
  <2>1. answered = NotYet \/ ready
    BY <1>1, <1>8 DEF CallTimePasses, Deliverable
  <2> QED
    BY <1>8, <2>1 DEF CallTimePasses, Delivered
<1> QED
  BY <1>2, <1>3, <1>4, <1>5, <1>6, <1>7, <1>8 DEF CallsNext, Poll

\* The only thread is in the callback that waits.
LEMMA NoneDelivers ==
  ASSUME CallInv, executor_threads <= 1
  PROVE  ~DeliverResponse
<1> SUFFICES ASSUME DeliverResponse PROVE FALSE
  OBVIOUS
<1> DEFINE here == {c \in {"this node"} : InCallback}
<1>1. answered # NotYet /\ ThreadFree
  BY DEF DeliverResponse, Deliverable
<1>2. call # NoCall
  BY <1>1, NoCallType DEF CallInv, WaitInv
<1>3. Cardinality(here) = 1
  <2>1. here = {"this node"}
    BY <1>2 DEF InCallback
  <2> QED
    BY <2>1, FS_Singleton
<1>4. Cardinality(waiting) \in Nat
  <2>1. waiting \in SUBSET OtherNodes /\ IsFiniteSet(OtherNodes)
    BY CallsAssumption DEF CallInv, CallsTypeOK
  <2> QED
    BY <2>1, FS_Subset, FS_CardinalityType
<1>5. executor_threads > Cardinality(waiting) + Cardinality(here)
  BY <1>1 DEF ThreadFree
<1>6. executor_threads \in Nat
  BY CallsAssumption DEF CallInv, CallsTypeOK
<1> HIDE DEF here
<1> QED
  BY <1>3, <1>4, <1>5, <1>6

\* What a step that delivers no response does to the account of a request id.
LEMMA CallsFail ==
  ASSUME CallInv, ~ready, [CallsNext]_callVars, ~DeliverResponse, NEW id
  PROVE  /\ ~ready'
         /\ id \in CallIds => account'[id] = account[id] \/ account'[id].made = 0 \/ account'[id].failed
<1>1. CallsTypeOK /\ account \in [CallIds -> [asked : Nat, made : Nat, failed : BOOLEAN]]
  BY DEF CallInv, CallsTypeOK
<1>2. CASE \/ \E cmd \in CallCommands : ReceiveCall(cmd)
           \/ OtherWaits \/ BeginPoll \/ EndPoll \/ Answer \/ CallTimePasses \/ UNCHANGED callVars
  BY <1>2 DEF ReceiveCall, OtherWaits, OtherReturns, BeginPoll, EndPoll, Answer, CallTimePasses, callVars, callNodeVars, waitVars
<1>3. ASSUME NEW cmd, NEW repeated, NEW timers, Invoke(cmd, repeated, timers, account)
      PROVE  ~ready' /\ (id \in CallIds => account'[id] = account[id] \/ account'[id].failed)
  BY <1>1, <1>3 DEF Invoke, waitVars
<1>4. CASE DispatchServiceCall
  <2> DEFINE cmd == Head(queue)
             begun == [asked |-> cmd.repeat_count + 1, made |-> 0, failed |-> FALSE]
             series == [account EXCEPT ![cmd.request_id] = begun]
  <2>1. id \in CallIds => series[id] = account[id] \/ series[id].made = 0
    BY <1>1
  <2>2. \/ UNCHANGED <<account, ready>>
        \/ Invoke(cmd, FALSE, EndSeries(cmd.request_id), series)
    BY <1>4 DEF DispatchServiceCall, waitVars
  <2>3. DOMAIN series = CallIds
    BY <1>1
  <2> HIDE DEF series, cmd
  <2>4. ASSUME Invoke(cmd, FALSE, EndSeries(cmd.request_id), series)
        PROVE  ~ready' /\ (id \in CallIds => account'[id] = series[id] \/ account'[id].failed)
    BY <2>3, <2>4 DEF Invoke, waitVars
  <2>5. CASE UNCHANGED <<account, ready>>
    BY <2>5
  <2> QED
    BY <2>1, <2>2, <2>4, <2>5
<1>5. CASE \E q \in CallIds : RepeatTimerFires(q)
  BY <1>3, <1>5 DEF RepeatTimerFires
<1>6. CASE Wait
  <2>1. ASSUME EndCall(call.cmd, call.repeated, FALSE)
        PROVE  ~ready' /\ (id \in CallIds => account'[id] = account[id] \/ account'[id].failed)
    BY <1>1, <2>1 DEF EndCall
  <2>2. \/ EndCall(call.cmd, call.repeated, FALSE)
        \/ UNCHANGED <<account, ready>>
    BY <1>6 DEF Wait, Discovered, Undiscovered, Responded, Unanswered
  <2>3. CASE UNCHANGED <<account, ready>>
    BY <2>3
  <2> QED
    BY <2>1, <2>2, <2>3
<1> QED
  BY <1>2, <1>4, <1>5, <1>6 DEF CallsNext, Poll

LEMMA OneThreadFails ==
  ASSUME CallInv, executor_threads <= 1, NoCallSucceeds, [CallsNext]_callVars
  PROVE  NoCallSucceeds'
<1>1. ~DeliverResponse /\ ~ready
  BY NoneDelivers DEF NoCallSucceeds
<1>2. /\ ~ready'
      /\ \A id \in CallIds : account'[id] = account[id] \/ account'[id].made = 0 \/ account'[id].failed
  BY <1>1, CallsFail
<1> QED
  BY <1>2 DEF NoCallSucceeds

\* An answer that comes before the deadline reaches the call that waits for it
\* (CallGenericService, client_group_) when the executor has a thread for every
\* callback that may wait and one more, as that of the tests has, whatever the
\* clients send and the other nodes do; when it has one, as App::SpinROS gives
\* it, none ever does, and every call that was made has failed.
THEOREM AnswerSafety == CallsSpec => []AnswersReachCalls
<1> DEFINE Held ==
      /\ SpareThread => Delivered
      /\ executor_threads <= 1 => NoCallSucceeds
<1>1. CallsInit => Held
  BY NoCallType DEF CallsInit, Delivered, NoCallSucceeds
<1>2. CallInv /\ Held /\ [CallsNext]_callVars => Held'
  <2> SUFFICES ASSUME CallInv, Held, [CallsNext]_callVars PROVE Held'
    OBVIOUS
  <2>1. executor_threads' = executor_threads /\ (SpareThread' <=> SpareThread)
    BY ThreadsStay DEF SpareThread
  <2>2. SpareThread => Delivered'
    BY DeliveredStep
  <2>3. executor_threads <= 1 => NoCallSucceeds'
    BY OneThreadFails
  <2> QED
    BY <2>1, <2>2, <2>3
<1>3. ASSUME CallInv, Delivered
      PROVE  AnsweredInTime
  <2> SUFFICES ASSUME call.at = "response", call.age = CallTimeout, answered \in 0 .. CallTimeout - 1
               PROVE  ready
    BY DEF AnsweredInTime
  <2> QED
    BY <1>3, CallsAssumption DEF Delivered, NotYet
<1>4. CallInv /\ Held => AnswersReachCalls
  BY <1>3 DEF AnswersReachCalls
<1> HIDE DEF Held
<1> QED
  BY <1>1, <1>2, <1>4, CallInductive, PTL DEF CallsSpec

===============================================================================

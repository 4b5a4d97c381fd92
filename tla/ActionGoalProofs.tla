---------------------------- MODULE ActionGoalProofs ---------------------------
(***************************************************************************)
(* The goals of the action node, for any commands, actions and number of   *)
(* threads: they are counted, tracked and served, and the node implements  *)
(* GoalService.                                                            *)
(***************************************************************************)
EXTENDS ActionGoal, FiniteSetTheorems, TLAPS

\* The command the poll waits with: its old session is gone, and its action has
\* the clients it is to be sent through.
HeldIsReady ==
  poll.at \in {"service", "response"} =>
    /\ poll.cmd.request_id \notin Sessions
    /\ generic_action_clients[poll.cmd.action_name] = poll.cmd.action_type

\* While the response is waited for, the last goal is the one it is about, and
\* the future holds nothing but what the server said of it.
ResponseIsLast ==
  poll.at = "response" =>
    /\ goals # <<>>
    /\ reply = "rejected" => goals[Len(goals)].status = "rejected"
    /\ reply = "accepted" => goals[Len(goals)].status \notin {"sent", "rejected"}

\* A session exists for a goal its server has decided on, and its result comes
\* when the goal is over.
SessionsDecided ==
  \A r \in Sessions :
    /\ goals[goal_sessions[r].uuid].status # "sent"
    /\ goal_sessions[r].result = "ready" => goals[goal_sessions[r].uuid].status = "done"

ControlInv ==
  /\ GoalsTypeOK
  /\ HeldIsReady /\ ResponseIsLast /\ SessionsDecided
  /\ GoalsTracked /\ WaitingHasClients

GoalsInv == ControlInv /\ GoalAccount

-------------------------------------------------------------------------------
\* Counting the commands of an id in the queue.
Count(q, r) == Cardinality({i \in DOMAIN q : q[i].request_id = r})

LEMMA CountType ==
  ASSUME NEW q \in Seq(Commands), NEW r
  PROVE  /\ IsFiniteSet({i \in DOMAIN q : q[i].request_id = r})
         /\ Count(q, r) \in Nat
<1>1. IsFiniteSet(1 .. Len(q))
  BY FS_Interval
<1>2. {i \in DOMAIN q : q[i].request_id = r} \in SUBSET (1 .. Len(q))
  OBVIOUS
<1>3. IsFiniteSet({i \in DOMAIN q : q[i].request_id = r})
  BY <1>1, <1>2, FS_Subset
<1> QED
  BY <1>3, FS_CardinalityType DEF Count

LEMMA CountAppend ==
  ASSUME NEW q \in Seq(Commands), NEW cmd \in Commands, NEW r
  PROVE  Count(Append(q, cmd), r) = Count(q, r) + (IF cmd.request_id = r THEN 1 ELSE 0)
<1> DEFINE Old == {i \in DOMAIN q : q[i].request_id = r}
           New == {i \in DOMAIN Append(q, cmd) : Append(q, cmd)[i].request_id = r}
<1>0. Count(q, r) = Cardinality(Old) /\ Count(Append(q, cmd), r) = Cardinality(New)
  BY DEF Count
<1>1. IsFiniteSet(Old) /\ Cardinality(Old) \in Nat
  BY CountType DEF Count
<1>2. CASE cmd.request_id = r
  <2>1. New = Old \cup {Len(q) + 1} /\ Len(q) + 1 \notin Old
    BY <1>2
  <2>2. Cardinality(New) = Cardinality(Old) + 1
    BY <1>1, <2>1, FS_AddElement
  <2> QED
    BY <1>0, <1>2, <2>2
<1>3. CASE cmd.request_id # r
  <2>1. New = Old
    BY <1>3
  <2> HIDE DEF Old, New
  <2> QED
    BY <1>0, <1>1, <1>3, <2>1
<1> QED
  BY <1>2, <1>3

LEMMA CountTail ==
  ASSUME NEW q \in Seq(Commands), q # <<>>, NEW r
  PROVE  Count(q, r) = Count(Tail(q), r) + (IF Head(q).request_id = r THEN 1 ELSE 0)
<1> DEFINE All   == {i \in DOMAIN q : q[i].request_id = r}
           Rest  == {i \in DOMAIN q : i # 1 /\ q[i].request_id = r}
           Short == {i \in DOMAIN Tail(q) : Tail(q)[i].request_id = r}
           Shift == [i \in Short |-> i + 1]
<1>0. /\ Len(q) \in Nat /\ Len(q) >= 1 /\ DOMAIN q = 1 .. Len(q)
      /\ DOMAIN Tail(q) = 1 .. (Len(q) - 1) /\ Head(q) = q[1]
      /\ \A i \in 1 .. (Len(q) - 1) : Tail(q)[i] = q[i + 1]
      /\ Tail(q) \in Seq(Commands)
  OBVIOUS
<1>5. Count(q, r) = Cardinality(All) /\ Count(Tail(q), r) = Cardinality(Short)
  BY DEF Count
<1>1. IsFiniteSet(All) /\ IsFiniteSet(Short) /\ Cardinality(Short) \in Nat
  BY <1>0, CountType DEF Count
<1>2. Cardinality(Rest) = Cardinality(Short)
  <2>1. Shift \in Bijection(Short, Rest)
    <3>1. Shift \in [Short -> Rest] /\ IsInjective(Shift)
      BY <1>0 DEF IsInjective
    <3>2. \A j \in Rest : j - 1 \in Short /\ Shift[j - 1] = j
      BY <1>0
    <3> HIDE DEF Shift, Short, Rest
    <3> QED
      BY <3>1, <3>2 DEF Bijection, Injection, Surjection
  <2> HIDE DEF Shift, Short, Rest
  <2>2. ExistsBijection(Short, Rest)
    BY <2>1 DEF ExistsBijection
  <2> QED
    BY <1>1, <2>2, FS_Bijection
<1>3. CASE Head(q).request_id = r
  <2>1. Rest = All \ {1} /\ 1 \in All
    BY <1>0, <1>3
  <2>2. Cardinality(Rest) = Cardinality(All) - 1 /\ Cardinality(All) \in Nat
    BY <1>1, <2>1, FS_RemoveElement, FS_CardinalityType
  <2> HIDE DEF All, Rest, Short
  <2> QED
    BY <1>1, <1>2, <1>3, <1>5, <2>2
<1>4. CASE Head(q).request_id # r
  <2>1. Rest = All
    BY <1>0, <1>4
  <2> HIDE DEF All, Rest, Short
  <2> QED
    BY <1>1, <1>2, <1>4, <1>5, <2>1
<1> QED
  BY <1>3, <1>4

LEMMA CountHead ==
  ASSUME NEW q \in Seq(Commands), q # <<>>
  PROVE  Tail(q) \in Seq(Commands) /\ Head(q) \in Commands
OBVIOUS
LEMMA ElementType ==
  ASSUME NEW T, NEW q \in Seq(T), NEW i \in 1 .. Len(q)
  PROVE  q[i] \in T
OBVIOUS

LEMMA WithStatus ==
  ASSUME NEW A, NEW T, NEW goal \in [action_name : A, status : T], NEW status
  PROVE  [goal EXCEPT !.status = status] = [action_name |-> goal.action_name, status |-> status]
OBVIOUS

LEMMA ResultsType ==
  ASSUME GoalsTypeOK, NEW S, SendResults(S)
  PROVE  results' \in [RequestIds -> Nat] /\ fed' \in [RequestIds -> BOOLEAN]
BY DEF GoalsTypeOK, SendResults

LEMMA RemoveType ==
  ASSUME GoalsTypeOK, NEW S
  PROVE  RemoveSessions(S) \in [RequestIds -> {NoSession} \cup
           [uuid : 1 .. Len(goals), cmd : Commands, result : {"waiting", "ready", "broken"}]]
BY DEF GoalsTypeOK, RemoveSessions

\* What the types say of a session, and of the command the poll waits with.
LEMMA SessionType ==
  ASSUME GoalsTypeOK, NEW r \in Sessions
  PROVE  /\ r \in RequestIds
         /\ goal_sessions[r].uuid \in 1 .. Len(goals)
         /\ goal_sessions[r].cmd \in Commands
         /\ goal_sessions[r].result \in {"waiting", "ready", "broken"}
         /\ goal_sessions[r] = [uuid |-> goal_sessions[r].uuid, cmd |-> goal_sessions[r].cmd,
                                result |-> goal_sessions[r].result]
         /\ goals[goal_sessions[r].uuid] \in [action_name : Actions,
              status : {"sent", "accepted", "rejected", "cancelled", "done"}]
<1>1. r \in RequestIds /\ goal_sessions[r] \in
        [uuid : 1 .. Len(goals), cmd : Commands, result : {"waiting", "ready", "broken"}]
  BY DEF GoalsTypeOK, Sessions
<1>2. goal_sessions[r].uuid \in 1 .. Len(goals)
  BY <1>1
<1>3. goals[goal_sessions[r].uuid] \in [action_name : Actions,
        status : {"sent", "accepted", "rejected", "cancelled", "done"}]
  <2>1. goals \in Seq([action_name : Actions,
          status : {"sent", "accepted", "rejected", "cancelled", "done"}])
    BY DEF GoalsTypeOK
  <2> QED
    BY <1>2, <2>1, ElementType
<1> QED
  BY <1>1, <1>2, <1>3

LEMMA CommandType ==
  ASSUME NEW cmd \in Commands
  PROVE  cmd.request_id \in RequestIds /\ cmd.action_name \in Actions /\ cmd.action_type \in Types
BY GoalsAssumption DEF ActionSendGoalCmd

LEMMA HeldType ==
  ASSUME GoalsTypeOK, poll.at \in {"service", "response"}
  PROVE  poll.cmd \in Commands /\ poll = [at |-> poll.at, cmd |-> poll.cmd]
BY DEF GoalsTypeOK, Idle, Draining

-------------------------------------------------------------------------------
\* The commands, the sessions and the goals of the servers, step by step.
LEMMA ControlInit ==
  GoalsInit => ControlInv
<1> SUFFICES ASSUME GoalsInit PROVE ControlInv
  OBVIOUS
<1>1. Sessions = {} /\ poll.at = "idle" /\ goals = <<>>
  BY DEF GoalsInit, Sessions, Idle
<1>2. GoalsTypeOK
  <2>1. goals \in Seq([action_name : Actions, status : {"sent", "accepted", "rejected", "cancelled", "done"}])
        /\ goal_queue \in Seq(Commands) /\ abandoned \subseteq 1 .. Len(goals)
    BY DEF GoalsInit
  <2> QED
    BY <2>1 DEF GoalsInit, GoalsTypeOK
<1> QED
  BY <1>1, <1>2 DEF ControlInv, HeldIsReady, ResponseIsLast, SessionsDecided, GoalsTracked, WaitingHasClients

LEMMA ReceiveKeeps ==
  ASSUME ControlInv, NEW cmd \in Commands, Receive(cmd)
  PROVE  ControlInv'
<1>1. GoalsTypeOK'
  <2>1. asked' \in [RequestIds -> Nat]
    BY CommandType DEF ControlInv, GoalsTypeOK, Receive
  <2> QED
    BY <2>1 DEF ControlInv, GoalsTypeOK, Receive
<1> QED
  BY <1>1 DEF ControlInv, Receive, HeldIsReady, ResponseIsLast, SessionsDecided, GoalsTracked, WaitingHasClients, Sessions

LEMMA PollBegins ==
  ASSUME ControlInv, OnPollTimer
  PROVE  ControlInv'
BY DEF ControlInv, GoalsTypeOK, OnPollTimer, HeldIsReady, ResponseIsLast, SessionsDecided, GoalsTracked,
       WaitingHasClients, Sessions, history, Idle, Draining

\* A command is taken: whatever becomes of it, its old session is given up.
LEMMA DispatchKeeps ==
  ASSUME ControlInv, DispatchSendGoal
  PROVE  ControlInv'
<1> DEFINE cmd == Head(goal_queue)
           old == Sessions \cap {cmd.request_id}
<1>1. cmd \in Commands /\ goal_queue' \in Seq(Commands) /\ poll.at = "drain"
  BY CountHead DEF DispatchSendGoal, ControlInv, GoalsTypeOK
<1>2. cmd.request_id \in RequestIds /\ cmd.action_name \in Actions /\ cmd.action_type \in Types
  BY <1>1, CommandType
<1>3. UNCHANGED <<goals, reply, callback_failed, asked>>
  BY DEF DispatchSendGoal
<1>4. CASE /\ SendResults({cmd.request_id})
           /\ UNCHANGED <<poll, goal_sessions, generic_action_clients, superseded, abandoned>>
  <2>1. GoalsTypeOK'
    BY <1>1, <1>3, <1>4, ResultsType DEF ControlInv, GoalsTypeOK
  <2> QED
    BY <1>1, <1>3, <1>4, <2>1 DEF ControlInv, HeldIsReady, ResponseIsLast, SessionsDecided, GoalsTracked, WaitingHasClients, Sessions
<1>5. ASSUME /\ goal_sessions' = RemoveSessions(old)
             /\ superseded' = [r \in RequestIds |-> superseded[r] + Cardinality(old \cap {r})]
             /\ abandoned' = abandoned \cup {goal_sessions[r].uuid : r \in old}
      PROVE  /\ Sessions' = Sessions \ {cmd.request_id}
             /\ \A r \in Sessions' : goal_sessions'[r] = goal_sessions[r]
             /\ goal_sessions' \in [RequestIds -> {NoSession} \cup
                  [uuid : 1 .. Len(goals), cmd : Commands, result : {"waiting", "ready", "broken"}]]
             /\ superseded' \in [RequestIds -> Nat]
             /\ abandoned' \subseteq 1 .. Len(goals)
             /\ SessionsDecided' /\ GoalsTracked'
  <2>1. Sessions' = Sessions \ {cmd.request_id} /\ \A r \in Sessions' : goal_sessions'[r] = goal_sessions[r]
    BY <1>5 DEF RemoveSessions, Sessions
  <2>2. goal_sessions' \in [RequestIds -> {NoSession} \cup
          [uuid : 1 .. Len(goals), cmd : Commands, result : {"waiting", "ready", "broken"}]]
    BY <1>5, RemoveType DEF ControlInv
  <2>3. \A r \in RequestIds : Cardinality(old \cap {r}) \in Nat
    <3> SUFFICES ASSUME NEW r \in RequestIds PROVE Cardinality(old \cap {r}) \in Nat
      OBVIOUS
    <3>1. old \cap {r} \in SUBSET {r} /\ IsFiniteSet({r})
      BY FS_Singleton
    <3> QED
      BY <3>1, FS_Subset, FS_CardinalityType
  <2>4. superseded' \in [RequestIds -> Nat]
    <3>1. superseded \in [RequestIds -> Nat]
      BY DEF ControlInv, GoalsTypeOK
    <3> HIDE DEF old
    <3> QED
      BY <1>5, <2>3, <3>1
  <2>5. abandoned' \subseteq 1 .. Len(goals)
    <3>1. abandoned \subseteq 1 .. Len(goals)
      BY DEF ControlInv, GoalsTypeOK
    <3>2. \A r \in old : goal_sessions[r].uuid \in 1 .. Len(goals)
      BY SessionType DEF ControlInv
    <3> HIDE DEF old
    <3> QED
      BY <1>5, <3>1, <3>2
  <2>6. SessionsDecided'
    BY <1>3, <2>1 DEF ControlInv, SessionsDecided
  <2>7. GoalsTracked'
    <3> SUFFICES ASSUME NEW g \in DOMAIN goals, goals[g].status \in {"sent", "accepted"}
                 PROVE  g \in abandoned' \/ \E r \in Sessions' : goal_sessions'[r].uuid = g
      BY <1>3 DEF GoalsTracked
    <3>1. g \in abandoned \/ \E r \in Sessions : goal_sessions[r].uuid = g
      BY <1>1 DEF ControlInv, GoalsTracked
    <3>2. ASSUME NEW r \in Sessions, goal_sessions[r].uuid = g
          PROVE  g \in abandoned' \/ \E q \in Sessions' : goal_sessions'[q].uuid = g
      <4>1. CASE r = cmd.request_id
        <5>1. r \in old
          BY <4>1
        <5> HIDE DEF old
        <5> QED
          BY <1>5, <3>2, <5>1
      <4>2. CASE r # cmd.request_id
        BY <2>1, <3>2, <4>2
      <4> QED
        BY <4>1, <4>2
    <3> QED
      BY <1>5, <3>1, <3>2
  <2> QED
    BY <2>1, <2>2, <2>4, <2>5, <2>6, <2>7
<1>6. CASE /\ goal_sessions' = RemoveSessions(old)
           /\ superseded' = [r \in RequestIds |-> superseded[r] + Cardinality(old \cap {r})]
           /\ abandoned' = abandoned \cup {goal_sessions[r].uuid : r \in old}
           /\ SendResults({cmd.request_id})
           /\ UNCHANGED <<poll, generic_action_clients>>
  <2>1. GoalsTypeOK'
    BY <1>1, <1>3, <1>5, <1>6, ResultsType DEF ControlInv, GoalsTypeOK
  <2> QED
    BY <1>1, <1>3, <1>5, <1>6, <2>1 DEF ControlInv, HeldIsReady, ResponseIsLast, WaitingHasClients
<1>7. CASE /\ ~TypeConflict(cmd)
           /\ goal_sessions' = RemoveSessions(old)
           /\ superseded' = [r \in RequestIds |-> superseded[r] + Cardinality(old \cap {r})]
           /\ abandoned' = abandoned \cup {goal_sessions[r].uuid : r \in old}
           /\ EnsureGenericClientEntry(cmd)
           /\ poll' = [at |-> "service", cmd |-> cmd]
           /\ NoResult
  <2>1. /\ generic_action_clients' \in [Actions -> Types \cup {NoType}]
        /\ generic_action_clients'[cmd.action_name] = cmd.action_type
        /\ \A a \in Actions : a # cmd.action_name => generic_action_clients'[a] = generic_action_clients[a]
    BY <1>2, <1>7 DEF EnsureGenericClientEntry, ControlInv, GoalsTypeOK
  <2>2. GoalsTypeOK'
    BY <1>1, <1>3, <1>5, <1>7, <2>1 DEF ControlInv, GoalsTypeOK, NoResult
  <2>3. HeldIsReady' /\ ResponseIsLast'
    BY <1>5, <1>7, <2>1 DEF HeldIsReady, ResponseIsLast
  <2>4. WaitingHasClients'
    <3> SUFFICES ASSUME NEW r \in Sessions, goal_sessions[r].result = "waiting"
                 PROVE  generic_action_clients'[goal_sessions[r].cmd.action_name] = goal_sessions[r].cmd.action_type
      BY <1>5, <1>7 DEF WaitingHasClients
    <3>1. generic_action_clients[goal_sessions[r].cmd.action_name] = goal_sessions[r].cmd.action_type
      BY DEF ControlInv, WaitingHasClients
    <3>2. goal_sessions[r].cmd.action_name \in Actions /\ goal_sessions[r].cmd.action_type # NoType
      <4>1. goal_sessions[r].cmd \in Commands
        BY SessionType DEF ControlInv
      <4> QED
        BY <4>1, CommandType, GoalsAssumption
    <3> QED
      BY <1>7, <2>1, <3>1, <3>2 DEF TypeConflict
  <2> QED
    BY <1>5, <1>7, <2>2, <2>3, <2>4 DEF ControlInv
<1> QED
  BY <1>4, <1>6, <1>7 DEF DispatchSendGoal

\* The waits of the poll end.
LEMMA ServiceUnavailableKeeps ==
  ASSUME ControlInv, ServiceUnavailable
  PROVE  ControlInv' /\ Sessions' = Sessions
<1>1. poll.cmd \in Commands /\ poll.cmd.action_name \in Actions
  BY HeldType, CommandType DEF ServiceUnavailable, ControlInv
<1>2. UNCHANGED <<goal_queue, goals, reply, callback_failed, asked, superseded, abandoned>> /\ poll' = Draining
  BY DEF ServiceUnavailable
<1>3. \A r \in RequestIds :
        \/ goal_sessions'[r] = goal_sessions[r]
           /\ (r \in Sessions /\ goal_sessions[r].result = "waiting" =>
                 goal_sessions[r].cmd.action_name # poll.cmd.action_name)
        \/ r \in Sessions /\ goal_sessions'[r] = [goal_sessions[r] EXCEPT !.result = "broken"]
  BY DEF ServiceUnavailable, Sessions
<1>4. goal_sessions' \in [RequestIds -> {NoSession} \cup
        [uuid : 1 .. Len(goals), cmd : Commands, result : {"waiting", "ready", "broken"}]]
  <2>1. DOMAIN goal_sessions' = RequestIds
        /\ goal_sessions' = [r \in RequestIds |-> goal_sessions'[r]]
    BY DEF ServiceUnavailable
  <2>2. ASSUME NEW r \in RequestIds
        PROVE  goal_sessions'[r] \in {NoSession} \cup
                 [uuid : 1 .. Len(goals), cmd : Commands, result : {"waiting", "ready", "broken"}]
    <3>1. CASE goal_sessions'[r] = goal_sessions[r]
      BY <3>1 DEF ControlInv, GoalsTypeOK
    <3>2. CASE r \in Sessions /\ goal_sessions'[r] = [goal_sessions[r] EXCEPT !.result = "broken"]
      BY <3>2, SessionType DEF ControlInv
    <3> QED
      BY <1>3, <3>1, <3>2
  <2> QED
    BY <2>1, <2>2
<1>5. GoalsTypeOK'
  <2>1. generic_action_clients' \in [Actions -> Types \cup {NoType}]
    BY <1>1 DEF ServiceUnavailable, ControlInv, GoalsTypeOK
  <2>2. results' \in [RequestIds -> Nat] /\ fed' \in [RequestIds -> BOOLEAN]
    BY ResultsType DEF ServiceUnavailable, ControlInv
  <2> QED
    BY <1>2, <1>4, <2>1, <2>2 DEF ControlInv, GoalsTypeOK
<1>6. Sessions' = Sessions /\ \A r \in Sessions :
        /\ goal_sessions'[r].uuid = goal_sessions[r].uuid
        /\ goal_sessions'[r].cmd = goal_sessions[r].cmd
        /\ goal_sessions'[r].result \in {goal_sessions[r].result, "broken"}
  <2>1. ASSUME NEW r \in Sessions, goal_sessions'[r] = [goal_sessions[r] EXCEPT !.result = "broken"]
        PROVE  /\ goal_sessions'[r].uuid = goal_sessions[r].uuid
               /\ goal_sessions'[r].cmd = goal_sessions[r].cmd
               /\ goal_sessions'[r].result = "broken"
               /\ goal_sessions'[r] # NoSession
    <3>1. goal_sessions[r].uuid \in 1 .. Len(goals)
          /\ goal_sessions[r] = [uuid |-> goal_sessions[r].uuid, cmd |-> goal_sessions[r].cmd,
                                 result |-> goal_sessions[r].result]
      BY SessionType DEF ControlInv
    <3>2. goal_sessions'[r] = [uuid |-> goal_sessions[r].uuid, cmd |-> goal_sessions[r].cmd, result |-> "broken"]
      BY <2>1, <3>1
    <3>3. goal_sessions'[r].uuid # 0
      BY <3>1, <3>2
    <3> QED
      BY <3>2, <3>3 DEF NoSession
  <2> QED
    BY <1>3, <2>1 DEF Sessions
<1>7. WaitingHasClients'
  <2> SUFFICES ASSUME NEW r \in Sessions, goal_sessions'[r].result = "waiting"
               PROVE  generic_action_clients'[goal_sessions[r].cmd.action_name] = goal_sessions[r].cmd.action_type
    BY <1>6 DEF WaitingHasClients
  <2>1. goal_sessions[r].result = "waiting" /\ goal_sessions'[r] = goal_sessions[r]
    <3>1. ASSUME goal_sessions'[r] = [goal_sessions[r] EXCEPT !.result = "broken"] PROVE FALSE
      BY <3>1, SessionType DEF ControlInv
    <3> QED
      BY <1>3, <3>1 DEF Sessions
  <2>2. goal_sessions[r].cmd.action_name # poll.cmd.action_name
    <3>1. [goal_sessions[r] EXCEPT !.result = "broken"].result = "broken"
      BY SessionType DEF ControlInv
    <3> QED
      BY <1>3, <2>1, <3>1 DEF Sessions
  <2>3. goal_sessions[r].cmd.action_name \in Actions
    BY SessionType, CommandType DEF ControlInv
  <2> QED
    BY <2>1, <2>2, <2>3 DEF ServiceUnavailable, ControlInv, WaitingHasClients, GoalsTypeOK
<1>8. SessionsDecided' /\ GoalsTracked'
  <2>1. \A r \in Sessions : goal_sessions'[r].result = "ready" => goal_sessions[r].result = "ready"
    BY <1>6
  <2>2. SessionsDecided'
    BY <1>2, <1>6, <2>1 DEF ControlInv, SessionsDecided
  <2>3. poll.at = "service" /\ GoalsTracked
    BY DEF ServiceUnavailable, ControlInv
  <2>4. GoalsTracked'
    BY <1>2, <1>6, <2>3 DEF GoalsTracked
  <2> QED
    BY <2>2, <2>4
<1> QED
  BY <1>2, <1>5, <1>6, <1>7, <1>8 DEF ControlInv, HeldIsReady, ResponseIsLast, Draining

LEMMA SendGoalKeeps ==
  ASSUME ControlInv, SendGoal
  PROVE  ControlInv'
<1>1. poll.cmd \in Commands /\ poll.cmd.action_name \in Actions /\ poll.at = "service"
  BY HeldType, CommandType DEF SendGoal, ControlInv
<1>2. UNCHANGED <<goal_queue, generic_action_clients, goal_sessions, callback_failed, asked, superseded, abandoned>>
  BY DEF SendGoal
<1>3. CASE /\ goals' = Append(goals, [action_name |-> poll.cmd.action_name, status |-> "sent"])
           /\ poll' = [at |-> "response", cmd |-> poll.cmd]
           /\ reply' = "none"
           /\ NoResult
  <2>1. /\ goals' \in Seq([action_name : Actions, status : {"sent", "accepted", "rejected", "cancelled", "done"}])
        /\ Len(goals') = Len(goals) + 1 /\ Len(goals) \in Nat
        /\ \A g \in 1 .. Len(goals) : goals'[g] = goals[g]
        /\ DOMAIN goals = 1 .. Len(goals) /\ DOMAIN goals' = 1 .. Len(goals')
    <3>1. goals \in Seq([action_name : Actions, status : {"sent", "accepted", "rejected", "cancelled", "done"}])
      BY DEF ControlInv, GoalsTypeOK
    <3>2. [action_name |-> poll.cmd.action_name, status |-> "sent"] \in
            [action_name : Actions, status : {"sent", "accepted", "rejected", "cancelled", "done"}]
      BY <1>1
    <3> QED
      BY <1>3, <3>1, <3>2
  <2>2. 1 .. Len(goals) \subseteq 1 .. Len(goals')
    BY <2>1
  <2>3. goal_sessions' \in [RequestIds -> {NoSession} \cup
          [uuid : 1 .. Len(goals'), cmd : Commands, result : {"waiting", "ready", "broken"}]]
    BY <1>2, <2>2 DEF ControlInv, GoalsTypeOK
  <2>4. GoalsTypeOK'
    BY <1>1, <1>2, <1>3, <2>1, <2>2, <2>3 DEF ControlInv, GoalsTypeOK, NoResult
  <2>5. SessionsDecided'
    BY <1>2, <2>1, SessionType DEF ControlInv, SessionsDecided, Sessions
  <2>6. GoalsTracked'
    BY <1>1, <1>2, <1>3, <2>1 DEF ControlInv, GoalsTracked, Sessions
  <2> QED
    BY <1>1, <1>2, <1>3, <2>1, <2>4, <2>5, <2>6 DEF ControlInv, HeldIsReady, ResponseIsLast, WaitingHasClients, Sessions
<1>4. CASE /\ SendResults({poll.cmd.request_id})
           /\ poll' = Draining
           /\ UNCHANGED <<goals, reply>>
  <2>1. GoalsTypeOK'
    BY <1>2, <1>4, ResultsType DEF ControlInv, GoalsTypeOK
  <2> QED
    BY <1>1, <1>2, <1>4, <2>1 DEF ControlInv, HeldIsReady, ResponseIsLast, SessionsDecided, GoalsTracked,
       WaitingHasClients, Sessions, Draining
<1> QED
  BY <1>3, <1>4 DEF SendGoal

LEMMA ResponseTimeoutKeeps ==
  ASSUME ControlInv, ResponseTimeout
  PROVE  ControlInv'
<1>1. goals # <<>> /\ Len(goals) \in 1 .. Len(goals)
  BY DEF ControlInv, GoalsTypeOK, ResponseTimeout, ResponseIsLast
<1>2. GoalsTypeOK'
  BY <1>1, ResultsType DEF ControlInv, GoalsTypeOK, ResponseTimeout
<1> QED
  BY <1>2 DEF ResponseTimeout, ControlInv, HeldIsReady, ResponseIsLast, SessionsDecided, GoalsTracked,
     WaitingHasClients, Sessions, Draining

LEMMA ResponseHandledKeeps ==
  ASSUME ControlInv, ResponseHandled
  PROVE  ControlInv'
<1> DEFINE r == poll.cmd.request_id
<1>1. /\ poll.cmd \in Commands /\ r \in RequestIds /\ poll.at = "response"
      /\ Len(goals) \in 1 .. Len(goals)
  BY HeldType, CommandType DEF ResponseHandled, ControlInv, GoalsTypeOK, ResponseIsLast
<1>2. UNCHANGED <<goal_queue, generic_action_clients, goals, reply, callback_failed, asked, superseded>> /\ poll' = Draining
  BY DEF ResponseHandled
<1>3. CASE reply = "rejected" /\ SendResults({r}) /\ UNCHANGED <<goal_sessions, abandoned>>
  <2>1. GoalsTypeOK'
    BY <1>2, <1>3, ResultsType DEF ControlInv, GoalsTypeOK
  <2>2. GoalsTracked'
    BY <1>1, <1>2, <1>3 DEF ControlInv, GoalsTracked, Sessions, ResponseIsLast
  <2> QED
    BY <1>1, <1>2, <1>3, <2>1, <2>2 DEF ControlInv, HeldIsReady, ResponseIsLast, SessionsDecided,
       WaitingHasClients, Sessions, Draining
<1>4. CASE /\ reply = "accepted"
           /\ goal_sessions' = [goal_sessions EXCEPT ![r] =
                [uuid |-> Len(goals), cmd |-> poll.cmd, result |-> "waiting"]]
           /\ NoResult /\ UNCHANGED abandoned
  <2>1. GoalsTypeOK'
    BY <1>1, <1>2, <1>4 DEF ControlInv, GoalsTypeOK, NoResult
  <2>2. /\ Sessions' = Sessions \cup {r} /\ r \notin Sessions
        /\ goal_sessions'[r] = [uuid |-> Len(goals), cmd |-> poll.cmd, result |-> "waiting"]
        /\ \A q \in Sessions : goal_sessions'[q] = goal_sessions[q]
    BY <1>1, <1>4 DEF ControlInv, GoalsTypeOK, HeldIsReady, Sessions, NoSession
  <2>3. SessionsDecided'
    BY <1>1, <1>2, <1>4, <2>2 DEF ControlInv, SessionsDecided, ResponseIsLast
  <2>4. GoalsTracked'
    BY <1>1, <1>2, <1>4, <2>2 DEF ControlInv, GoalsTracked
  <2>5. WaitingHasClients'
    BY <1>1, <1>2, <1>4, <2>2 DEF ControlInv, WaitingHasClients, HeldIsReady
  <2> QED
    BY <1>2, <2>1, <2>3, <2>4, <2>5 DEF ControlInv, HeldIsReady, ResponseIsLast, Draining
<1>5. CASE /\ reply = "accepted"
           /\ SendResults({r})
           /\ abandoned' = abandoned \cup {Len(goals)}
           /\ UNCHANGED goal_sessions
  <2>1. GoalsTypeOK'
    BY <1>1, <1>2, <1>5, ResultsType DEF ControlInv, GoalsTypeOK
  <2> QED
    BY <1>1, <1>2, <1>5, <2>1 DEF ControlInv, HeldIsReady, ResponseIsLast, SessionsDecided, GoalsTracked,
       WaitingHasClients, Sessions, Draining
<1> QED
  BY <1>3, <1>4, <1>5 DEF ResponseHandled

LEMMA ResultsKeep ==
  ASSUME ControlInv, CheckGetResultFutures
  PROVE  ControlInv'
<1> DEFINE Ready == {r \in Sessions : goal_sessions[r].result = "ready"}
<1>1. /\ UNCHANGED <<goal_queue, generic_action_clients, goals, reply, asked, superseded, abandoned>>
      /\ poll' = Idle /\ poll.at = "drain"
  BY DEF CheckGetResultFutures
<1>2. PICK S \in SUBSET Ready : SendResults(S) /\ goal_sessions' = RemoveSessions(S) /\ callback_failed' \in BOOLEAN
  BY DEF CheckGetResultFutures, ControlInv, GoalsTypeOK
<1>3. GoalsTypeOK'
  BY <1>1, <1>2, ResultsType, RemoveType DEF ControlInv, GoalsTypeOK
<1>4. Sessions' = Sessions \ S /\ \A r \in Sessions' : goal_sessions'[r] = goal_sessions[r]
  BY <1>2 DEF RemoveSessions, Sessions
<1>5. GoalsTracked'
  <2> SUFFICES ASSUME NEW g \in DOMAIN goals, goals[g].status \in {"sent", "accepted"}, g \notin abandoned
               PROVE  \E r \in Sessions' : goal_sessions'[r].uuid = g
    BY <1>1 DEF GoalsTracked
  <2>1. PICK r \in Sessions : goal_sessions[r].uuid = g
    BY <1>1 DEF ControlInv, GoalsTracked
  <2>2. r \notin S
    BY <1>2, <2>1 DEF ControlInv, SessionsDecided
  <2> QED
    BY <1>4, <2>1, <2>2
<1> QED
  BY <1>1, <1>3, <1>4, <1>5 DEF ControlInv, HeldIsReady, ResponseIsLast, SessionsDecided, WaitingHasClients, Idle

-------------------------------------------------------------------------------
\* The callbacks of action_group_.
LEMMA CallbacksKeep ==
  ASSUME ControlInv,
         \/ GoalResponse
         \/ \E g \in 1 .. Len(goals) : HandleFeedbackMessage(g)
         \/ \E r \in RequestIds : ResultResponse(r)
  PROVE  ControlInv' /\ Sessions' = Sessions
<1>1. CASE GoalResponse
  <2>1. GoalsTypeOK'
    BY <1>1 DEF ControlInv, GoalsTypeOK, GoalResponse, history
  <2>2. ResponseIsLast'
    BY <1>1 DEF ControlInv, GoalResponse, ResponseIsLast
  <2> QED
    BY <1>1, <2>1, <2>2 DEF GoalResponse, ControlInv, HeldIsReady, SessionsDecided, GoalsTracked, WaitingHasClients,
       Sessions, history
<1>2. ASSUME NEW g \in 1 .. Len(goals), HandleFeedbackMessage(g)
      PROVE  ControlInv' /\ Sessions' = Sessions
  <2>1. UNCHANGED <<goal_queue, poll, generic_action_clients, goal_sessions, goals, reply, callback_failed,
                    results, asked, superseded, abandoned>>
    BY <1>2 DEF HandleFeedbackMessage
  <2>2. GoalsTypeOK'
    BY <1>2, <2>1 DEF ControlInv, GoalsTypeOK, HandleFeedbackMessage
  <2> QED
    BY <2>1, <2>2 DEF ControlInv, HeldIsReady, ResponseIsLast, SessionsDecided, GoalsTracked, WaitingHasClients, Sessions
<1>3. ASSUME NEW r \in RequestIds, ResultResponse(r)
      PROVE  ControlInv' /\ Sessions' = Sessions
  <2>1. /\ UNCHANGED <<goal_queue, poll, generic_action_clients, goals, reply, callback_failed, history>>
        /\ r \in Sessions /\ goals[goal_sessions[r].uuid].status = "done"
        /\ goal_sessions' = [goal_sessions EXCEPT ![r].result = "ready"]
    BY <1>3 DEF ResultResponse
  <2>2. /\ goal_sessions[r].uuid \in 1 .. Len(goals) /\ goal_sessions[r].cmd \in Commands
        /\ goal_sessions[r] = [uuid |-> goal_sessions[r].uuid, cmd |-> goal_sessions[r].cmd,
                               result |-> goal_sessions[r].result]
    BY <2>1, SessionType DEF ControlInv
  <2>3. goal_sessions' = [goal_sessions EXCEPT ![r] =
          [uuid |-> goal_sessions[r].uuid, cmd |-> goal_sessions[r].cmd, result |-> "ready"]]
    <3>1. [goal_sessions[r] EXCEPT !.result = "ready"] =
            [uuid |-> goal_sessions[r].uuid, cmd |-> goal_sessions[r].cmd, result |-> "ready"]
      BY <2>2
    <3>2. goal_sessions' = [goal_sessions EXCEPT ![r] = [goal_sessions[r] EXCEPT !.result = "ready"]]
      BY <2>1
    <3> QED
      BY <3>1, <3>2
  <2>4. GoalsTypeOK'
    <3>1. goal_sessions' \in [RequestIds -> {NoSession} \cup
            [uuid : 1 .. Len(goals), cmd : Commands, result : {"waiting", "ready", "broken"}]]
      BY <2>2, <2>3 DEF ControlInv, GoalsTypeOK
    <3> QED
      BY <2>1, <3>1 DEF ControlInv, GoalsTypeOK, history
  <2>5. /\ goal_sessions'[r] = [uuid |-> goal_sessions[r].uuid, cmd |-> goal_sessions[r].cmd, result |-> "ready"]
        /\ \A q \in RequestIds : q # r => goal_sessions'[q] = goal_sessions[q]
    BY <2>3 DEF ControlInv, GoalsTypeOK
  <2>6. Sessions' = Sessions
    <3>1. goal_sessions'[r].uuid # 0
      BY <2>2, <2>5
    <3>2. goal_sessions'[r] # NoSession
      BY <2>5, <3>1 DEF NoSession
    <3> QED
      BY <2>1, <2>5, <3>2 DEF Sessions
  <2>7. \A q \in Sessions : q # r => goal_sessions'[q] = goal_sessions[q]
    BY <2>5 DEF Sessions
  <2>8. SessionsDecided'
    BY <2>1, <2>5, <2>6, <2>7 DEF ControlInv, SessionsDecided
  <2>9. GoalsTracked'
    <3>1. \A q \in Sessions : goal_sessions'[q].uuid = goal_sessions[q].uuid
      BY <2>5, <2>7
    <3> QED
      BY <2>1, <2>6, <3>1 DEF ControlInv, GoalsTracked, history
  <2>10. WaitingHasClients'
    BY <2>1, <2>5, <2>6, <2>7 DEF ControlInv, WaitingHasClients
  <2> QED
    BY <2>1, <2>4, <2>6, <2>8, <2>9, <2>10 DEF ControlInv, HeldIsReady, ResponseIsLast
<1> QED
  BY <1>1, <1>2, <1>3

\* A goal whose session goes for its timeout is cancelled, if the server runs it.
LEMMA GoalTimeoutKeeps ==
  ASSUME ControlInv, NEW r \in RequestIds, OnGoalTimeout(r)
  PROVE  ControlInv'
<1> DEFINE g == goal_sessions[r].uuid
           Records == [action_name : Actions, status : {"sent", "accepted", "rejected", "cancelled", "done"}]
<1>1. /\ UNCHANGED <<goal_queue, poll, generic_action_clients, reply, callback_failed, asked, superseded, abandoned>>
      /\ r \in Sessions /\ CancelGoal(g) /\ SendResults({r}) /\ goal_sessions' = RemoveSessions({r})
  BY DEF OnGoalTimeout
<1>2. g \in 1 .. Len(goals) /\ goals \in Seq(Records) /\ goals[g] \in Records
  BY <1>1, SessionType DEF ControlInv, GoalsTypeOK
<1>3. goals[g].status \in {"accepted", "rejected", "cancelled", "done"}
  BY <1>1, <1>2 DEF ControlInv, SessionsDecided
<1>4. PICK status \in {"rejected", "cancelled", "done"} :
        /\ goals' = [goals EXCEPT ![g].status = status]
        /\ status # goals[g].status => goals[g].status = "accepted" /\ status = "cancelled"
  BY <1>1, <1>3 DEF CancelGoal
<1>5. goals' = [goals EXCEPT ![g] = [action_name |-> goals[g].action_name, status |-> status]]
  <2>1. [goals[g] EXCEPT !.status = status] = [action_name |-> goals[g].action_name, status |-> status]
    BY <1>2, WithStatus
  <2>2. goals' = [goals EXCEPT ![g] = [goals[g] EXCEPT !.status = status]]
    BY <1>2, <1>4
  <2> QED
    BY <2>1, <2>2
<1>6. goals' \in Seq(Records) /\ Len(goals') = Len(goals)
  <2>1. [action_name |-> goals[g].action_name, status |-> status] \in Records
    BY <1>2, <1>4
  <2> HIDE DEF Records, g
  <2> QED
    BY <1>2, <1>5, <2>1
<1>7. /\ DOMAIN goals' = DOMAIN goals /\ DOMAIN goals = 1 .. Len(goals)
      /\ goals'[g].status = status
      /\ \A i \in DOMAIN goals : i # g => goals'[i] = goals[i]
  BY <1>2, <1>5
<1>8. GoalsTypeOK'
  BY <1>1, <1>6, ResultsType, RemoveType DEF ControlInv, GoalsTypeOK
<1>9. Sessions' = Sessions \ {r} /\ \A q \in Sessions' : goal_sessions'[q] = goal_sessions[q]
  BY <1>1 DEF RemoveSessions, Sessions
<1>10. ResponseIsLast'
  <2> SUFFICES ASSUME poll.at = "response"
               PROVE  /\ goals' # <<>>
                      /\ reply = "rejected" => goals'[Len(goals)].status = "rejected"
                      /\ reply = "accepted" => goals'[Len(goals)].status \notin {"sent", "rejected"}
    BY <1>1, <1>6 DEF ResponseIsLast
  <2>1. Len(goals) \in DOMAIN goals /\ goals' # <<>>
    BY <1>2, <1>6, <1>7
  <2>2. CASE Len(goals) = g
    BY <1>1, <1>4, <1>7, <2>1, <2>2 DEF ControlInv, ResponseIsLast
  <2>3. CASE Len(goals) # g
    BY <1>1, <1>7, <2>1, <2>3 DEF ControlInv, ResponseIsLast
  <2> QED
    BY <2>2, <2>3
<1>11. SessionsDecided'
  <2> SUFFICES ASSUME NEW q \in Sessions, q # r
               PROVE  /\ goals'[goal_sessions[q].uuid].status # "sent"
                      /\ goal_sessions[q].result = "ready" => goals'[goal_sessions[q].uuid].status = "done"
    BY <1>9 DEF SessionsDecided
  <2>1. goal_sessions[q].uuid \in DOMAIN goals
    BY <1>7, SessionType DEF ControlInv
  <2> QED
    BY <1>4, <1>7, <2>1 DEF ControlInv, SessionsDecided
<1>12. GoalsTracked'
  <2> SUFFICES ASSUME NEW i \in DOMAIN goals, goals'[i].status \in {"sent", "accepted"}
               PROVE  \/ i \in abandoned
                      \/ poll.at = "response" /\ i = Len(goals)
                      \/ \E q \in Sessions \ {r} : goal_sessions[q].uuid = i
    BY <1>1, <1>6, <1>7, <1>9 DEF GoalsTracked
  <2>1. i # g
    BY <1>4, <1>7
  <2> QED
    BY <1>7, <2>1 DEF ControlInv, GoalsTracked
<1> QED
  BY <1>1, <1>8, <1>9, <1>10, <1>11, <1>12 DEF ControlInv, HeldIsReady, WaitingHasClients

\* What a server does with a goal.
LEMMA ServerKeeps ==
  ASSUME ControlInv, NEW g \in 1 .. Len(goals), ServerDecides(g) \/ ServerFinishes(g)
  PROVE  ControlInv'
<1> DEFINE Records == [action_name : Actions, status : {"sent", "accepted", "rejected", "cancelled", "done"}]
<1>1. UNCHANGED <<goal_queue, poll, generic_action_clients, goal_sessions, reply, callback_failed, history>>
  BY DEF ServerDecides, ServerFinishes
<1>2. goals \in Seq(Records) /\ goals[g] \in Records
  BY ElementType DEF ControlInv, GoalsTypeOK
<1>3. PICK status \in {"accepted", "rejected", "done"} :
        /\ goals' = [goals EXCEPT ![g].status = status]
        /\ \/ goals[g].status = "sent" /\ status \in {"accepted", "rejected"}
           \/ goals[g].status \in {"accepted", "cancelled"} /\ status = "done"
  BY DEF ServerDecides, ServerFinishes
<1>4. goals' = [goals EXCEPT ![g] = [action_name |-> goals[g].action_name, status |-> status]]
  <2>1. [goals[g] EXCEPT !.status = status] = [action_name |-> goals[g].action_name, status |-> status]
    BY <1>2, WithStatus
  <2>2. goals' = [goals EXCEPT ![g] = [goals[g] EXCEPT !.status = status]]
    BY <1>2, <1>3
  <2> QED
    BY <2>1, <2>2
<1>5. goals' \in Seq(Records) /\ Len(goals') = Len(goals)
  <2>1. [action_name |-> goals[g].action_name, status |-> status] \in Records
    BY <1>2, <1>3
  <2> HIDE DEF Records
  <2> QED
    BY <1>2, <1>4, <2>1
<1>6. /\ DOMAIN goals' = DOMAIN goals /\ DOMAIN goals = 1 .. Len(goals)
      /\ goals'[g].status = status
      /\ \A i \in DOMAIN goals : i # g => goals'[i] = goals[i]
  BY <1>2, <1>4
<1>7. GoalsTypeOK'
  BY <1>1, <1>5 DEF ControlInv, GoalsTypeOK, history
<1>8. ResponseIsLast'
  <2> SUFFICES ASSUME poll.at = "response"
               PROVE  /\ goals' # <<>>
                      /\ reply = "rejected" => goals'[Len(goals)].status = "rejected"
                      /\ reply = "accepted" => goals'[Len(goals)].status \notin {"sent", "rejected"}
    BY <1>1, <1>5 DEF ResponseIsLast
  <2>1. Len(goals) \in DOMAIN goals /\ goals' # <<>>
    BY <1>2, <1>5, <1>6
  <2>2. CASE Len(goals) = g
    BY <1>1, <1>3, <1>6, <2>1, <2>2 DEF ControlInv, ResponseIsLast
  <2>3. CASE Len(goals) # g
    BY <1>1, <1>6, <2>1, <2>3 DEF ControlInv, ResponseIsLast
  <2> QED
    BY <2>2, <2>3
<1>9. SessionsDecided'
  <2> SUFFICES ASSUME NEW q \in Sessions
               PROVE  /\ goals'[goal_sessions[q].uuid].status # "sent"
                      /\ goal_sessions[q].result = "ready" => goals'[goal_sessions[q].uuid].status = "done"
    BY <1>1 DEF SessionsDecided, Sessions
  <2>1. goal_sessions[q].uuid \in DOMAIN goals
    BY <1>6, SessionType DEF ControlInv
  <2> QED
    BY <1>3, <1>6, <2>1 DEF ControlInv, SessionsDecided
<1>10. GoalsTracked'
  <2> SUFFICES ASSUME NEW i \in DOMAIN goals, goals'[i].status \in {"sent", "accepted"}
               PROVE  goals[i].status \in {"sent", "accepted"}
    BY <1>1, <1>5, <1>6 DEF ControlInv, GoalsTracked, Sessions, history
  <2> QED
    BY <1>3, <1>6
<1> QED
  BY <1>1, <1>7, <1>8, <1>9, <1>10 DEF ControlInv, HeldIsReady, WaitingHasClients, Sessions

LEMMA ControlStep ==
  ControlInv /\ [GoalsNext]_goalVars => ControlInv'
<1> SUFFICES ASSUME ControlInv, [GoalsNext]_goalVars PROVE ControlInv'
  OBVIOUS
<1>1. CASE \E cmd \in Commands : Receive(cmd)
  BY <1>1, ReceiveKeeps
<1>2. CASE PollStep
  BY <1>2, PollBegins, DispatchKeeps, ServiceUnavailableKeeps, SendGoalKeeps, ResponseTimeoutKeeps,
     ResponseHandledKeeps, ResultsKeep DEF PollStep
<1>3. CASE GoalResponse
  BY <1>3, CallbacksKeep
<1>4. CASE \E r \in RequestIds : ResultResponse(r) \/ OnGoalTimeout(r)
  BY <1>4, CallbacksKeep, GoalTimeoutKeeps
<1>5. CASE \E g \in 1 .. Len(goals) : HandleFeedbackMessage(g) \/ ServerDecides(g) \/ ServerFinishes(g)
  BY <1>5, CallbacksKeep, ServerKeeps
<1>6. CASE UNCHANGED goalVars
  BY <1>6 DEF goalVars, history, ControlInv, GoalsTypeOK, HeldIsReady, ResponseIsLast, SessionsDecided, GoalsTracked,
     WaitingHasClients, Sessions
<1> QED
  BY <1>1, <1>2, <1>3, <1>4, <1>5, <1>6 DEF GoalsNext

-------------------------------------------------------------------------------
\* The count of goals by id.
One(b) == IF b THEN 1 ELSE 0

LEMMA OutstandingShape ==
  ASSUME NEW r
  PROVE  /\ Outstanding(r) = Count(goal_queue, r) + One(Holding(r)) + One(r \in Sessions)
         /\ Outstanding(r)' = Count(goal_queue', r) + One(Holding(r)') + One(r \in Sessions')
BY DEF Outstanding, Queued, Count, One

LEMMA OutstandingType ==
  ASSUME GoalsTypeOK, NEW r
  PROVE  Outstanding(r) \in Nat /\ Count(goal_queue, r) \in Nat
<1>1. Count(goal_queue, r) \in Nat
  BY CountType DEF GoalsTypeOK
<1> QED
  BY <1>1, OutstandingShape DEF One

\* A step of the node takes the goals of S off with a result each, and those of
\* D in favour of others.
Settles(S, D) ==
  /\ S \subseteq RequestIds /\ D \subseteq RequestIds
  /\ \A r \in S : Outstanding(r) > 0
  /\ \A r \in D : Outstanding(r) > 1
  /\ \A r \in RequestIds : Outstanding(r)' = Outstanding(r) - One(r \in S) - One(r \in D)
  /\ results' = [r \in RequestIds |-> results[r] + One(r \in S)]
  /\ fed' = [r \in RequestIds |-> fed[r] /\ r \notin S]
  /\ superseded' = [r \in RequestIds |-> superseded[r] + One(r \in D)]
  /\ asked' = asked

LEMMA ResultsSettle ==
  ASSUME GoalsTypeOK, NEW S \in SUBSET RequestIds, SendResults(S)
  PROVE  /\ results' = [r \in RequestIds |-> results[r] + One(r \in S)]
         /\ fed' = [r \in RequestIds |-> fed[r] /\ r \notin S]
<1>1. \A r \in RequestIds : results[r] + 0 = results[r]
  BY DEF GoalsTypeOK
<1> QED
  BY <1>1 DEF SendResults, One

LEMMA NoResultSettles ==
  ASSUME GoalsTypeOK, NoResult
  PROVE  /\ results' = [r \in RequestIds |-> results[r] + One(r \in {})]
         /\ fed' = [r \in RequestIds |-> fed[r] /\ r \notin {}]
<1>1. results' = [r \in RequestIds |-> results[r] + One(r \in {})]
  BY DEF GoalsTypeOK, NoResult, One
<1>2. fed' = [r \in RequestIds |-> fed[r] /\ r \notin {}]
  <2>1. fed \in [RequestIds -> BOOLEAN] /\ fed' = fed
    BY DEF GoalsTypeOK, NoResult
  <2>2. \A r \in RequestIds : fed[r] = (fed[r] /\ r \notin {})
    BY <2>1
  <2> QED
    BY <2>1, <2>2
<1> QED
  BY <1>1, <1>2

LEMMA NothingSuperseded ==
  ASSUME GoalsTypeOK, UNCHANGED superseded
  PROVE  superseded' = [r \in RequestIds |-> superseded[r] + One(r \in {})]
BY DEF GoalsTypeOK, One

\* Taking a command: it is answered, or the poll holds it from now on; its old
\* session made way for it unless it is invalid.
LEMMA DispatchSettles ==
  ASSUME ControlInv, DispatchSendGoal
  PROVE  \E S, D \in SUBSET RequestIds : Settles(S, D)
<1> DEFINE cmd == Head(goal_queue)
           id  == cmd.request_id
           old == Sessions \cap {id}
<1>1. /\ GoalsTypeOK /\ cmd \in Commands /\ goal_queue \in Seq(Commands) /\ goal_queue # <<>>
      /\ goal_queue' = Tail(goal_queue) /\ poll.at = "drain" /\ asked' = asked
  BY CountHead DEF DispatchSendGoal, ControlInv, GoalsTypeOK
<1>2. id \in RequestIds /\ \A r : ~Holding(r)
  BY <1>1, CommandType DEF Holding
<1>3. \A r : Count(goal_queue, r) = Count(goal_queue', r) + One(r = id) /\ Count(goal_queue', r) \in Nat
  BY <1>1, CountTail, CountHead, CountType DEF One
<1>4. CASE /\ SendResults({id})
           /\ UNCHANGED <<poll, goal_sessions, generic_action_clients, superseded, abandoned>>
  <2>1. \A r : ~Holding(r)' /\ (r \in Sessions' <=> r \in Sessions)
    BY <1>2, <1>4 DEF Holding, Sessions
  <2>2. \A r \in RequestIds : /\ Outstanding(r)' = Outstanding(r) - One(r \in {id}) - One(r \in {})
                              /\ r = id => Outstanding(r) > 0
    BY <1>2, <1>3, <2>1, OutstandingShape DEF One
  <2>3. {id} \in SUBSET RequestIds /\ {} \in SUBSET RequestIds /\ UNCHANGED superseded /\ SendResults({id})
    BY <1>2, <1>4
  <2> HIDE DEF cmd
  <2>4. Settles({id}, {})
    BY <1>1, <2>2, <2>3, ResultsSettle, NothingSuperseded DEF Settles
  <2> QED
    BY <2>3, <2>4
<1>5. ASSUME /\ goal_sessions' = RemoveSessions(old)
             /\ superseded' = [r \in RequestIds |-> superseded[r] + Cardinality(old \cap {r})]
      PROVE  /\ Sessions' = Sessions \ {id}
             /\ superseded' = [r \in RequestIds |-> superseded[r] + One(r \in old)]
  <2>1. Sessions' = Sessions \ {id}
    BY <1>5 DEF RemoveSessions, Sessions
  <2>2. \A r : Cardinality(old \cap {r}) = One(r \in old)
    <3> SUFFICES ASSUME NEW r PROVE Cardinality(old \cap {r}) = One(r \in old)
      OBVIOUS
    <3> HIDE DEF old
    <3>1. CASE r \in old
      <4>1. old \cap {r} = {r}
        BY <3>1
      <4> QED
        BY <3>1, <4>1, FS_Singleton DEF One
    <3>2. CASE r \notin old
      <4>1. old \cap {r} = {}
        BY <3>2
      <4> QED
        BY <3>2, <4>1, FS_EmptySet DEF One
    <3> QED
      BY <3>1, <3>2
  <2> HIDE DEF old
  <2> QED
    BY <1>5, <2>1, <2>2
<1>6. CASE /\ goal_sessions' = RemoveSessions(old)
           /\ superseded' = [r \in RequestIds |-> superseded[r] + Cardinality(old \cap {r})]
           /\ SendResults({id})
           /\ UNCHANGED poll
  <2>1. \A r : ~Holding(r)'
    BY <1>2, <1>6 DEF Holding
  <2>2. \A r \in RequestIds : /\ Outstanding(r)' = Outstanding(r) - One(r \in {id}) - One(r \in old)
                              /\ r = id => Outstanding(r) > 0
                              /\ r \in old => Outstanding(r) > 1
    BY <1>2, <1>3, <1>5, <1>6, <2>1, OutstandingShape DEF One
  <2>3. old \in SUBSET RequestIds /\ {id} \in SUBSET RequestIds
    BY <1>2
  <2> HIDE DEF old, cmd
  <2>4. Settles({id}, old)
    BY <1>1, <1>5, <1>6, <2>2, <2>3, ResultsSettle DEF Settles
  <2> QED
    BY <2>3, <2>4
<1>7. CASE /\ goal_sessions' = RemoveSessions(old)
           /\ superseded' = [r \in RequestIds |-> superseded[r] + Cardinality(old \cap {r})]
           /\ poll' = [at |-> "service", cmd |-> cmd]
           /\ NoResult
  <2>1. \A r : Holding(r)' <=> r = id
    BY <1>7 DEF Holding
  <2>2. \A r \in RequestIds : /\ Outstanding(r)' = Outstanding(r) - One(r \in {}) - One(r \in old)
                              /\ r \in old => Outstanding(r) > 1
    BY <1>2, <1>3, <1>5, <1>7, <2>1, OutstandingShape DEF One
  <2>3. old \in SUBSET RequestIds
    BY <1>2
  <2> HIDE DEF old, cmd
  <2>4. Settles({}, old)
    BY <1>1, <1>5, <1>7, <2>2, <2>3, NoResultSettles DEF Settles
  <2> QED
    BY <2>3, <2>4
<1> QED
  BY <1>4, <1>6, <1>7 DEF DispatchSendGoal

\* The waits of the poll end with a result, or turn the command into a session.
LEMMA WaitsSettle ==
  ASSUME ControlInv, ServiceUnavailable \/ SendGoal \/ ResponseTimeout \/ ResponseHandled
  PROVE  \E S, D \in SUBSET RequestIds : Settles(S, D)
<1> DEFINE id == poll.cmd.request_id
<1>1. /\ GoalsTypeOK /\ poll.at \in {"service", "response"}
      /\ UNCHANGED <<goal_queue, superseded, asked>>
  BY DEF ControlInv, ServiceUnavailable, SendGoal, ResponseTimeout, ResponseHandled
<1>2. id \in RequestIds /\ id \notin Sessions /\ (\A r : Holding(r) <=> r = id)
  BY <1>1, HeldType, CommandType DEF ControlInv, HeldIsReady, Holding
<1>3. \A r : Count(goal_queue', r) = Count(goal_queue, r) /\ Count(goal_queue, r) \in Nat
  BY <1>1, CountType DEF GoalsTypeOK
<1>4. superseded' = [r \in RequestIds |-> superseded[r] + One(r \in {})]
  BY <1>1, NothingSuperseded
<1>5. CASE SendResults({id}) /\ poll' = Draining /\ Sessions' = Sessions
  <2>1. \A r : ~Holding(r)'
    BY <1>5 DEF Holding, Draining
  <2>2. \A r \in RequestIds : /\ Outstanding(r)' = Outstanding(r) - One(r \in {id}) - One(r \in {})
                              /\ r = id => Outstanding(r) > 0
    BY <1>2, <1>3, <1>5, <2>1, OutstandingShape DEF One
  <2>3. {id} \in SUBSET RequestIds
    BY <1>2
  <2> HIDE DEF id
  <2>4. Settles({id}, {})
    BY <1>1, <1>4, <1>5, <2>2, <2>3, ResultsSettle DEF Settles
  <2> QED
    BY <2>3, <2>4
<1>6. CASE /\ NoResult
           /\ \/ (\A r : Holding(r)' <=> r = id) /\ Sessions' = Sessions
              \/ (\A r : ~Holding(r)') /\ Sessions' = Sessions \cup {id}
  <2>1. \A r \in RequestIds : Outstanding(r)' = Outstanding(r) - One(r \in {}) - One(r \in {})
    BY <1>2, <1>3, <1>6, OutstandingShape DEF One
  <2>2. Settles({}, {})
    BY <1>1, <1>4, <1>6, <2>1, NoResultSettles DEF Settles
  <2> QED
    BY <2>2
<1>7. CASE ServiceUnavailable
  BY <1>5, <1>7, ServiceUnavailableKeeps DEF ServiceUnavailable
<1>8. CASE SendGoal
  <2>1. Sessions' = Sessions
    BY <1>8 DEF SendGoal, Sessions
  <2> QED
    BY <1>5, <1>6, <1>8, <2>1 DEF SendGoal, Holding
<1>9. CASE ResponseTimeout
  BY <1>5, <1>9 DEF ResponseTimeout, Sessions
<1>10. CASE ResponseHandled
  <2>1. CASE SendResults({id}) /\ UNCHANGED goal_sessions
    BY <1>5, <1>10, <2>1 DEF ResponseHandled, Sessions
  <2>2. CASE /\ NoResult
             /\ goal_sessions' = [goal_sessions EXCEPT ![id] =
                  [uuid |-> Len(goals), cmd |-> poll.cmd, result |-> "waiting"]]
    <3>1. \A r : ~Holding(r)'
      BY <1>10 DEF ResponseHandled, Holding, Draining
    <3>2. Sessions' = Sessions \cup {id}
      <4>1. Len(goals) # 0
        BY <1>10 DEF ResponseHandled, ControlInv, GoalsTypeOK, ResponseIsLast
      <4> QED
        BY <1>2, <2>2, <4>1 DEF ControlInv, GoalsTypeOK, Sessions, NoSession
    <3> QED
      BY <1>6, <2>2, <3>1, <3>2
  <2> QED
    BY <1>10, <2>1, <2>2 DEF ResponseHandled
<1> QED
  BY <1>7, <1>8, <1>9, <1>10

\* Sessions end with their result, found ready or given at their timeout.
LEMMA SessionsSettle ==
  ASSUME ControlInv, CheckGetResultFutures \/ \E r \in RequestIds : OnGoalTimeout(r)
  PROVE  \E S, D \in SUBSET RequestIds : Settles(S, D)
<1>1. GoalsTypeOK /\ UNCHANGED <<goal_queue, superseded, asked>>
  BY DEF ControlInv, CheckGetResultFutures, OnGoalTimeout
<1>2. PICK S \in SUBSET Sessions : SendResults(S) /\ goal_sessions' = RemoveSessions(S)
  BY DEF CheckGetResultFutures, OnGoalTimeout
<1>3. \A r : Holding(r)' <=> Holding(r)
  <2>1. CASE CheckGetResultFutures
    <3>1. poll.at = "drain" /\ poll'.at = "idle"
      BY <2>1 DEF CheckGetResultFutures, Idle
    <3> QED
      BY <3>1 DEF Holding
  <2>2. CASE UNCHANGED poll
    BY <2>2 DEF Holding
  <2> QED
    BY <2>1, <2>2 DEF OnGoalTimeout
<1>4. Sessions' = Sessions \ S /\ S \in SUBSET RequestIds
  BY <1>2 DEF RemoveSessions, Sessions
<1>5. \A r : Count(goal_queue', r) = Count(goal_queue, r) /\ Count(goal_queue, r) \in Nat
  BY <1>1, CountType DEF GoalsTypeOK
<1>6. \A r \in RequestIds : /\ Outstanding(r)' = Outstanding(r) - One(r \in S) - One(r \in {})
                            /\ r \in S => Outstanding(r) > 0
  BY <1>2, <1>3, <1>4, <1>5, OutstandingShape DEF One
<1>7. Settles(S, {})
  BY <1>1, <1>2, <1>4, <1>6, ResultsSettle, NothingSuperseded DEF Settles
<1> QED
  BY <1>4, <1>7

\* The other steps have no part in the count.
LEMMA OthersSettle ==
  ASSUME ControlInv,
         \/ OnPollTimer \/ GoalResponse
         \/ \E r \in RequestIds : ResultResponse(r)
         \/ \E g \in 1 .. Len(goals) : ServerDecides(g) \/ ServerFinishes(g)
         \/ UNCHANGED goalVars
  PROVE  \E S, D \in SUBSET RequestIds : Settles(S, D)
<1>1. GoalsTypeOK /\ UNCHANGED <<goal_queue, superseded, asked>> /\ NoResult
  BY DEF ControlInv, OnPollTimer, GoalResponse, ResultResponse, ServerDecides, ServerFinishes, goalVars, history, NoResult
<1>2. \A r : Holding(r)' <=> Holding(r)
  BY DEF OnPollTimer, GoalResponse, ResultResponse, ServerDecides, ServerFinishes, goalVars, Holding, Idle, Draining
<1>3. Sessions' = Sessions
  <2>1. CASE GoalResponse \/ \E r \in RequestIds : ResultResponse(r)
    BY <2>1, CallbacksKeep
  <2>2. CASE UNCHANGED goal_sessions
    BY <2>2 DEF Sessions
  <2> QED
    BY <2>1, <2>2 DEF OnPollTimer, ServerDecides, ServerFinishes, goalVars
<1>4. \A r : Count(goal_queue', r) = Count(goal_queue, r) /\ Count(goal_queue, r) \in Nat
  BY <1>1, CountType DEF GoalsTypeOK
<1>5. \A r \in RequestIds : Outstanding(r)' = Outstanding(r) - One(r \in {}) - One(r \in {})
  BY <1>2, <1>3, <1>4, OutstandingShape DEF One
<1>6. Settles({}, {})
  BY <1>1, <1>5, NoResultSettles, NothingSuperseded DEF Settles
<1> QED
  BY <1>6

\* A command that comes in is one more goal of its id.
LEMMA ReceiveAsks ==
  ASSUME ControlInv, NEW cmd \in Commands, Receive(cmd)
  PROVE  /\ cmd.request_id \in RequestIds
         /\ \A r \in RequestIds : Outstanding(r)' = Outstanding(r) + One(r = cmd.request_id)
         /\ asked' = [asked EXCEPT ![cmd.request_id] = @ + 1]
         /\ UNCHANGED <<results, fed, superseded>>
<1>1. \A r : (Holding(r)' <=> Holding(r)) /\ (r \in Sessions' <=> r \in Sessions)
  BY DEF Receive, Holding, Sessions
<1>2. \A r : Count(goal_queue', r) = Count(goal_queue, r) + One(r = cmd.request_id) /\ Count(goal_queue, r) \in Nat
  BY CountAppend, CountType DEF Receive, ControlInv, GoalsTypeOK, One
<1>3. \A r \in RequestIds : Outstanding(r)' = Outstanding(r) + One(r = cmd.request_id)
  BY <1>1, <1>2, OutstandingShape DEF One
<1> QED
  BY <1>3, CommandType DEF Receive

\* Feedback goes to a goal that is outstanding.
LEMMA FeedbackHeard ==
  ASSUME ControlInv, NEW g \in 1 .. Len(goals), HandleFeedbackMessage(g)
  PROVE  /\ \A r \in RequestIds : Outstanding(r)' = Outstanding(r)
         /\ UNCHANGED <<asked, results, superseded>>
         /\ \E r \in RequestIds : Outstanding(r) > 0 /\ fed' = [fed EXCEPT ![r] = TRUE]
<1>1. UNCHANGED <<goal_queue, poll, goal_sessions, asked, results, superseded>>
  BY DEF HandleFeedbackMessage
<1>2. PICK r \in Sessions : fed' = [fed EXCEPT ![r] = TRUE]
  BY DEF HandleFeedbackMessage
<1>3. \A q : Count(goal_queue, q) \in Nat
  BY CountType DEF ControlInv, GoalsTypeOK
<1>4. r \in RequestIds /\ Outstanding(r) > 0
  <2>1. Outstanding(r) = Count(goal_queue, r) + One(Holding(r)) + One(r \in Sessions)
    BY OutstandingShape
  <2> QED
    BY <1>2, <1>3, <2>1 DEF One, Sessions
<1>5. \A q \in RequestIds : Outstanding(q)' = Outstanding(q)
  BY <1>1 DEF Outstanding, Queued, Holding, Sessions
<1> QED
  BY <1>1, <1>2, <1>4, <1>5

\* Every step asks for a goal, gives feedback, or settles some.
LEMMA StepsAccount ==
  ASSUME ControlInv, [GoalsNext]_goalVars
  PROVE  \/ \E cmd \in Commands : Receive(cmd)
         \/ \E g \in 1 .. Len(goals) : HandleFeedbackMessage(g)
         \/ \E S, D \in SUBSET RequestIds : Settles(S, D)
<1>1. CASE PollStep
  BY <1>1, DispatchSettles, WaitsSettle, SessionsSettle, OthersSettle DEF PollStep
<1>2. CASE GoalResponse \/ UNCHANGED goalVars
  BY <1>2, OthersSettle
<1>3. CASE \E r \in RequestIds : ResultResponse(r) \/ OnGoalTimeout(r)
  BY <1>3, SessionsSettle, OthersSettle
<1>4. CASE \E g \in 1 .. Len(goals) : ServerDecides(g) \/ ServerFinishes(g)
  BY <1>4, OthersSettle
<1> QED
  BY <1>1, <1>2, <1>3, <1>4 DEF GoalsNext

-------------------------------------------------------------------------------
\* Where every step leads keeps the count.
LEMMA AccountStep ==
  ASSUME ControlInv, GoalAccount, [GoalsNext]_goalVars
  PROVE  GoalAccount'
<1> SUFFICES ASSUME NEW r \in RequestIds
             PROVE  asked'[r] = results'[r] + superseded'[r] + Outstanding(r)'
  BY DEF GoalAccount
<1>1. /\ asked[r] = results[r] + superseded[r] + Outstanding(r)
      /\ asked \in [RequestIds -> Nat] /\ results[r] \in Nat /\ superseded[r] \in Nat /\ Outstanding(r) \in Nat
  BY OutstandingType DEF ControlInv, GoalsTypeOK, GoalAccount
<1>2. ASSUME NEW cmd \in Commands, Receive(cmd)
      PROVE  asked'[r] = results'[r] + superseded'[r] + Outstanding(r)'
  <2>1. asked'[r] = asked[r] + One(r = cmd.request_id)
    BY <1>1, <1>2, ReceiveAsks DEF One
  <2>2. /\ Outstanding(r)' = Outstanding(r) + One(r = cmd.request_id)
        /\ results'[r] = results[r] /\ superseded'[r] = superseded[r]
    BY <1>2, ReceiveAsks
  <2> QED
    BY <1>1, <2>1, <2>2 DEF One
<1>3. ASSUME NEW g \in 1 .. Len(goals), HandleFeedbackMessage(g)
      PROVE  asked'[r] = results'[r] + superseded'[r] + Outstanding(r)'
  BY <1>1, <1>3, FeedbackHeard
<1>4. ASSUME NEW S, NEW D, Settles(S, D)
      PROVE  asked'[r] = results'[r] + superseded'[r] + Outstanding(r)'
  <2>1. /\ asked'[r] = asked[r] /\ results'[r] = results[r] + One(r \in S)
        /\ superseded'[r] = superseded[r] + One(r \in D)
        /\ Outstanding(r)' = Outstanding(r) - One(r \in S) - One(r \in D)
    BY <1>4 DEF Settles
  <2> QED
    BY <1>1, <2>1 DEF One
<1> QED
  BY <1>2, <1>3, <1>4, StepsAccount

LEMMA GoalsInit_Inv ==
  GoalsInit => GoalsInv
<1> SUFFICES ASSUME GoalsInit PROVE GoalsInv
  OBVIOUS
<1>1. ControlInv
  BY ControlInit
<1>2. ASSUME NEW r \in RequestIds
      PROVE  Outstanding(r) = 0
  <2>1. Queued(r) = 0
    <3>1. {i \in DOMAIN goal_queue : goal_queue[i].request_id = r} = {}
      BY DEF GoalsInit
    <3> QED
      BY <3>1, FS_EmptySet DEF Queued
  <2>2. ~Holding(r) /\ r \notin Sessions
    BY DEF GoalsInit, Holding, Sessions, Idle
  <2> QED
    BY <2>1, <2>2 DEF Outstanding
<1>3. GoalAccount
  BY <1>2 DEF GoalAccount, GoalsInit
<1> QED
  BY <1>1, <1>3 DEF GoalsInv

LEMMA GoalsInductive ==
  GoalsSpec => []GoalsInv
<1>1. GoalsInv /\ [GoalsNext]_goalVars => GoalsInv'
  BY ControlStep, AccountStep DEF GoalsInv
<1> QED
  BY <1>1, GoalsInit_Inv, PTL DEF GoalsSpec

-------------------------------------------------------------------------------
\* The commands, the sessions, the clients and the goals of the servers always
\* agree: each goal that a client asked for has one outcome (send_goal.cpp,
\* DispatchSendGoal, DispatchGenericGoal, CheckGetResultFutures), a goal a
\* server runs has a session or was knowingly given up, and a session that
\* waits has the clients its result comes through.
THEOREM GoalSafety == GoalsSpec => []GoalsConsistent
<1>1. GoalsInv => GoalsConsistent
  BY DEF GoalsInv, ControlInv, GoalsConsistent
<1> QED
  BY <1>1, GoalsInductive, PTL

\* The node implements GoalService: seen by request id, a step asks for a goal,
\* gives feedback to one that is open, or ends open goals with one result each,
\* and drops one without a result only for another with its id.
THEOREM GoalRefinement == GoalsSpec => GoalServiceSpec
<1> DEFINE open_ == [r \in RequestIds |-> Outstanding(r)]
<1>1. GoalsInit => Service!ServiceInit
  <2> SUFFICES ASSUME GoalsInit PROVE Service!ServiceInit
    OBVIOUS
  <2>1. GoalsInv /\ GoalAccount
    BY GoalsInit_Inv DEF GoalsInv
  <2>2. \A r \in RequestIds : Outstanding(r) = 0
    <3> SUFFICES ASSUME NEW r \in RequestIds PROVE Outstanding(r) = 0
      OBVIOUS
    <3>1. asked[r] = 0 /\ results[r] = 0 /\ superseded[r] = 0
      BY DEF GoalsInit
    <3>2. Outstanding(r) \in Nat
      BY <2>1, OutstandingType DEF GoalsInv, ControlInv
    <3> QED
      BY <2>1, <3>1, <3>2 DEF GoalAccount
  <2> QED
    BY <2>2 DEF Service!ServiceInit, GoalsInit
<1>2. GoalsInv /\ [GoalsNext]_goalVars => [Service!ServiceNext]_(Service!serviceVars)
  <2> SUFFICES ASSUME GoalsInv, [GoalsNext]_goalVars
               PROVE  Service!ServiceNext \/ UNCHANGED Service!serviceVars
    OBVIOUS
  <2>1. ControlInv
    BY DEF GoalsInv
  <2>2. ASSUME NEW cmd \in Commands, Receive(cmd)
        PROVE  Service!Ask(cmd.request_id) /\ cmd.request_id \in RequestIds
    <3>1. cmd.request_id \in RequestIds /\ UNCHANGED <<results, fed>>
      BY <2>1, <2>2, ReceiveAsks
    <3>2. \A r \in RequestIds : Outstanding(r)' = IF r = cmd.request_id THEN Outstanding(r) + 1 ELSE Outstanding(r)
      BY <2>1, <2>2, ReceiveAsks, OutstandingType DEF One, ControlInv
    <3>3. open_' = [open_ EXCEPT ![cmd.request_id] = @ + 1]
      BY <3>1, <3>2
    <3> QED
      BY <3>1, <3>3 DEF Service!Ask
  <2>3. ASSUME NEW g \in 1 .. Len(goals), HandleFeedbackMessage(g)
        PROVE  \E r \in RequestIds : Service!GiveFeedback(r)
    <3>1. /\ \A r \in RequestIds : Outstanding(r)' = Outstanding(r)
          /\ UNCHANGED results
      BY <2>1, <2>3, FeedbackHeard
    <3>2. PICK r \in RequestIds : Outstanding(r) > 0 /\ fed' = [fed EXCEPT ![r] = TRUE]
      BY <2>1, <2>3, FeedbackHeard
    <3>3. open_' = open_ /\ open_[r] > 0
      BY <3>1, <3>2
    <3> QED
      BY <3>1, <3>2, <3>3 DEF Service!GiveFeedback
  <2>4. ASSUME NEW S \in SUBSET RequestIds, NEW D \in SUBSET RequestIds, Settles(S, D)
        PROVE  Service!Settle(S, D)
    <3>1. (\A r \in S : open_[r] > 0) /\ (\A r \in D : open_[r] > 1)
      BY <2>4 DEF Settles
    <3>2. \A r \in RequestIds :
            Outstanding(r)' = Outstanding(r) - (IF r \in S THEN 1 ELSE 0) - (IF r \in D THEN 1 ELSE 0)
      BY <2>4 DEF Settles, One
    <3>3. open_' = [r \in RequestIds |-> open_[r] - (IF r \in S THEN 1 ELSE 0) - (IF r \in D THEN 1 ELSE 0)]
      BY <3>2
    <3>4. results' = [r \in RequestIds |-> IF r \in S THEN results[r] + 1 ELSE results[r]]
      BY <2>1, <2>4 DEF Settles, One, ControlInv, GoalsTypeOK
    <3>5. fed' = [r \in RequestIds |-> fed[r] /\ r \notin S]
      BY <2>4 DEF Settles
    <3> QED
      BY <3>1, <3>3, <3>4, <3>5 DEF Service!Settle
  <2> QED
    BY <2>1, <2>2, <2>3, <2>4, StepsAccount DEF Service!ServiceNext
<1> QED
  BY <1>1, <1>2, GoalsInductive, PTL DEF GoalsSpec, GoalServiceSpec, Service!ServiceSpec

===============================================================================

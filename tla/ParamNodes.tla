------------------------------- MODULE ParamNodes ------------------------------
(***************************************************************************)
(* The six nodes for parameters (nodes/ros/param/): each takes the         *)
(* commands of its kind and serves them one after the other with           *)
(* synchronous calls to the parameter services of another node, which may  *)
(* come, go and change in between.  A call that gets no answer in time     *)
(* throws or gives an empty result; the other node may still carry it out. *)
(* All run on the one executor thread, so a call holds up every other.     *)
(***************************************************************************)
EXTENDS Integers, Sequences, FiniteSets

CONSTANTS
  ParamKinds,        \* of "list", "get", "set", "describe", "dump", "load"
  Params,
  ParamTasks,        \* the commands used: [kind, valid, parses, types, params]
  NoParamTask,
  MaxParamTasks      \* bound: commands

ASSUME ParamAssumption ==
  /\ ParamKinds \subseteq {"list", "get", "set", "describe", "dump", "load"}
  /\ ParamTasks \subseteq [kind : ParamKinds, valid : BOOLEAN, parses : BOOLEAN, types : BOOLEAN, params : SUBSET Params]
  /\ MaxParamTasks \in Nat

VARIABLES
  param_queue,  \* kind -> waiting commands
  executor,     \* what the executor thread does: [step, kind, cmd, names]
  parameter_clients_, \* whether ParamLoadNode keeps a client of the other node
  services_up,
  declared,     \* the parameters the other node has
  late,         \* set calls it may yet carry out, whose answer nobody waits for
  applied,      \* history: requests whose parameters it has set
  arrived,      \* history: number of commands
  param_answers \* history: what was sent, a sequence

worldVars == <<services_up, declared, late, applied>>
param_vars == <<param_queue, executor, parameter_clients_, worldVars, arrived, param_answers>>

ParamIdle == [step |-> "idle", kind |-> "none", cmd |-> NoParamTask, names |-> {}]
Draining(kind) == [step |-> "drain", kind |-> kind, cmd |-> NoParamTask, names |-> {}]

ParamInit ==
  /\ param_queue = [k \in ParamKinds |-> <<>>]
  /\ executor = ParamIdle
  /\ parameter_clients_ = FALSE
  /\ services_up = FALSE
  /\ declared = {}
  /\ late = {} /\ applied = {}
  /\ arrived = 0
  /\ param_answers = <<>>

-----------------------------------------------------------------------------
\* The other node, and those that send commands.
ReceiveParamTask(task) ==
  /\ arrived < MaxParamTasks
  /\ arrived' = arrived + 1
  /\ param_queue' = [param_queue EXCEPT ![task.kind] = Append(@, [request |-> arrived + 1, task |-> task])]
  /\ UNCHANGED <<executor, parameter_clients_, worldVars, param_answers>>

NodeComesOrGoes ==
  /\ services_up' = ~services_up
  /\ UNCHANGED <<param_queue, executor, parameter_clients_, declared, late, applied, arrived, param_answers>>

NodeDeclares(p) ==
  /\ declared' = IF p \in declared THEN declared \ {p} ELSE declared \cup {p}
  /\ UNCHANGED <<param_queue, executor, parameter_clients_, services_up, late, applied, arrived, param_answers>>

NodeIsLate(r) ==
  /\ r \in late
  /\ late' = late \ {r}
  /\ applied' = applied \cup {r}
  /\ UNCHANGED <<param_queue, executor, parameter_clients_, services_up, declared, arrived, param_answers>>

-----------------------------------------------------------------------------
\* The command is finished with an answer, and the drain goes on.
AnswerParam(cmd, ok, found, names) ==
  /\ param_answers' = Append(param_answers, [request |-> cmd.request, kind |-> cmd.task.kind, ok |-> ok, found |-> found, names |-> names])
  /\ executor' = Draining(cmd.task.kind)

SendParamError(cmd) == AnswerParam(cmd, FALSE, FALSE, {})
RespondParam(cmd, found, names) == AnswerParam(cmd, TRUE, found, names)

GoOn(step, names) ==
  /\ executor' = [executor EXCEPT !.step = step, !.names = names]
  /\ UNCHANGED param_answers

OnParamTimer(kind) ==
  /\ executor = ParamIdle
  /\ executor' = Draining(kind)
  /\ UNCHANGED <<param_queue, parameter_clients_, worldVars, arrived, param_answers>>

RefuseInvalid(cmd) == SendParamError(cmd)

\* The loop of the drains, up to the call that waits for the services.
Dequeue(kind) ==
  /\ executor = Draining(kind)
  /\ IF param_queue[kind] = <<>> THEN executor' = ParamIdle /\ UNCHANGED <<param_queue, param_answers>>
     ELSE LET cmd == Head(param_queue[kind])
          IN /\ param_queue' = [param_queue EXCEPT ![kind] = Tail(@)]
             /\ IF cmd.task.valid
                THEN executor' = [step |-> "wait", kind |-> kind, cmd |-> cmd, names |-> {}] /\ UNCHANGED param_answers
                ELSE RefuseInvalid(cmd)
  /\ UNCHANGED <<parameter_clients_, worldVars, arrived>>

FirstCall(kind) == IF kind \in {"list", "dump"} THEN "list" ELSE kind

\* ParamLoadNode keeps the client unless the services do not come; the others
\* make one for each command.
WaitForService ==
  /\ executor.step = "wait"
  /\ \/ services_up /\ GoOn(FirstCall(executor.kind), {})
     \/ ~services_up /\ SendParamError(executor.cmd)
  /\ parameter_clients_' = IF executor.kind = "load" THEN services_up ELSE parameter_clients_
  /\ UNCHANGED <<param_queue, worldVars, arrived>>

Called(step) ==
  /\ executor.step = step
  /\ UNCHANGED <<param_queue, parameter_clients_, services_up, declared, arrived>>

\* A call that is not answered in time throws when it lists.
ListParameters ==
  LET cmd == executor.cmd
  IN /\ Called("list")
     /\ \/ SendParamError(cmd)
        \/ /\ services_up
           /\ IF executor.kind = "dump"
              THEN IF declared = {} THEN RespondParam(cmd, TRUE, {}) ELSE GoOn("getAll", declared)
              ELSE IF ~cmd.task.parses THEN SendParamError(cmd)  \* the filter is no regular expression
              ELSE IF cmd.task.types /\ declared # {} THEN GoOn("types", declared)
              ELSE RespondParam(cmd, TRUE, declared)
     /\ UNCHANGED <<late, applied>>

\* The types, which are none if there is no answer.
GetParameterTypes ==
  /\ Called("types")
  /\ \/ RespondParam(executor.cmd, TRUE, executor.names)
     \/ SendParamError(executor.cmd)
  /\ UNCHANGED <<late, applied>>

\* The values of the names listed before, without those gone by now; none if
\* there is no answer.
DumpParameters ==
  /\ Called("getAll")
  /\ \/ services_up /\ RespondParam(executor.cmd, TRUE, executor.names \cap declared)
     \/ RespondParam(executor.cmd, TRUE, {})
     \/ SendParamError(executor.cmd)
  /\ UNCHANGED <<late, applied>>

\* Get and describe: not found also if there is no answer.
ReadParameter(step) ==
  LET cmd == executor.cmd
  IN /\ Called(step)
     /\ \/ services_up /\ RespondParam(cmd, cmd.task.params \subseteq declared, cmd.task.params \cap declared)
        \/ RespondParam(cmd, FALSE, {})
        \/ SendParamError(cmd)
     /\ UNCHANGED <<late, applied>>

\* Mutant: no result at all counts as success, as in LoadResult.
SetResultUnlessRefused(successful, empty) == RespondParam(executor.cmd, successful \/ empty, {})

\* The first result decides; if there is none it is a failure.
SetResult(successful, empty) == RespondParam(executor.cmd, successful, {})

\* All of the results, of which there may be none, have to be successes.
LoadResult(successful, empty) == RespondParam(executor.cmd, successful \/ empty, executor.cmd.task.params)

Result(successful, empty) ==
  IF executor.kind = "set" THEN SetResult(successful, empty) ELSE LoadResult(successful, empty)

\* set_parameters: the other node sets them, or refuses some, and answers; or
\* it does not answer in time, and sets them soon, later or never.
CallSetParameters ==
  LET r == executor.cmd.request
  IN \/ services_up /\ applied' = applied \cup {r} /\ Result(TRUE, FALSE) /\ UNCHANGED late
     \/ services_up /\ Result(FALSE, FALSE) /\ UNCHANGED <<late, applied>>
     \/ /\ Result(FALSE, TRUE) \/ SendParamError(executor.cmd)
        /\ \/ applied' = applied \cup {r} /\ UNCHANGED late
           \/ late' = late \cup {r} /\ UNCHANGED applied
           \/ UNCHANGED <<late, applied>>

SetParameter == Called("set") /\ CallSetParameters

LoadParameters ==
  LET cmd == executor.cmd
  IN /\ Called("load")
     /\ IF ~cmd.task.parses THEN SendParamError(cmd) /\ UNCHANGED <<late, applied>>
        ELSE IF cmd.task.params = {} THEN RespondParam(cmd, TRUE, {}) /\ UNCHANGED <<late, applied>>
        ELSE CallSetParameters

ParamStep ==
  \/ \E k \in ParamKinds : Dequeue(k)
  \/ WaitForService \/ ListParameters \/ GetParameterTypes \/ DumpParameters
  \/ ReadParameter("get") \/ ReadParameter("describe")
  \/ SetParameter \/ LoadParameters

ParamNext ==
  \/ \E task \in ParamTasks : ReceiveParamTask(task)
  \/ NodeComesOrGoes
  \/ \E p \in Params : NodeDeclares(p)
  \/ \E r \in late : NodeIsLate(r)
  \/ \E k \in ParamKinds : OnParamTimer(k)
  \/ ParamStep

ParamSpec ==
  /\ ParamInit /\ [][ParamNext]_param_vars
  /\ WF_param_vars(ParamStep) /\ \A k \in ParamKinds : SF_param_vars(OnParamTimer(k))

-----------------------------------------------------------------------------
ParamCommands == [request : 1 .. MaxParamTasks, task : ParamTasks]
StepsOf(kind) ==
  {"wait", FirstCall(kind)} \cup (IF kind = "list" THEN {"types"} ELSE IF kind = "dump" THEN {"getAll"} ELSE {})
Resting == executor = ParamIdle \/ \E k \in ParamKinds : executor = Draining(k)
Serving ==
  \E k \in ParamKinds : \E step \in StepsOf(k), cmd \in ParamCommands, names \in SUBSET Params :
    /\ executor = [step |-> step, kind |-> k, cmd |-> cmd, names |-> names]
    /\ cmd.task.kind = k

ParamTypeOK ==
  /\ param_queue \in [ParamKinds -> Seq(ParamCommands)]
  /\ Resting \/ Serving
  /\ parameter_clients_ \in BOOLEAN /\ services_up \in BOOLEAN
  /\ declared \in SUBSET Params
  /\ arrived \in 0 .. MaxParamTasks
  /\ late \in SUBSET (1 .. arrived) /\ applied \in SUBSET (1 .. arrived)
  /\ param_answers \in
       Seq([request : 1 .. MaxParamTasks, kind : ParamKinds, ok : BOOLEAN, found : BOOLEAN, names : SUBSET Params])

Sent == {param_answers[i].request : i \in DOMAIN param_answers}
Waiting == UNION {{param_queue[k][i].request : i \in DOMAIN param_queue[k]} : k \in ParamKinds}

\* Every command is answered with one response or one error, whatever fails on
\* the way.
AnsweredOnce ==
  /\ \A i, j \in DOMAIN param_answers : param_answers[i].request = param_answers[j].request => i = j
  /\ Sent \subseteq 1 .. arrived

\* No command is lost: while the executor serves none, each one that came waits
\* in its queue or was answered.
NoneForgotten == Resting => Sent \cup Waiting = 1 .. arrived

\* A response that tells of success tells the truth: the other node has set it.
SetTells ==
  \A i \in DOMAIN param_answers :
    param_answers[i].kind = "set" /\ param_answers[i].found => param_answers[i].request \in applied

\* Every command is answered at most once and none is lost, and "successful" is
\* told only of what the other node has set.
ParamAnswersTell == ParamTypeOK /\ AnsweredOnce /\ NoneForgotten /\ SetTells

\* Every command is answered in the end, though each may wait for the others.
ParamSettled == Sent = 1 .. arrived

===============================================================================

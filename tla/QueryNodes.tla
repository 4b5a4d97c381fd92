------------------------------- MODULE QueryNodes ------------------------------
(***************************************************************************)
(* The nodes that answer a query with what they read of the ROS graph or   *)
(* of the installed interfaces: node, topic, service and action info,      *)
(* interface list and show.  Each drains its commands when its poll timer  *)
(* fires, one callback at a time, while the graph changes under it.  A     *)
(* name is a sequence of "/" and of pieces of text.                        *)
(***************************************************************************)
EXTENDS Integers, Sequences, SequencesExt, FiniteSets, FiniteSetsExt

CONSTANTS
  Asked,           \* the queries that may come: [kind, name, include_hidden]
  Nodes,           \* nodes of the ROS system: [name, namespace]
  Endpoints,       \* what they may have: [node, role, name, type]
  HiddenPieces,    \* pieces of text that begin with '_'
  Interfaces,      \* [package, line]: the lines of the rosidl_interfaces resources
  MaxGraphChanges, \* bound: changes of the graph
  MaxQuestions     \* bound: queries

VARIABLES
  discovered,      \* the nodes of the graph
  graph,           \* their endpoints
  changes,         \* number of changes so far
  queues,          \* of each kind, the commands that wait
  draining,        \* whose callback runs: a kind, "none", or "thrown" when one has thrown
  task,            \* the command being answered, and how far
  asked, answers,  \* history: number of queries; the answers of the last step
  answered,        \* history: ids of the answered queries
  stayed, passed   \* history: endpoints and nodes of the graph all the time, any time,
                   \* since the command was dequeued

graphVars == <<discovered, graph, changes>>
seenVars  == <<stayed, passed>>
query_vars == <<graphVars, queues, draining, task, asked, answers, answered, seenVars>>

Kinds   == {"node", "topic", "service", "action", "list", "show"}
NoTask  == [at |-> "none"]
Slash   == "/"

QueryInit ==
  /\ discovered = Nodes /\ graph \in {{}, Endpoints} /\ changes = 0
  /\ queues = [k \in Kinds |-> <<>>]
  /\ draining = "none" /\ task = NoTask
  /\ asked = 0 /\ answers = {} /\ answered = {}
  /\ stayed = {} /\ passed = {}

-----------------------------------------------------------------------------
(* graph_utils.                                                            *)
IsHiddenName(name) == \E i \in DOMAIN name : name[i] \in HiddenPieces

CleanNamespace(namespace) ==
  IF Len(namespace) > 1 /\ Last(namespace) = Slash THEN Front(namespace) ELSE namespace

\* The nodes a name may mean: one, or none if it is not a name of a node.
CanonicalizeNodeNameAndNamespace(full_name) ==
  LET name == IF Head(full_name) = Slash THEN full_name ELSE <<Slash>> \o full_name
      sep  == Max({i \in DOMAIN name : name[i] = Slash})
  IN  IF full_name = <<>> THEN {}
      ELSE IF sep = Len(name) THEN {}
      ELSE {[name |-> SubSeq(name, sep + 1, Len(name)), namespace |-> CleanNamespace(SubSeq(name, 1, sep))]}

BuildFullyQualifiedNodeName(node) ==
  LET pieces == {i \in DOMAIN node.name : node.name[i] # Slash}
      name   == IF pieces = {} THEN <<>> ELSE SubSeq(node.name, Min(pieces), Len(node.name))
      kept   == {i \in DOMAIN node.namespace : node.namespace[i] # Slash}
  IN  IF kept = {} THEN <<Slash>> \o name ELSE SubSeq(node.namespace, 1, Max(kept)) \o <<Slash>> \o name

KindName == [messages |-> <<"m", "s", "g">>, services |-> <<"s", "r", "v">>,
             actions  |-> <<"a", "c", "t", "i", "o", "n">>]

\* package/kind/name, with a kind there is.
ParseInterfaceType(type) ==
  {p \in [package : {SubSeq(type, 1, i) : i \in 0 .. Len(type)}, kind : {KindName[k] : k \in DOMAIN KindName},
          name : {SubSeq(type, i, Len(type)) : i \in 1 .. Len(type) + 1}] :
     /\ p.package # <<>> /\ p.name # <<>>
     /\ \A part \in {p.package, p.name} : \A i \in DOMAIN part : part[i] # Slash
     /\ type = p.package \o <<Slash>> \o p.kind \o <<Slash>> \o p.name}

ReadInterfaceDefinition(p) ==
  \E i \in Interfaces : i.package = p.package /\ i.line = p.kind \o <<Slash>> \o p.name \o <<".">> \o p.kind

\* The name of a line is cut at its end only, by both lengths: the prefix
\* stays and the name loses its last characters, so that it is not one of the
\* "fully qualified resource names (package/kind/name)" of graph_utils.hpp:183.
BuildTypeListFromResources(kind) ==
  LET prefix == kind \o <<Slash>>
      suffix == <<".">> \o kind
      Named(i) == IsPrefix(prefix, i.line) /\ IsSuffix(suffix, i.line) /\ Len(i.line) > Len(prefix) + Len(suffix)
      Cut(line) == SubSeq(line, 1, Len(line) - Len(suffix) - Len(prefix))
  IN  {i.package \o <<Slash>> \o prefix \o Cut(i.line) : i \in {j \in Interfaces : Named(j)}}

-----------------------------------------------------------------------------
(* The ROS graph and the queries.                                          *)
Roles == {"publisher", "subscriber", "service", "client"}

\* A name is a token; a namespace is absolute and has no empty token, as ROS
\* demands.
ValidNode(n) ==
  /\ n = [name |-> n.name, namespace |-> n.namespace]
  /\ n.name \in Seq(ToSet(n.name)) /\ n.name # <<>> /\ Slash \notin ToSet(n.name)
  /\ n.namespace \in Seq(ToSet(n.namespace)) /\ n.namespace # <<>> /\ n.namespace[1] = Slash
  /\ n.namespace = <<Slash>> \/ (Len(n.namespace) > 1 /\ n.namespace[2] # Slash /\ Last(n.namespace) # Slash)

ASSUME QueryAssumption ==
  /\ \A n \in Nodes : ValidNode(n)
  /\ \A e \in Endpoints : e.node \in Nodes /\ e.role \in Roles
  /\ Nodes \cap Endpoints = {}
  /\ \A q \in Asked : q.kind \in Kinds

GraphBecomes(nodes, endpoints) ==
  /\ changes < MaxGraphChanges
  /\ changes' = changes + 1
  /\ discovered' = nodes /\ graph' = endpoints
  /\ stayed' = stayed \cap (nodes \cup endpoints)
  /\ passed' = passed \cup nodes \cup endpoints
  /\ answers' = {}
  /\ UNCHANGED <<queues, draining, task, asked, answered>>

EndpointAppears == \E e \in Endpoints \ graph :
  e.node \in discovered /\ GraphBecomes(discovered, graph \cup {e})
EndpointVanishes == \E e \in graph : GraphBecomes(discovered, graph \ {e})
NodeLeaves == \E n \in discovered : GraphBecomes(discovered \ {n}, {e \in graph : e.node # n})

Ask == \E q \in Asked :
  /\ asked < MaxQuestions
  /\ asked' = asked + 1
  /\ queues' = [queues EXCEPT ![q.kind] = Append(@, [id |-> asked + 1, cmd |-> q])]
  /\ answers' = {}
  /\ UNCHANGED <<graphVars, draining, task, answered, seenVars>>

-----------------------------------------------------------------------------
(* The callbacks.                                                          *)
OnQueryTimer == \E k \in Kinds :
  /\ draining = "none" /\ queues[k] # <<>>
  /\ draining' = k
  /\ answers' = {}
  /\ UNCHANGED <<graphVars, queues, task, asked, answered, seenVars>>

Drained ==
  /\ draining \in Kinds /\ task = NoTask /\ queues[draining] = <<>>
  /\ draining' = "none"
  /\ answers' = {}
  /\ UNCHANGED <<graphVars, queues, task, asked, answered, seenVars>>

Becomes(t) == task' = t /\ answers' = {} /\ UNCHANGED answered

Respond(query, response) ==
  /\ task' = NoTask
  /\ answers' = {[query |-> query, response |-> response]}
  /\ answered' = answered \cup {query.id}

\* A command is dequeued; what is read of the graph from here on counts.
Take(k) ==
  /\ draining = k /\ task = NoTask /\ queues[k] # <<>>
  /\ queues' = [queues EXCEPT ![k] = Tail(@)]
  /\ stayed' = discovered \cup graph /\ passed' = discovered \cup graph
  /\ UNCHANGED <<graphVars, draining, asked>>

Having(role, name) == {e \in graph : e.role = role /\ e.name = name}

DrainInterfaceListCommands ==
  /\ Take("list")
  /\ Respond(Head(queues["list"]), [k \in DOMAIN KindName |-> BuildTypeListFromResources(KindName[k])])

DrainInterfaceShowCommands ==
  LET query == Head(queues["show"])
  IN  /\ Take("show")
      /\ Respond(query, [found |-> \E p \in ParseInterfaceType(query.cmd.name) : ReadInterfaceDefinition(p)])

FeedbackSuffixes == {"_FeedbackMessage", "_Feedback"}

\* The type of the action, or what is told where there is none: the type itself.
ActionTypeFromFeedbackType(type) == IF type.suffix \in FeedbackSuffixes THEN [type EXCEPT !.suffix = ""] ELSE type

DrainActionInfoCommands ==
  LET query    == Head(queues["action"])
      action   == query.cmd.name
      feedback == {e \in graph : e.role \in {"publisher", "subscriber"} /\ e.name = action \o <<"/_action/feedback">>}
  IN  /\ Take("action")
      /\ IF action = <<>> \/ (~query.cmd.include_hidden /\ IsHiddenName(action))
         THEN Respond(query, [types |-> {}, servers |-> 0])
         ELSE Respond(query, [types   |-> {ActionTypeFromFeedbackType(e.type) : e \in feedback},
                              servers |-> Cardinality(Having("service", action \o <<"/_action/send_goal">>))])

\* The two lists of a topic's or a service's answer.
ListRoles == [topic |-> <<"publisher", "subscriber">>, service |-> <<"service", "client">>]

\* Type and counts are read with the nodes to visit.
StartInfo == \E k \in DOMAIN ListRoles :
  /\ Take(k)
  /\ Becomes([at |-> "visit", query |-> Head(queues[k]), nodes |-> discovered, lists |-> <<{}, {}>>])

\* Mutant: both lists are filled from what the node offers.
NodeListsOfFirst(n, roles, name) ==
  [i \in 1 .. 2 |-> {BuildFullyQualifiedNodeName(e.node) : e \in {h \in Having(roles[1], name) : h.node = n}}]

NodeLists(n, roles, name) ==
  [i \in 1 .. 2 |-> {BuildFullyQualifiedNodeName(e.node) : e \in {h \in Having(roles[i], name) : h.node = n}}]

\* rclcpp throws for a node that has left since it was discovered; the
\* exception ends the executor and with it the program (SpinROS).
Throws == draining' = "thrown" /\ UNCHANGED <<task, answered>> /\ answers' = {}

DrainInfoCommands ==
  /\ draining \in DOMAIN ListRoles /\ task.at = "visit"
  /\ IF task.nodes = {}
     THEN Respond(task.query, [lists |-> task.lists]) /\ UNCHANGED draining
     ELSE \E n \in task.nodes :
            IF n \notin discovered THEN Throws
            ELSE LET found == NodeLists(n, ListRoles[draining], task.query.cmd.name)
                 IN  /\ Becomes([task EXCEPT !.nodes = @ \ {n}, !.lists = [i \in 1 .. 2 |-> @[i] \cup found[i]]])
                     /\ UNCHANGED draining
  /\ UNCHANGED <<graphVars, queues, asked, seenVars>>

\* Mutant: the loop goes on without an answer.
ForgetUnknown(query) == Becomes(NoTask)

RespondUnknown(query) == Respond(query, [found |-> FALSE])

StartNodeInfo ==
  LET query == Head(queues["node"])
      known == CanonicalizeNodeNameAndNamespace(query.cmd.name) \cap discovered
  IN  /\ Take("node")
      /\ IF known = {} THEN RespondUnknown(query)
         ELSE Becomes([at |-> "read", query |-> query, node |-> CHOOSE n \in known : TRUE,
                       roles |-> <<"publisher", "subscriber", "service", "client">>,
                       entries |-> [list \in {"publishers", "subscribers", "services"} |-> {}]])

\* The services a node offers and those it calls go into one list.
ListOf == [publisher |-> "publishers", subscriber |-> "subscribers", service |-> "services", client |-> "services"]

Shown(cmd, name) == cmd.include_hidden \/ ~IsHiddenName(name)

DrainNodeInfoCommands ==
  /\ draining = "node" /\ task.at = "read"
  /\ IF task.roles = <<>>
     THEN Respond(task.query, [found |-> TRUE, entries |-> task.entries]) /\ UNCHANGED draining
     ELSE IF task.node \notin discovered THEN Throws
     ELSE LET role == Head(task.roles)
              read == {e \in graph : e.node = task.node /\ e.role = role /\ Shown(task.query.cmd, e.name)}
          IN  /\ Becomes([task EXCEPT !.roles = Tail(@),
                            !.entries[ListOf[role]] = @ \cup {[name |-> e.name, type |-> e.type] : e \in read}])
              /\ UNCHANGED draining
  /\ UNCHANGED <<graphVars, queues, asked, seenVars>>

Callback ==
  \/ OnQueryTimer \/ Drained
  \/ DrainInterfaceListCommands \/ DrainInterfaceShowCommands \/ DrainActionInfoCommands
  \/ StartInfo \/ DrainInfoCommands \/ StartNodeInfo \/ DrainNodeInfoCommands

QueryNext == Ask \/ EndpointAppears \/ EndpointVanishes \/ NodeLeaves \/ Callback
QuerySpec == QueryInit /\ [][QueryNext]_query_vars /\ WF_query_vars(Callback)

-----------------------------------------------------------------------------
AnswersTo(kinds) == {a \in answers : a.query.cmd.kind \in kinds}

\* An answer is read piece by piece while the graph changes.  The nodes it
\* lists for a topic or a service include those that had it all the time, and
\* no node that never had it in that time (topic/info.cpp, service/info.cpp).
ListsTellTheGraph ==
  \A a \in AnswersTo(DOMAIN ListRoles) : \A i \in 1 .. 2 :
    LET Of(seen) == {BuildFullyQualifiedNodeName(e.node) : e \in {h \in seen \cap Endpoints :
                       h.role = ListRoles[a.query.cmd.kind][i] /\ h.name = a.query.cmd.name}}
    IN  Of(stayed) \subseteq a.response.lists[i] /\ a.response.lists[i] \subseteq Of(passed)

\* A node that is in the graph all the time is found under the name the lists
\* give it, with and without its leading slash, with all it had all the time;
\* what is found under a name belongs to the node of that name (node/info.cpp).
ListedNodesAreFound ==
  \A a \in AnswersTo({"node"}) : \A n \in Nodes :
    LET full == BuildFullyQualifiedNodeName(n)
        Has(seen, list) == {[name |-> e.name, type |-> e.type] : e \in {h \in seen \cap Endpoints :
                              h.node = n /\ ListOf[h.role] = list /\ Shown(a.query.cmd, h.name)}}
    IN  a.query.cmd.name \in {full, Tail(full)} =>
          /\ n \in stayed => a.response.found
          /\ a.response.found =>
               \A list \in DOMAIN a.response.entries :
                 /\ Has(stayed, list) \subseteq a.response.entries[list]
                 /\ a.response.entries[list] \subseteq Has(passed, list)

\* The action that a type of one of its services and topics is of.
ActionOf(type) == [type EXCEPT !.suffix = ""]

\* What the names of ROS mean: whoever has the feedback topic of an action has
\* it with the feedback type of the action's server.
FeedbackIsOfServer ==
  \A e \in Endpoints, q \in Asked :
    e.role \in {"publisher", "subscriber"} /\ e.name = q.name \o <<"/_action/feedback">> =>
      /\ e.type.suffix \in FeedbackSuffixes
      /\ \E h \in Endpoints : /\ h.role = "service" /\ h.name = q.name \o <<"/_action/send_goal">>
                              /\ ActionOf(h.type) = ActionOf(e.type)

\* The type told for an action is that of its server, which is read off the
\* type of its feedback (action/info.cpp:28-42).
ActionTypeIsServers ==
  \A a \in AnswersTo({"action"}) :
    a.response.types \subseteq {ActionOf(e.type) : e \in {h \in Endpoints :
      h.role = "service" /\ h.name = a.query.cmd.name \o <<"/_action/send_goal">>}}

\* Answers tell of the graph while they were put together, and a node is found
\* under the name the lists give it.
QueriesTell == ListsTellTheGraph /\ ListedNodesAreFound /\ ActionTypeIsServers

\* Every query is answered, unless a callback has thrown.
Settled == answered = 1 .. asked \/ draining = "thrown"

===============================================================================

-------------------------------- MODULE MCNodes --------------------------------
(***************************************************************************)
(* The nodes that observe the ROS system, and the texts they exchange, on  *)
(* small instances, one of them per behaviour: `focus' names it, the       *)
(* others stay as they began.                                              *)
(***************************************************************************)
EXTENDS MCTexts, TopicStats, GraphCache, ParamNodes, QueryNodes

CONSTANTS
  Foci,             \* the parts that are checked
  None

VARIABLES
  focus,
  \* ParamYaml
  doc, yaml_node, use_wildcard, parsed,
  \* IntrospectionCodec
  message_type, text, payload, json, again, cast_overflow

yaml_vars  == <<doc, yaml_node, use_wildcard, parsed>>
codec_vars == <<message_type, text, payload, json, again, cast_overflow>>
vars == <<focus, stats_vars, param_vars, yaml_vars, cache_vars, codec_vars, query_vars>>

Measure(mode, topic, type, window, wall) ==
  [mode |-> mode, topic |-> topic, type |-> type, window |-> window, wall_time |-> wall]
StatsModes == <<"hz", "bw", "delay">>
Measures ==
  {Measure("hz", "t", "none", 2, TRUE), Measure("hz", "t", "a", 1, FALSE), Measure("hz", "t", "none", 0, FALSE),
   Measure("bw", "t", "b", 2, TRUE), Measure("bw", "none", "none", 0, FALSE), Measure("delay", "t", "none", 2, FALSE)}

Task(kind, valid, parses, types, params) ==
  [kind |-> kind, valid |-> valid, parses |-> parses, types |-> types, params |-> params]
TasksOfClients ==
  {Task("list", TRUE, TRUE, TRUE, {}), Task("get", FALSE, TRUE, FALSE, {"p"}), Task("get", TRUE, TRUE, FALSE, {"p"}),
   Task("set", TRUE, TRUE, FALSE, {"p"}), Task("describe", TRUE, TRUE, FALSE, {"p"}), Task("dump", TRUE, TRUE, FALSE, {}),
   Task("load", TRUE, FALSE, FALSE, {}), Task("load", TRUE, TRUE, FALSE, {"p"})}
FairParam == INSTANCE ParamNodes WITH
  ParamKinds <- {"get", "set"}, ParamTasks <- {t \in TasksOfClients : t.kind \in {"get", "set"}}

Yaml == INSTANCE ParamYaml WITH
  Docs <- ParameterFiles, Names <- {[given |-> <<"/node">>, alternative |-> <<"node">>]}

Codec == INSTANCE IntrospectionCodec WITH
  Published <- PublishedTexts, Received <- ReceivedMessages, CodeOf <- CodeOfCharacter

Talker == [name |-> <<"talker">>, namespace |-> <<"/">>]
Listener == [name |-> <<"listener">>, namespace |-> <<"/", "ns">>]
Endpoint(n, role, name, of, suffix) == [node |-> n, role |-> role, name |-> name, type |-> [of |-> of, suffix |-> suffix]]
Ends ==
  {Endpoint(Talker, "publisher", <<"/", "chat">>, "string", ""),
   Endpoint(Listener, "subscriber", <<"/", "chat">>, "string", ""),
   Endpoint(Listener, "publisher", <<"/", "_log">>, "string", ""),
   Endpoint(Listener, "service", <<"/", "fly", "/_action/send_goal">>, "Fly", ""),
   Endpoint(Listener, "publisher", <<"/", "fly", "/_action/feedback">>, "Fly", "_FeedbackMessage")}
Question(kind, name, hidden) == [kind |-> kind, name |-> name, include_hidden |-> hidden]
Questions ==
  {Question("topic", <<"/", "chat">>, FALSE), Question("service", <<"/", "fly", "/_action/send_goal">>, FALSE),
   Question("node", <<"/", "talker">>, FALSE), Question("node", <<"ns", "/", "listener">>, FALSE),
   Question("node", <<"/", "ns", "/", "listener">>, TRUE), Question("node", <<"/">>, FALSE),
   Question("action", <<"/", "fly">>, FALSE), Question("list", <<>>, FALSE),
   Question("show", <<"p", "/", "m", "s", "g", "/", "A">>, FALSE)}
Resources ==
  {[package |-> <<"p">>, line |-> <<"m", "s", "g", "/", "A", ".", "m", "s", "g">>],
   [package |-> <<"p">>, line |-> <<"m", "s", "g", "/", "A", ".", "i", "d", "l">>]}
Talkers == {Talker, Listener}

\* The fly action is typed alike for its feedback and its server.
ASSUME TypesAgree == FeedbackIsOfServer

-----------------------------------------------------------------------------
\* The choices of Init are left to the part in focus.
NoFile == doc = "none" /\ yaml_node = "none" /\ use_wildcard = FALSE /\ parsed = Yaml!NotParsed
NoMessage ==
  /\ message_type = "none" /\ text = Codec!Null /\ payload = Codec!Nothing
  /\ json = Codec!Nothing /\ again = Codec!Unset /\ cast_overflow = "lowest"

Init ==
  /\ focus \in Foci
  /\ StatsInit /\ ParamInit /\ CacheInit
  /\ QueryInit /\ (focus = "queries" \/ graph = {})
  /\ IF focus = "yaml" THEN Yaml!Init ELSE NoFile
  /\ IF focus = "codec" THEN Codec!CodecInit ELSE NoMessage

OnlyStats      == focus = "stats"       /\ UNCHANGED <<focus, param_vars, yaml_vars, cache_vars, codec_vars, query_vars>>
OnlyParams     == focus = "params"      /\ UNCHANGED <<focus, stats_vars, yaml_vars, cache_vars, codec_vars, query_vars>>
OnlyFairParams == focus = "fair params" /\ UNCHANGED <<focus, stats_vars, yaml_vars, cache_vars, codec_vars, query_vars>>
OnlyYaml       == focus = "yaml"        /\ UNCHANGED <<focus, stats_vars, param_vars, cache_vars, codec_vars, query_vars>>
OnlyCache      == focus = "cache"       /\ UNCHANGED <<focus, stats_vars, param_vars, yaml_vars, codec_vars, query_vars>>
OnlyCodec      == focus = "codec"       /\ UNCHANGED <<focus, stats_vars, param_vars, yaml_vars, cache_vars, query_vars>>
OnlyQueries    == focus = "queries"     /\ UNCHANGED <<focus, stats_vars, param_vars, yaml_vars, cache_vars, codec_vars>>

Next ==
  \/ OnlyStats /\ StatsNext
  \/ OnlyParams /\ ParamNext
  \/ OnlyFairParams /\ FairParam!ParamNext
  \/ OnlyYaml /\ Yaml!Next
  \/ OnlyCache /\ CacheNext
  \/ OnlyCodec /\ Codec!CodecNext
  \/ OnlyQueries /\ QueryNext

\* The fairness each module states, for the part in focus: the parts share the
\* conditions, as no behaviour has two of them in focus.
Weak1 ==
  \/ OnlyStats /\ Drain
  \/ OnlyFairParams /\ FairParam!ParamStep
  \/ OnlyCache /\ Execute
  \/ OnlyQueries /\ Callback
Weak2 == OnlyCache /\ callback # "crashed" /\ WatcherTaskFunc
Strong1 ==
  \/ OnlyStats /\ ReportStats
  \/ OnlyFairParams /\ FairParam!OnParamTimer("get")
Strong2 == OnlyFairParams /\ FairParam!OnParamTimer("set")

Spec ==
  /\ Init /\ [][Next]_vars
  /\ WF_vars(Weak1) /\ WF_vars(Weak2) /\ SF_vars(Strong1) /\ SF_vars(Strong2)

-----------------------------------------------------------------------------
(* The properties of the parts.                                            *)

\* ParamYaml: a node gets its own parameters before those for every node, and
\* never those of another.
OwnParametersWin == Yaml!OwnParametersWin

\* IntrospectionCodec: what an echo shows is a text that publishes the same;
\* what a text publishes is a message of its type, with all the text names, and
\* a stamp is read where the type puts it.
CodecAgrees == Codec!ShownPublishesSame /\ Codec!PublishedFits /\ Codec!StampIsRead

\* Each part comes to an end of what it must do, again and again (Settled of
\* the part in focus; the others are settled from the beginning).
NodesSettle ==
  []<>(/\ StatsSettled /\ CacheSettled /\ Settled
       /\ focus # "params" => ParamSettled)
===============================================================================

-------------------------------- MODULE MCTexts --------------------------------
(***************************************************************************)
(* Small sets of message types, of texts players publish and of messages   *)
(* they echo, for IntrospectionCodec, and of parameter files for ParamYaml.*)
(***************************************************************************)
EXTENDS Integers, SequencesExt, TLC

LOCAL Null == [kind |-> "null"]
LOCAL Bool(b) == [kind |-> "bool", bool |-> b]
LOCAL Number(n) == [kind |-> "number", number |-> n]
LOCAL String(s) == [kind |-> "string", string |-> s]
LOCAL Array(items) == [kind |-> "array", items |-> items]
LOCAL Object(fields) == [kind |-> "object", fields |-> fields]

Ascii ==
  ("0" :> 48) @@ ("1" :> 49) @@ ("7" :> 55) @@ ("t" :> 116) @@ ("T" :> 84) @@ ("r" :> 114) @@ ("u" :> 117)
  @@ ("e" :> 101) @@ ("f" :> 102) @@ ("a" :> 97) @@ ("l" :> 108) @@ ("s" :> 115) @@ ("n" :> 110)
  @@ ("\\" :> 92) @@ ("\"" :> 34) @@ ("newline" :> 10) @@ ("hi" :> 195) @@ ("lo" :> 169)
CodeOfCharacter(c) == Ascii[c]

-----------------------------------------------------------------------------
\* Message types.
LOCAL Field(n, t, init) == [name |-> n, type |-> t, init |-> init, is_array |-> FALSE]
LOCAL Nested(n, t) == [name |-> n, type |-> "message", members |-> t, is_array |-> FALSE]
LOCAL NoMembers == [name |-> "", list |-> <<>>]
LOCAL Sized(n, t, init, size, bound, assign) ==
  [name |-> n, type |-> t, init |-> init, is_array |-> TRUE, array_size |-> size, is_upper_bound |-> bound,
   resizable |-> bound \/ size = 0, has_assign_function |-> assign, members |-> NoMembers]

LOCAL Empty == [name |-> "Empty", list |-> <<>>]
LOCAL Time == [name |-> "Time", list |-> <<Field("sec", "int32", 0), Field("nanosec", "uint32", 0)>>]
LOCAL Header == [name |-> "Header", list |-> <<Nested("stamp", Time), Field("frame_id", "string", <<>>)>>]
LOCAL Stamped == [name |-> "Stamped", list |-> <<Field("id", "int32", 3), Nested("header", Header)>>]
LOCAL Point == [name |-> "Point", list |-> <<Field("on", "bool", TRUE), Field("x", "int8", 7)>>]
LOCAL Texts ==
  [name |-> "Texts", list |-> <<Field("b", "byte", 0), Field("s", "string", <<"a">>), Field("w", "wstring", <<>>),
                                Field("d", "double", <<2>>)>>]
LOCAL One == [name |-> "One", list |-> <<Field("n", "int64", 0)>>]
LOCAL Lists ==
  [name |-> "Lists",
   list |-> <<Sized("f", "uint8", <<0, 0>>, 2, FALSE, TRUE), Sized("b", "uint8", <<>>, 1, TRUE, FALSE),
              [Sized("p", "message", <<>>, 0, FALSE, TRUE) EXCEPT !.members = Point]>>]
LOCAL Odd == [name |-> "Odd", list |-> <<Field("o", "unknown", 0)>>]

-----------------------------------------------------------------------------
\* What players publish, and what ROS nodes publish.
LOCAL Scalars ==
  {Null, Bool(TRUE)} \cup {Number(n) : n \in {<<>>, <<6>>, <<4>>, <<-4>>, <<512>>, <<1024>>}}
  \cup {String(s) : s \in {<<"a">>, <<"1">>, <<"7", "7">>, <<"T", "r", "u", "e">>, <<"hi", "lo">>, <<"\\", "\"">>, <<>>}}
LOCAL Objects(names, values) == {Object(f) : f \in UNION {[N -> values] : N \in SUBSET names}}
LOCAL Arrays(values) == {Array(a) : a \in UNION {[1 .. k -> values] : k \in 0 .. 2}}
LOCAL Items == {Number(<<4>>), String(<<"7">>), Number(<<1024>>)}
LOCAL As(type, texts) == {[type |-> type, text |-> t] : t \in texts}

PublishedTexts ==
  As(Texts, Objects({"b", "s", "w", "d", "other"}, {Number(<<4>>), String(<<"1">>), String(<<"hi", "lo">>)}))
  \cup As(One, Scalars \cup Objects({"n"}, Scalars))
  \cup As(Empty, {Null, Number(<<4>>), Object(<<>>)})
  \cup As(Odd, {Null, Number(<<4>>)})
  \cup As(Lists, {Object([f |-> f, b |-> b, p |-> Array(<<p>>)]) :
                    f \in Arrays(Items) \cup Items, b \in Arrays(Items), p \in {Object([x |-> Number(<<4>>)]), Null}})
  \cup As(Lists, {Object([p |-> p]) : p \in Arrays(Objects({"on", "x"}, {Bool(FALSE), Number(<<4>>), String(<<"1">>)}))})
  \cup As(Stamped, {Object([header |-> Object([stamp |-> s])]) : s \in Objects({"sec", "nanosec"}, {Number(<<4>>), Number(<<12>>)})})

LOCAL Strings ==
  {<<>>, <<"\\", "\"">>, <<"\\", "a">>, <<"7", "7">>} \cup {<<c>> : c \in {"a", "1", "\"", "\\", "newline", "hi"}}
ReceivedMessages ==
  {[type |-> Texts, message |-> [b |-> 1, s |-> s, w |-> w, d |-> d]] :
     s \in Strings, w \in Strings, d \in {<<2>>, <<3>>, <<>>}}
  \cup {[type |-> One, message |-> [n |-> n]] : n \in {0, -1, 2 ^ 20 + 1, 2 ^ 20 + 2}}
  \cup {[type |-> Time, message |-> [sec |-> 1, nanosec |-> 2]], [type |-> Empty, message |-> <<>>]}

-----------------------------------------------------------------------------
\* Parameter files: a section of the node, with and without its slash, one for
\* every node, one of another node, one of none, and a value at the top.
LOCAL Leaf(tag, from) == [tag |-> tag, from |-> from]
LOCAL Entry(key, value) == [key |-> key, value |-> value]
LOCAL Map(entries) == [tag |-> "map", entries |-> entries]
LOCAL RosParameters == <<"ros__parameters">>
LOCAL Wildcard == <<"/**">>
LOCAL Contents(k) ==
  {<<Entry(<<"p">>, Leaf("integer", k)),
     Entry(<<"q">>, [tag |-> "array", items |-> <<Leaf("integer", k), Leaf("double", k)>>, from |-> k])>>,
   <<Entry(<<"q">>, Map(<<Entry(<<"r">>, Leaf("bool", k))>>)), Entry(<<"q", "r">>, Leaf("string", k)),
     Entry(<<"p">>, Leaf("string", k))>>,
   <<Entry(<<"p">>, Leaf("null", k))>>}
LOCAL Section(k) ==
  {<<>>, <<Entry(k, Leaf("string", k))>>, <<Entry(k, Map(<<Entry(RosParameters, Leaf("string", k))>>))>>}
  \cup {<<Entry(k, Map(c))>> : c \in Contents(k)}
  \cup {<<Entry(k, Map(<<Entry(RosParameters, Map(c))>>))>> : c \in Contents(k)}

ParameterFiles ==
  {[mapping |-> FALSE, root |-> <<>>]} \cup
  {[mapping |-> TRUE, root |-> FlattenSeq(s)] : s \in
     Section(<<"node">>)
     \X {<<>>, <<Entry(<<"/node">>, Map(<<Entry(<<"p">>, Leaf("bool", <<"/node">>))>>))>>}
     \X Section(Wildcard)
     \X {<<>>, <<Entry(<<"other">>, Map(<<Entry(RosParameters, Map(<<>>))>>))>>}
     \X {<<>>, <<Entry(RosParameters, Map(<<Entry(<<"p">>, Leaf("bool", RosParameters))>>))>>}
     \X {<<>>, <<Entry(<<"p">>, Leaf("double", <<"top">>))>>}}
===============================================================================

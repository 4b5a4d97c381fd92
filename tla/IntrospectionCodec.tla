--------------------------- MODULE IntrospectionCodec ---------------------------
(***************************************************************************)
(* Messages of any type as YAML and as JSON text                           *)
(* (nodes/ros/details/introspection_codec.cpp): what TopicPub, ServiceCall *)
(* and SendGoal read from a player, what TopicEcho shows, and the stamp of *)
(* the delay statistics.  A message is a function of its fields, an array  *)
(* a sequence, a text a tree of YAML values.  An option is a sequence of   *)
(* no or one element.  Widths are scaled down: int64 has kWideBits + 1     *)
(* bits, a double holds every quarter up to 2^kWideBits in steps of one,   *)
(* half of that in quarters; to_string prints halves.                      *)
(***************************************************************************)
EXTENDS Integers, Sequences, FiniteSets, SequencesExt, FiniteSetsExt

CONSTANTS
  Published,     \* [type, text] a player publishes
  Received,      \* [type, message] a ROS node publishes
  CodeOf(_)      \* the code of a character

VARIABLES
  message_type,
  text,          \* of the player, read as YAML
  payload,       \* option: the message in CDR
  json,          \* option: the payload shown
  again,         \* option: what the shown text becomes when it is published; unset before
  cast_overflow  \* what the build makes of a double that no int64 holds

codec_vars == <<message_type, text, payload, json, again, cast_overflow>>

kWideBits == 20
kUnit == 4       \* numbers count in quarters
Exact == 2 ^ kWideBits * kUnit

Nothing == <<>>
Just(v) == <<v>>
Unset == <<"unset", "unset">>

IntegerRange ==
  [int8 |-> <<-128, 127>>, uint8 |-> <<0, 255>>, octet |-> <<0, 255>>, int16 |-> <<-32768, 32767>>,
   int32 |-> <<-65536, 65535>>, uint32 |-> <<0, 131071>>, int64 |-> <<-(2 ^ (kWideBits + 1)), 2 ^ (kWideBits + 1) - 1>>]

NormalizeTypeId(type) == IF type = "byte" THEN "octet" ELSE type

\* The double nearest to a number of quarters.
AsDouble(n) == IF n \in -Exact .. Exact THEN n ELSE ((n + kUnit) \div (2 * kUnit)) * (2 * kUnit)

Null == [kind |-> "null"]
Bool(b) == [kind |-> "bool", bool |-> b]
Number(n) == [kind |-> "number", number |-> n]   \* <<quarters>>, <<>> if not finite
String(s) == [kind |-> "string", string |-> s]
Array(items) == [kind |-> "array", items |-> items]
Object(fields) == [kind |-> "object", fields |-> fields]

FindMemberByName(members, name) == SelectSeq(members, LAMBDA m : m.name = name)

-----------------------------------------------------------------------------
\* Text to message.

IsDigits(s) == s # <<>> /\ \A i \in DOMAIN s : CodeOf(s[i]) \in 48 .. 57
FromChars(s) == FoldLeft(LAMBDA n, c : 10 * n + CodeOf(c) - 48, 0, s)

\* The check is made on doubles: the largest int64 is rounded up by it.
ParseIntegerValue(value, type) ==
  LET lowest == IntegerRange[type][1]
      highest == IntegerRange[type][2]
      Cast(n) == IF n <= highest THEN n ELSE IF cast_overflow = "lowest" THEN lowest ELSE highest
  IN CASE value.kind = "number" ->
            IF /\ value.number # <<>>
               /\ value.number[1] % kUnit = 0
               /\ value.number[1] >= AsDouble(lowest * kUnit) /\ value.number[1] <= AsDouble(highest * kUnit)
            THEN Just(Cast(value.number[1] \div kUnit)) ELSE Nothing
       [] value.kind = "string" ->
            IF IsDigits(value.string) /\ FromChars(value.string) \in lowest .. highest
            THEN Just(FromChars(value.string)) ELSE Nothing
       [] OTHER -> Nothing

ParseDoubleValue(value) ==
  CASE value.kind = "number" -> IF value.number = <<>> THEN Nothing ELSE Just(value.number)
    [] value.kind = "string" ->
         IF IsDigits(value.string) THEN Just(<<AsDouble(FromChars(value.string) * kUnit)>>) ELSE Nothing
    [] OTHER -> Nothing

ParseBoolToken(token) ==
  IF token \in {<<"t", "r", "u", "e">>, <<"1">>} THEN Just(TRUE)
  ELSE IF token \in {<<"f", "a", "l", "s", "e">>, <<"0">>} THEN Just(FALSE) ELSE Nothing

ToLower(s) == [i \in DOMAIN s |-> IF s[i] = "T" THEN "t" ELSE s[i]]

ParseBooleanValue(value) ==
  CASE value.kind = "bool" -> Just(value.bool)
    [] value.kind = "number" ->
         LET parsed == ParseIntegerValue(value, "int64")
         IN IF parsed \in {<<0>>, <<1>>} THEN Just(parsed = <<1>>) ELSE Nothing
    [] value.kind = "string" -> ParseBoolToken(ToLower(value.string))
    [] OTHER -> Nothing

ParseStringValue(value) == IF value.kind = "string" THEN Just(value.string) ELSE Nothing

IsAscii(s) == \A i \in DOMAIN s : CodeOf(s[i]) <= 127

ParseAsciiWString(value) ==
  IF value.kind = "string" /\ IsAscii(value.string) THEN Just(value.string) ELSE Nothing

\* What assign_function is given for an element of an array.
ParseElement(value, type) ==
  CASE NormalizeTypeId(type) = "bool" -> ParseBooleanValue(value)
    [] NormalizeTypeId(type) \in DOMAIN IntegerRange -> ParseIntegerValue(value, NormalizeTypeId(type))
    [] NormalizeTypeId(type) = "double" -> ParseDoubleValue(value)
    [] NormalizeTypeId(type) = "string" -> ParseStringValue(value)
    [] NormalizeTypeId(type) = "wstring" -> ParseAsciiWString(value)
    [] OTHER -> Nothing

\* A scalar of a byte takes a character too.
AssignScalarValue(value, type) ==
  IF NormalizeTypeId(type) \in {"uint8", "octet"} /\ value.kind = "string" /\ Len(value.string) = 1
  THEN Just(CodeOf(value.string[1]))
  ELSE ParseElement(value, type)

RECURSIVE InitFunction(_)
InitFunction(members) ==
  [n \in {members[i].name : i \in DOMAIN members} |->
     LET m == FindMemberByName(members, n)[1]
     IN IF m.type = "message" /\ ~m.is_array THEN InitFunction(m.members.list) ELSE m.init]

\* Mutant: a bounded array takes any number of elements.
SizeFitsFixed(m, size) == m.is_upper_bound \/ m.array_size = 0 \/ size = m.array_size

SizeFits(m, size) ==
  /\ ~m.is_upper_bound /\ m.array_size > 0 => size = m.array_size
  /\ m.is_upper_bound /\ m.array_size > 0 => size <= m.array_size

\* resize_function keeps the elements there are.
Resized(m, old, size) ==
  IF ~m.resizable THEN old
  ELSE [i \in 1 .. size |->
          IF i \in DOMAIN old THEN old[i]
          ELSE IF m.type = "message" THEN InitFunction(m.members.list) ELSE 0]

RECURSIVE ParseMessageValue(_, _, _)
AssignMemberValue(value, m, old) ==
  LET AssignArrayElementValue(v, element) ==
        IF m.type = "message" THEN ParseMessageValue(v, m.members.list, element)
        ELSE IF m.has_assign_function THEN ParseElement(v, m.type)
        ELSE AssignScalarValue(v, m.type)
      AssignArrayValue(items) ==
        LET storage == Resized(m, old, Len(items))
            parsed == [i \in DOMAIN items |-> AssignArrayElementValue(items[i], storage[i])]
        IN IF SizeFits(m, Len(items)) /\ \A i \in DOMAIN items : parsed[i] # Nothing
           THEN Just([i \in DOMAIN items |-> parsed[i][1]]) ELSE Nothing
  IN IF m.is_array THEN IF value.kind = "array" THEN AssignArrayValue(value.items) ELSE Nothing
     ELSE IF m.type = "message" THEN ParseMessageValue(value, m.members.list, old)
     ELSE AssignScalarValue(value, m.type)

KnownFields(object, members) == \A n \in DOMAIN object : FindMemberByName(members, n) # <<>>

\* Fields the text does not name keep their value; the value of a message of
\* one field may stand for the message.
ParseMessageValue(value, members, old) ==
  IF value.kind = "object"
  THEN LET named == {n \in DOMAIN old : n \in DOMAIN value.fields}
           parsed == [n \in named |-> AssignMemberValue(value.fields[n], FindMemberByName(members, n)[1], old[n])]
       IN IF KnownFields(value.fields, members) /\ \A n \in named : parsed[n] # Nothing
          THEN Just([n \in DOMAIN old |-> IF n \in named THEN parsed[n][1] ELSE old[n]]) ELSE Nothing
  ELSE IF Len(members) = 1
  THEN LET parsed == AssignMemberValue(value, members[1], old[members[1].name])
       IN IF parsed = Nothing THEN Nothing ELSE Just([n \in DOMAIN old |-> parsed[1]])
  ELSE IF members = <<>> /\ value.kind = "null" THEN Just(old) ELSE Nothing

SerializeYamlToCdr(type, yaml) == ParseMessageValue(yaml, type.list, InitFunction(type.list))

-----------------------------------------------------------------------------
\* Message to text.

\* Mutant: a backslash is left alone.
EscapedQuote(c) == IF c = "\"" THEN <<"\\", "\"">> ELSE IF CodeOf(c) < 32 THEN <<"\\", c>> ELSE <<c>>

EscapedChar(c) == IF c \in {"\"", "\\"} \/ CodeOf(c) < 32 THEN <<"\\", c>> ELSE <<c>>
EscapeJsonString(s) == FlattenSeq([i \in DOMAIN s |-> EscapedChar(s[i])])

AppendScalarAsJson(type, v) ==
  CASE NormalizeTypeId(type) = "bool" -> Just(Bool(v))
    [] NormalizeTypeId(type) \in DOMAIN IntegerRange -> Just(Number(<<v * kUnit>>))
    [] NormalizeTypeId(type) = "double" ->
         Just(IF v = <<>> THEN String(<<"n", "a", "n">>) ELSE Number(<<((v[1] + 1) \div 2) * 2>>))
    [] NormalizeTypeId(type) = "string" \/ (NormalizeTypeId(type) = "wstring" /\ IsAscii(v)) ->
         Just(String(EscapeJsonString(v)))
    [] OTHER -> Nothing

RECURSIVE AppendMessageAsJson(_, _)
AppendMemberAsJson(m, v) ==
  LET Element(e) == IF m.type = "message" THEN AppendMessageAsJson(m.members.list, e) ELSE AppendScalarAsJson(m.type, e)
      AppendArrayAsJson ==
        LET shown == [i \in DOMAIN v |-> Element(v[i])]
        IN IF \A i \in DOMAIN v : shown[i] # Nothing THEN Just(Array([i \in DOMAIN v |-> shown[i][1]])) ELSE Nothing
  IN IF m.is_array THEN AppendArrayAsJson ELSE Element(v)

AppendMessageAsJson(members, message) ==
  LET shown == [n \in DOMAIN message |-> AppendMemberAsJson(FindMemberByName(members, n)[1], message[n])]
  IN IF \A n \in DOMAIN message : shown[n] # Nothing
     THEN Just(Object([n \in DOMAIN message |-> shown[n][1]])) ELSE Nothing

\* glz::read_yaml of such a text: escapes are resolved, numbers become doubles.
RECURSIVE Unescape(_)
Unescape(s) ==
  IF s = <<>> THEN <<>>
  ELSE IF s[1] = "\\" /\ Len(s) > 1 THEN <<s[2]>> \o Unescape(SubSeq(s, 3, Len(s)))
  ELSE <<s[1]>> \o Unescape(Tail(s))

RECURSIVE ReadYaml(_)
ReadYaml(v) ==
  CASE v.kind = "string" -> String(Unescape(v.string))
    [] v.kind = "number" -> Number(<<AsDouble(v.number[1])>>)
    [] v.kind = "array" -> Array([i \in DOMAIN v.items |-> ReadYaml(v.items[i])])
    [] v.kind = "object" -> Object([n \in DOMAIN v.fields |-> ReadYaml(v.fields[n])])
    [] OTHER -> v

-----------------------------------------------------------------------------
\* The stamp of a message, found by the offsets of its fields.

RECURSIVE Cells(_, _)
Cells(members, message) ==
  FlattenSeq([i \in DOMAIN members |->
    LET m == members[i]
    IN IF m.type = "message" /\ ~m.is_array THEN Cells(m.members.list, message[m.name]) ELSE <<message[m.name]>>])

OffsetOf(members, name) ==
  LET before == SelectInSeq(members, LAMBDA m : m.name = name) - 1
  IN Len(Cells(SubSeq(members, 1, before), InitFunction(members)))

IsScalar(members, name, type) ==
  \E i \in DOMAIN members : members[i].name = name /\ members[i].type = type /\ ~members[i].is_array

IsMessage(members, name, type) ==
  IsScalar(members, name, "message") /\ FindMemberByName(members, name)[1].members.name = type

HasTime(members) == IsScalar(members, "sec", "int32") /\ IsScalar(members, "nanosec", "uint32")

StampInHeader(members) ==
  LET header == FindMemberByName(members, "header")[1].members.list
      stamp == FindMemberByName(header, "stamp")[1].members.list
  IN [base |-> OffsetOf(members, "header") + OffsetOf(header, "stamp"),
      sec |-> OffsetOf(stamp, "sec"), nanosec |-> OffsetOf(stamp, "nanosec")]

ParseDelayStampOffsets(members) ==
  IF HasTime(members)
  THEN Just([base |-> 0, sec |-> OffsetOf(members, "sec"), nanosec |-> OffsetOf(members, "nanosec")])
  ELSE IF /\ IsMessage(members, "header", "Header")
          /\ LET header == FindMemberByName(members, "header")[1].members.list
             IN IsMessage(header, "stamp", "Time") /\ HasTime(FindMemberByName(header, "stamp")[1].members.list)
  THEN Just(StampInHeader(members)) ELSE Nothing

\* Option of <<seconds, nanoseconds>>.
ExtractStampSecondsFromCdr(members, message) ==
  LET offsets == ParseDelayStampOffsets(members)
      bytes == Cells(members, message)
  IN IF offsets = Nothing THEN Nothing
     ELSE Just(<<bytes[offsets[1].base + offsets[1].sec + 1], bytes[offsets[1].base + offsets[1].nanosec + 1]>>)

-----------------------------------------------------------------------------
CodecInit ==
  /\ json = Nothing /\ again = Unset
  /\ cast_overflow \in {"lowest", "highest"}
  /\ \/ \E p \in Published : message_type = p.type /\ text = p.text /\ payload = Nothing
     \/ \E r \in Received : message_type = r.type /\ text = Null /\ payload = Just(r.message)

\* TopicPub: a text that cannot be read publishes nothing.
PublishText ==
  /\ payload = Nothing
  /\ payload' = SerializeYamlToCdr(message_type, text)
  /\ UNCHANGED <<message_type, text, json, again, cast_overflow>>

\* TopicEcho.
DeserializeCdrToYaml ==
  /\ payload # Nothing
  /\ json' = AppendMessageAsJson(message_type.list, payload[1])
  /\ UNCHANGED <<message_type, text, payload, again, cast_overflow>>

\* A player publishes what the echo showed.
PublishShown ==
  /\ json # Nothing
  /\ again' = SerializeYamlToCdr(message_type, ReadYaml(json[1]))
  /\ UNCHANGED <<message_type, text, payload, json, cast_overflow>>

CodecNext == PublishText \/ DeserializeCdrToYaml \/ PublishShown

CodecSpec == CodecInit /\ [][CodecNext]_codec_vars

-----------------------------------------------------------------------------
\* Some element of a message is a value the predicate holds of.
RECURSIVE Holds(_, _, _)
Holds(P(_, _), members, message) ==
  \E i \in DOMAIN members :
    LET m == members[i]
        v == message[m.name]
        Here(e) == IF m.type = "message" THEN Holds(P, m.members.list, e) ELSE P(m.type, e)
    IN IF m.is_array THEN \E k \in DOMAIN v : Here(v[k]) ELSE Here(v)

\* Values the text of the echo does not keep: more digits than it prints, no
\* number, or an integer that is no double.
Unprintable(type, v) ==
  \/ type = "double" /\ (v = <<>> \/ v[1] % 2 # 0)
  \/ type = "int64" /\ AsDouble(v * kUnit) # v * kUnit

\* The text an echo shows is a text a publisher takes, and it publishes the same
\* message (FormatMessageAsJson and ParseYamlToMessage agree on every kind of
\* field): quotes and control characters, arrays of each kind, messages of one
\* field and of none included.
ShownPublishesSame ==
  again # Unset /\ ~Holds(Unprintable, message_type.list, payload[1]) => again = payload

OutOfRange(type, v) ==
  NormalizeTypeId(type) \in DOMAIN IntegerRange
    /\ v \notin IntegerRange[NormalizeTypeId(type)][1] .. IntegerRange[NormalizeTypeId(type)][2]

RECURSIVE SizesFit(_, _)
SizesFit(members, message) ==
  \A i \in DOMAIN members :
    LET m == members[i]
        v == message[m.name]
    IN /\ m.is_array /\ m.array_size > 0 => IF m.is_upper_bound THEN Len(v) <= m.array_size ELSE Len(v) = m.array_size
       /\ m.type = "message" =>
            IF m.is_array THEN \A k \in DOMAIN v : SizesFit(m.members.list, v[k]) ELSE SizesFit(m.members.list, v)

\* A message that is published from a text is one of its type (no integer is
\* wrapped to its width, no array exceeds its bound, which the serializer takes
\* on trust), all the text names is in it, and what the text leaves out has its
\* default.
PublishedFits ==
  text # Null /\ payload # Nothing =>
    LET list == message_type.list
    IN /\ ~Holds(OutOfRange, list, payload[1])
       /\ SizesFit(list, payload[1])
       /\ text.kind = "object" =>
            /\ DOMAIN text.fields \subseteq DOMAIN payload[1]
            /\ \A n \in DOMAIN payload[1] \ DOMAIN text.fields : payload[1][n] = InitFunction(list)[n]

\* The delay statistics read the stamp the message carries, wherever its type
\* puts it.
StampIsRead ==
  payload # Nothing =>
    LET stamp == ExtractStampSecondsFromCdr(message_type.list, payload[1])
        m == payload[1]
    IN stamp # Nothing =>
         stamp[1] = IF "sec" \in DOMAIN m /\ "nanosec" \in DOMAIN m THEN <<m.sec, m.nanosec>>
                    ELSE <<m.header.stamp.sec, m.header.stamp.nanosec>>

===============================================================================

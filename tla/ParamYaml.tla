-------------------------------- MODULE ParamYaml ------------------------------
(***************************************************************************)
(* Which parameters of a YAML text ParamLoadNode sets on a node            *)
(* (nodes/ros/param/load.cpp).  A mapping is a sequence of entries with    *)
(* different keys, a key the sequence of the names its dots separate, a    *)
(* leaf its kind and where it was written.                                 *)
(***************************************************************************)
EXTENDS Integers, Sequences, FiniteSets, SequencesExt

CONSTANTS
  Docs,          \* texts: [root, mapping], the root entries if it is a mapping
  Names          \* the node asked for: [given, alternative], with and without its slash

VARIABLES
  doc,
  yaml_node,
  use_wildcard,
  parsed         \* [ok, out] of ParseYamlParameters; NotParsed before

vars == <<doc, yaml_node, use_wildcard, parsed>>

kRosParametersKey == <<"ros__parameters">>
kWildcardNodeName == <<"/**">>

Failure == [ok |-> FALSE, out |-> <<>>]
Success(out) == [ok |-> TRUE, out |-> out]
NotParsed == [ok |-> FALSE, out |-> <<Failure>>]

IsObject(value) == value.tag = "map"

\* The entries of a mapping under a key: none or one.
Find(map, key) == SelectSeq(map, LAMBDA e : e.key = key)

MakeNodeLookupCandidates(node) == <<node.given, node.alternative>>

ContainsNodeScopedSections(root, exclude) ==
  \E i \in DOMAIN root :
    /\ root[i].key # exclude
    /\ IsObject(root[i].value) /\ Find(root[i].value.entries, kRosParametersKey) # <<>>

\* A section may wrap its parameters in ros__parameters or not.
TrySelectNodeSection(root, key) ==
  LET section == Find(root, key)
  IN IF section = <<>> THEN Success(<<>>)
     ELSE IF ~IsObject(section[1].value) THEN Failure
     ELSE LET wrapped == Find(section[1].value.entries, kRosParametersKey)
          IN IF wrapped = <<>> THEN Success(<<section[1].value.entries>>)
             ELSE IF IsObject(wrapped[1].value) THEN Success(<<wrapped[1].value.entries>>)
             ELSE Failure

\* The mappings to read, the one that may override the others last.
SelectParameterRoots(root, node, wildcard) ==
  LET found == [i \in 1 .. 2 |-> TrySelectNodeSection(root, MakeNodeLookupCandidates(node)[i])]
      exact == IF ~found[1].ok \/ found[1].out # <<>> THEN found[1] ELSE found[2]
      any == IF wildcard THEN TrySelectNodeSection(root, kWildcardNodeName) ELSE Success(<<>>)
      plain == Find(root, kRosParametersKey)
  IN IF ~exact.ok \/ ~any.ok THEN Failure
     ELSE IF any.out \o exact.out # <<>> THEN Success(any.out \o exact.out)
     ELSE IF plain # <<>>
          THEN IF IsObject(plain[1].value) THEN Success(<<plain[1].value.entries>>) ELSE Failure
     ELSE IF ContainsNodeScopedSections(root, <<>>)
          THEN IF wildcard \/ ContainsNodeScopedSections(root, kWildcardNodeName) THEN Failure ELSE Success(<<>>)
     ELSE Success(<<root>>)

\* A number becomes an integer if it is one that 64 bits can hold.
IsNumber(value) == value.tag \in {"integer", "double"}
ParseScalarValue(value) ==
  IF value.tag \in {"bool", "string"} \/ IsNumber(value) THEN [ok |-> TRUE, type |-> value.tag]
  ELSE [ok |-> FALSE, type |-> value.tag]  \* null, not finite

\* Numbers of both kinds become doubles, other kinds do not mix.
ParseArrayValue(items) ==
  LET kinds == {items[i].tag : i \in DOMAIN items}
  IN IF items = <<>> \/ ~(kinds \subseteq {"bool", "string", "integer", "double"})
     THEN [ok |-> FALSE, type |-> "none"]
     ELSE IF kinds = {"integer", "double"} THEN [ok |-> TRUE, type |-> "double[]"]
     ELSE [ok |-> Cardinality(kinds) = 1, type |-> (CHOOSE k \in kinds : TRUE) \o "[]"]

RECURSIVE FlattenParameterMap(_, _)
FlattenParameterMap(map, prefix) ==
  IF map = <<>> THEN Success(<<>>)
  ELSE LET e == Head(map)
           name == prefix \o e.key  \* JoinParameterName
           rest == FlattenParameterMap(Tail(map), prefix)
           leaf == IF e.value.tag = "array" THEN ParseArrayValue(e.value.items) ELSE ParseScalarValue(e.value)
           here == IF e.key = <<>> THEN Failure
                   ELSE IF IsObject(e.value) THEN FlattenParameterMap(e.value.entries, name)
                   ELSE IF ~leaf.ok THEN Failure
                   ELSE Success(<<[name |-> name, type |-> leaf.type, from |-> e.value.from]>>)
       IN IF here.ok /\ rest.ok THEN Success(here.out \o rest.out) ELSE Failure

\* Mutant: the value that is there already stays.
UpsertFirst(out, parameter) ==
  IF \E i \in DOMAIN out : out[i].name = parameter.name THEN out ELSE Append(out, parameter)

UpsertParameter(out, parameter) ==
  IF \E i \in DOMAIN out : out[i].name = parameter.name
  THEN [i \in DOMAIN out |-> IF out[i].name = parameter.name THEN parameter ELSE out[i]]
  ELSE Append(out, parameter)

ParseYamlParameters(d, node, wildcard) ==
  IF ~d.mapping THEN Failure
  ELSE LET roots == SelectParameterRoots(d.root, node, wildcard)
           parts == [i \in DOMAIN roots.out |-> FlattenParameterMap(roots.out[i], <<>>)]
       IN IF ~roots.ok \/ \E i \in DOMAIN parts : ~parts[i].ok THEN Failure
          ELSE Success(FoldLeft(UpsertParameter, <<>>, FlattenSeq([i \in DOMAIN parts |-> parts[i].out])))

Init ==
  /\ doc \in Docs
  /\ yaml_node \in Names
  /\ use_wildcard \in BOOLEAN
  /\ parsed = NotParsed

Parse ==
  /\ parsed = NotParsed
  /\ parsed' = ParseYamlParameters(doc, yaml_node, use_wildcard)
  /\ UNCHANGED <<doc, yaml_node, use_wildcard>>

Done == parsed # NotParsed /\ UNCHANGED vars

Next == Parse \/ Done

Spec == Init /\ [][Next]_vars

-----------------------------------------------------------------------------
Sources(out) == {out[i].from : i \in DOMAIN out}
Scope(key) == Find(doc.root, key) # <<>>

\* The parameters the section of a node gives.
Given(key) ==
  {p.name : p \in UNION {ToSet(FlattenParameterMap(s, <<>>).out) : s \in ToSet(TrySelectNodeSection(doc.root, key).out)}}

\* A node gets its own parameters (whether the text writes its name with a slash
\* or without), and those for every node that its own section does not define,
\* if the wildcard is wanted; never those of another node; each of them once.
\* A text in which no node has a section is taken as a whole.
OwnParametersWin ==
  parsed.ok =>
    LET out == parsed.out
        own == IF Scope(yaml_node.given) THEN yaml_node.given ELSE yaml_node.alternative
        fits == Scope(own) \/ (use_wildcard /\ Scope(kWildcardNodeName))
    IN /\ \A i, j \in DOMAIN out : out[i].name = out[j].name => i = j
       /\ fits => Sources(out) \subseteq {own} \cup (IF use_wildcard THEN {kWildcardNodeName} ELSE {})
       /\ ~fits /\ ContainsNodeScopedSections(doc.root, <<>>) => Sources(out) \subseteq {kRosParametersKey}
       /\ \A i \in DOMAIN out : out[i].from = kWildcardNodeName => out[i].name \notin Given(own)

===============================================================================

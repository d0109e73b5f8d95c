------------------------------ MODULE MC_Codec ------------------------------
(***************************************************************************)
(* Types and values for TLC.  Every scalar coding is a field of its own,   *)
(* with the values at the edges of its type; compound codings are nested   *)
(* in the ways that share the stack of lengths.                            *)
(***************************************************************************)
EXTENDS Codec, TLC

Root(subfields) == Field(0, "root", <<"compound", "root">>, subfields)
ScalarField(number, name, coding) == Field(number, name, <<"scalar", coding>>, <<>>)
Compound(number, name, coding, subfields) ==
  Field(number, name, <<"compound", coding>>, subfields)

Edges(w) == {- 2^(w - 1), - 2^(w - 2), -1, 0, 1, Radix, 2^(w - 2), 2^(w - 1) - 1}
Naturals(w) == {0, 1, Radix - 1, Radix, 2^w - 1}

Samples(type) ==
  CASE type = "bytes" -> {Val("list", <<>>), Val("list", <<Val("u8", 0), Val("u8", Radix)>>)}
    [] type = "string_utf8" -> {Val("string", <<>>), Val("string", <<1, 2>>)}
    [] type = "string_permissive" -> {Val("string", <<>>), Val("string", <<Radix>>)}
    [] type = "bool" -> {Val("bool", b) : b \in BOOLEAN}
    [] OTHER -> {Val(ValKind(type), n) :
                   n \in IF ValKind(type) \in {"s32", "s64"} THEN Edges(WidthOf(type))
                         ELSE Naturals(WidthOf(type)) \cup {2^(WidthOf(type) - 1)}}

Lists(items) ==
  LET b == CHOOSE item \in items : TRUE
  IN  {Val("list", <<>>)} \cup {Val("list", <<a, b>>) : a \in items}
Options(items) == {NoneVal} \cup {SomeVal(a) : a \in items}

ScalarValues(coding) ==
  LET items == Samples(TypeOf(coding))
  IN  CASE ModeOf(coding) = "implicit" -> items
        [] ModeOf(coding) = "explicit" -> Options(items)
        [] OTHER -> Lists(items)

\* Values of another kind, and values of the right kind in the wrong place.
Wrong(items) ==
  UNION {{v, SomeVal(v), Val("list", <<v>>)} :
           v \in {Val("u8", 0), NoneVal, CHOOSE item \in items : TRUE}}

Records(names, values) == {Val("record", [i \in DOMAIN names |-> <<names[i], v[i]>>]) : v \in values}

\* Packed for expanded and the other way round.
Flip(coding) == CASE ModeOf(coding) = "packed" -> coding + 2
                  [] ModeOf(coding) = "expanded" /\ TypeOf(coding) \notin Stringy -> coding - 2
                  [] OTHER -> coding

ScalarCase(coding) ==
  LET f == ScalarField(2, "x", coding)
  IN  [schema |-> Root(<<f>>),
       values |-> Records(<<"x">>, {<<v>> : v \in ScalarValues(coding) \cup Wrong(Samples(TypeOf(coding)))})
                    \cup {Val("record", <<<<"y", NoneVal>>>>), NoneVal},
       readers |-> {Root(<<f>>), Root(<<>>), Root(<<ScalarField(2, "x", Flip(coding))>>)}]

Color(number, coding) ==
  Compound(number, "color", coding,
           <<Field(0, "red", <<"none", 0>>, <<>>), Field(Radix, "blue", <<"none", 0>>, <<>>)>>)
Red  == Val("enum", "red")
Blue == Val("enum", "blue")
Mauve == Val("enum", "mauve")

EnumValues(coding) ==
  CASE coding \in {"EnumImplicit", "EnumExplicit"} -> {Red, Blue, Mauve}
    [] OTHER -> Lists({Red, Blue}) \cup {Val("list", <<Mauve>>)}

EnumCase(coding, flipped) ==
  [schema |-> Root(<<Color(1, coding)>>),
   values |-> Records(<<"color">>, {<<v>> : v \in EnumValues(coding) \cup Wrong({Red})}),
   readers |-> {Root(<<Color(1, coding)>>), Root(<<Color(1, flipped)>>)}]

\* A message with a packed list, a scalar and a oneof of every kind.
Sint32Packed == 21
Int64Explicit == 38
StringExplicit == 6

Choice == Compound(0, "choice", "Oneof",
            <<ScalarField(3, "text", StringExplicit), Color(4, "EnumExplicit"),
              Compound(5, "inner", "Message", <<ScalarField(1, "list", Sint32Packed)>>)>>)
Body == <<ScalarField(1, "list", Sint32Packed), ScalarField(2, "x", Int64Explicit), Choice>>
Message(number) == Compound(number, "message", "Message", Body)
Messages(number) == Compound(number, "messages", "MessageExpanded", <<ScalarField(1, "list", Sint32Packed)>>)

ShortLists == {Val("list", <<>>), Val("list", <<Val("s32", -1), Val("s32", Radix)>>)}
Variant(name, v) == SomeVal(Val("variant", <<name, <<v>>>>))
ChoiceValues ==
  {NoneVal, Variant("text", Val("string", <<1>>)), Variant("color", Blue),
   Variant("other", Blue), SomeVal(Val("variant", <<"text", <<>>>>))}
    \cup {Variant("inner", r) : r \in Records(<<"list">>, {<<l>> : l \in ShortLists})}
BodyValues ==
  Records(<<"list", "x", "choice">>,
          {<<l, x, c>> : l \in ShortLists, x \in Options({Val("s64", -1)}), c \in ChoiceValues})

MessageCase ==
  [schema |-> Root(<<Message(1), ScalarField(2, "list", Sint32Packed)>>),
   values |-> Records(<<"message", "list">>,
                      {<<m, l>> : m \in Options(BodyValues) \cup Wrong(BodyValues), l \in ShortLists}),
   readers |-> {Root(<<Message(1), ScalarField(2, "list", Sint32Packed)>>),
                Root(<<ScalarField(2, "list", Sint32Packed)>>),
                Root(<<ScalarField(2, "list", Sint32Packed), Message(1)>>)}]

OneofCase ==
  [schema |-> Root(Body), values |-> BodyValues,
   readers |-> {Root(Body), Root(<<Choice>>), Root(<<ScalarField(2, "x", Int64Explicit)>>)}]

RepeatedCase ==
  LET item(l) == Val("record", <<<<"list", l>>>>)
  IN  [schema |-> Root(<<Messages(1), ScalarField(2, "list", Sint32Packed)>>),
       values |-> Records(<<"messages", "list">>,
                          {<<m, l>> : m \in Lists({item(l) : l \in ShortLists}) \cup
                                            {Val("list", <<item(l)>>) : l \in ShortLists} \cup
                                            Wrong({item(l) : l \in ShortLists}),
                                      l \in ShortLists}),
       readers |-> {Root(<<Messages(1), ScalarField(2, "list", Sint32Packed)>>)}]

\* Metadata that no codec accepts.
BadCase(subfields) == [schema |-> Root(subfields), values |-> {}, readers |-> {}]

MCCases ==
  [c \in 1..64 |-> IF c - 1 \in ScalarCodings THEN ScalarCase(c - 1)
                   ELSE BadCase(<<ScalarField(1, "x", c - 1)>>)] \o
  <<EnumCase("EnumImplicit", "EnumImplicit"), EnumCase("EnumPacked", "EnumExpanded"),
    EnumCase("EnumExplicit", "EnumExplicit"), EnumCase("EnumExpanded", "EnumPacked"),
    MessageCase, OneofCase, RepeatedCase,
    BadCase(<<Compound(1, "color", "EnumImplicit", <<>>)>>),
    BadCase(<<Compound(0, "choice", "Oneof", <<ScalarField(1, "x", 0)>>)>>)>>
=============================================================================

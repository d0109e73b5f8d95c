------------------------------- MODULE Encode -------------------------------
(***************************************************************************)
(* ResponseEncoder (runtime/encode): a first pass over the value computes  *)
(* the lengths of everything length-delimited onto a stack, in reverse,    *)
(* and a second pass writes the bytes and pops them.                       *)
(*                                                                         *)
(* A pass is a fold over its state: an error, once there, stays.  All type *)
(* mismatches are one error.                                               *)
(***************************************************************************)
EXTENDS Wire

Fail(st, error) == [st EXCEPT !.err = error]

Mismatch == "Mismatch"
LengthInconsistency == "LENGTH_INCONSISTENCY"

tag(number, wire_type) == number * 8 + wire_type

-----------------------------------------------------------------------------
(* Construction *)

\* compile_compound: every subfield has a valid coding, a oneof only explicit
\* ones.
RECURSIVE compile_compound(_, _)
compile_compound(f, is_oneof) ==
  \A i \in DOMAIN f.subfields :
    LET sub == f.subfields[i]
        coding == sub.coding[2]
    IN  IF Scalar(sub)
        THEN /\ is_oneof => explicit_scalar(coding)
             /\ coding \in ScalarCodings
        ELSE /\ coding \in CompoundCodings
             /\ is_oneof => coding \in {"Message", "EnumExplicit"}
             /\ coding \in {"Message", "MessageExpanded"} => compile_compound(sub, FALSE)
             /\ coding = "Oneof" => compile_compound(sub, TRUE)

\* The subfield encoder, or variant number, a name leads to: later ones
\* replace earlier ones.
Named(f, name) == {i \in DOMAIN f.subfields : f.subfields[i].name = name}
SubEncoder(f, name) == f.subfields[Max(Named(f, name))]

-----------------------------------------------------------------------------
(* Scalars *)

\* The kind of value a scalar type takes.
ValKind(type) ==
  CASE type = "bytes" -> "list"
    [] type \in {"string_utf8", "string_permissive"} -> "string"
    [] type = "bool" -> "bool"
    [] type \in {"int32", "sint32", "sfixed32"} -> "s32"
    [] type \in {"uint32", "fixed32"} -> "u32"
    [] type \in {"int64", "sint64", "sfixed64"} -> "s64"
    [] type \in {"uint64", "fixed64"} -> "u64"
    [] type = "float" -> "f32"
    [] type = "double" -> "f64"

\* What implicit presence leaves out; both zeros of a float.
default(type, v) ==
  CASE type \in Stringy -> v = <<>>
    [] type = "bool" -> ~ v
    [] type \in {"float", "double"} -> v \in {0, 2^(WidthOf(type) - 1)}
    [] OTHER -> v = 0

\* The number a varint scalar is written as.  int32 is extended to 64 bits.
varint_value(type, v) ==
  CASE type \in {"sint32", "sint64"} ->
         Word(WidthOf(type), IF v < 0 THEN -2 * v - 1 ELSE 2 * v)
    [] OTHER -> Word(W64, v)

encode_inner(type, v) ==
  CASE type = "bytes" -> encode_varint(Len(v)) \o [i \in DOMAIN v |-> v[i].content]
    [] type \in {"string_utf8", "string_permissive"} -> encode_varint(Len(v)) \o v
    [] type = "bool" -> <<IF v THEN 1 ELSE 0>>
    [] WireTypeOf(type) = Varint -> encode_varint(varint_value(type, v))
    [] OTHER -> put_le(WidthOf(type), v)

FixedSize(type) == type = "bool" \/ WireTypeOf(type) \in {ThirtyTwoBit, SixtyFourBit}

\* Mutant: zigzag types are measured as they are, not as they are written.
length_inner_plain(type, v) ==
  CASE type \in Stringy -> Saturate(encoded_len_varint(Len(v)) + Len(v))
    [] type = "bool" -> 1
    [] WireTypeOf(type) = Varint -> encoded_len_varint(Word(W64, v))
    [] OTHER -> FixedLength(WidthOf(type))

length_inner(type, v) ==
  CASE type \in Stringy -> Saturate(encoded_len_varint(Len(v)) + Len(v))
    [] type = "bool" -> 1
    [] WireTypeOf(type) = Varint -> encoded_len_varint(varint_value(type, v))
    [] OTHER -> FixedLength(WidthOf(type))

\* A fixed length is computed without a look at the value.
scalar_length(type, item) ==
  IF FixedSize(type) \/ item.kind = ValKind(type)
  THEN length_inner(type, item.content) ELSE None

\* Bytes are a list, whose items must be bytes.
scalar_bytes(type, item) ==
  IF /\ item.kind = ValKind(type)
     /\ type = "bytes" => \A i \in DOMAIN item.content : item.content[i].kind = "u8"
  THEN encode_inner(type, item.content) ELSE None

-----------------------------------------------------------------------------
(* Enumerations: a variant by its number *)

\* Mutant: an unknown variant is encoded as the default.
enum_number_default(f, item) ==
  IF item.kind # "enum" THEN None
  ELSE IF Named(f, item.content) # {} THEN SubEncoder(f, item.content).number ELSE 0

enum_number(f, item) ==
  IF item.kind = "enum" /\ Named(f, item.content) # {}
  THEN SubEncoder(f, item.content).number ELSE None

enum_length(f, item) ==
  IF enum_number(f, item) = None THEN None
  ELSE encoded_len_varint(enum_number(f, item))

enum_bytes(f, item) ==
  IF enum_number(f, item) = None THEN None
  ELSE encode_varint(enum_number(f, item))

-----------------------------------------------------------------------------
(* Items, alone or in lists *)

AddLength(st, n) == [st EXCEPT !.total = Saturate(@ + n)]
PutBytes(st, bytes) == [st EXCEPT !.buf = @ \o bytes]

item_length(f, item) ==
  IF Scalar(f) THEN scalar_length(TypeOf(f.coding[2]), item) ELSE enum_length(f, item)

item_bytes(f, item) ==
  IF Scalar(f) THEN scalar_bytes(TypeOf(f.coding[2]), item) ELSE enum_bytes(f, item)

\* One item after a prefix of so many bytes.
length_item(f, prefix, item, st) ==
  LET length == item_length(f, item)
  IN  IF st.err # None THEN st
      ELSE IF length = None THEN Fail(st, Mismatch)
      ELSE AddLength(st, Saturate(length + prefix))

encode_item(f, prefix, item, st) ==
  LET bytes == item_bytes(f, item)
  IN  IF st.err # None THEN st
      ELSE IF bytes = None THEN Fail(st, Mismatch)
      ELSE PutBytes(st, prefix \o bytes)

\* Expanded lists never touch the stack.
expanded_length(f, tagged, val, st) ==
  IF val.kind # "list" THEN Fail(st, Mismatch)
  ELSE FoldLeft(LAMBDA s, item : length_item(f, encoded_len_varint(tagged), item, s),
                st, val.content)

expanded_encode(f, tagged, val, st) ==
  IF val.kind # "list" THEN Fail(st, Mismatch)
  ELSE FoldLeft(LAMBDA s, item : encode_item(f, encode_varint(tagged), item, s),
                st, val.content)

\* A length-delimited part: its length is pushed, and counted with its header.
WithHeader(n, tagged) == n + encoded_len_varint(tagged) + encoded_len_varint(n)

Delimited(st, inner, whole) ==
  IF inner.err # None THEN inner
  ELSE [inner EXCEPT !.lengths = Append(@, inner.total), !.total = Saturate(st.total + whole)]

\* The header of a length-delimited part takes its length from the stack.
Header(st, tagged) ==
  IF st.lengths = <<>> THEN Fail(st, LengthInconsistency)
  ELSE PutBytes([st EXCEPT !.lengths = Front(@)],
                encode_varint(tagged) \o encode_varint(Last(st.lengths)))

\* Packed lists that are not empty always push a length.  Lengths of scalars
\* are added with saturation, those of enumerations with a plain +, which wraps
\* around in a release build.
packed_length(f, tagged, val, st) ==
  LET Sum(n) == IF Scalar(f) THEN Saturate(n) ELSE Word(W32, n)
      add(s, item) == IF s.err # None THEN s
                      ELSE IF item_length(f, item) = None THEN Fail(s, Mismatch)
                      ELSE [s EXCEPT !.total = Sum(@ + item_length(f, item))]
      inner == FoldLeft(add, [st EXCEPT !.total = 0], val.content)
  IN  IF val.kind # "list" THEN Fail(st, Mismatch)
      ELSE IF val.content = <<>> THEN st
      ELSE Delimited(st, inner, Sum(WithHeader(inner.total, tagged)))

packed_encode(f, tagged, val, st) ==
  IF val.kind # "list" THEN Fail(st, Mismatch)
  ELSE IF val.content = <<>> THEN st
  ELSE FoldLeft(LAMBDA s, item : encode_item(f, <<>>, item, s),
                Header(st, tagged), val.content)

\* Explicit presence of a scalar is an option.
explicit_length(f, tagged, val, st) ==
  IF val.kind # "option" THEN Fail(st, Mismatch)
  ELSE IF val.content = <<>> THEN st
  ELSE length_item(f, encoded_len_varint(tagged), val.content[1], st)

explicit_encode(f, tagged, val, st) ==
  IF val.kind # "option" THEN Fail(st, Mismatch)
  ELSE IF val.content = <<>> THEN st
  ELSE encode_item(f, encode_varint(tagged), val.content[1], st)

-----------------------------------------------------------------------------
(* Fields *)

scalar_field_length(f, val, st) ==
  LET type == TypeOf(f.coding[2])
      mode == ModeOf(f.coding[2])
      tagged == tag(f.number, IF mode = "packed" THEN LengthDelimited ELSE WireTypeOf(type))
  IN  CASE mode = "explicit" -> explicit_length(f, tagged, val, st)
        [] mode = "packed" -> packed_length(f, tagged, val, st)
        [] mode = "expanded" -> expanded_length(f, tagged, val, st)
        [] mode = "implicit" ->
             IF val.kind # ValKind(type) THEN Fail(st, Mismatch)
             ELSE IF default(type, val.content) THEN st
             ELSE length_item(f, encoded_len_varint(tagged), val, st)

scalar_field_encode(f, val, st) ==
  LET type == TypeOf(f.coding[2])
      mode == ModeOf(f.coding[2])
      tagged == tag(f.number, IF mode = "packed" THEN LengthDelimited ELSE WireTypeOf(type))
  IN  CASE mode = "explicit" -> explicit_encode(f, tagged, val, st)
        [] mode = "packed" -> packed_encode(f, tagged, val, st)
        [] mode = "expanded" -> expanded_encode(f, tagged, val, st)
        [] mode = "implicit" ->
             IF val.kind # ValKind(type) THEN Fail(st, Mismatch)
             ELSE IF default(type, val.content) THEN st
             ELSE encode_item(f, encode_varint(tagged), val, st)

\* Explicit presence of an enumeration takes the variant itself.
enum_field_length(f, val, st) ==
  LET number == enum_number(f, val)
      single == encoded_len_varint(tag(f.number, Varint))
  IN  CASE Coded(f, "EnumExplicit") -> length_item(f, single, val, st)
        [] Coded(f, "EnumImplicit") ->
             IF number = 0 THEN st ELSE length_item(f, single, val, st)
        [] Coded(f, "EnumPacked") ->
             packed_length(f, tag(f.number, LengthDelimited), val, st)
        [] Coded(f, "EnumExpanded") ->
             expanded_length(f, tag(f.number, Varint), val, st)

enum_field_encode(f, val, st) ==
  LET number == enum_number(f, val)
      single == encode_varint(tag(f.number, Varint))
  IN  CASE Coded(f, "EnumExplicit") -> encode_item(f, single, val, st)
        [] Coded(f, "EnumImplicit") ->
             IF number = 0 THEN st ELSE encode_item(f, single, val, st)
        [] Coded(f, "EnumPacked") ->
             packed_encode(f, tag(f.number, LengthDelimited), val, st)
        [] Coded(f, "EnumExpanded") ->
             expanded_encode(f, tag(f.number, Varint), val, st)

RECURSIVE field_length(_, _, _), field_encode(_, _, _)

\* Mutant: lengths are pushed in the order in which they are popped.
message_inner_length_forward(f, val, st) ==
  IF val.kind # "record" THEN Fail(st, Mismatch)
  ELSE FoldLeft(LAMBDA s, named :
                  IF s.err # None THEN s
                  ELSE IF Named(f, named[1]) = {} THEN Fail(s, Mismatch)
                  ELSE field_length(SubEncoder(f, named[1]), named[2], s),
                st, val.content)

\* The fields of a record, last first, so that lengths come off the stack in
\* the order in which they are written.
message_inner_length(f, val, st) ==
  IF val.kind # "record" THEN Fail(st, Mismatch)
  ELSE FoldLeft(LAMBDA s, named :
                  IF s.err # None THEN s
                  ELSE IF Named(f, named[1]) = {} THEN Fail(s, Mismatch)
                  ELSE field_length(SubEncoder(f, named[1]), named[2], s),
                st, Reverse(val.content))

message_inner_encode(f, val, st) ==
  IF val.kind # "record" THEN Fail(st, Mismatch)
  ELSE FoldLeft(LAMBDA s, named :
                  IF s.err # None THEN s
                  ELSE IF Named(f, named[1]) = {} THEN Fail(s, Mismatch)
                  ELSE field_encode(SubEncoder(f, named[1]), named[2], s),
                st, val.content)

message_outer_length(f, val, st) ==
  IF val.kind # "option" THEN Fail(st, Mismatch)
  ELSE IF val.content = <<>> THEN st
  ELSE LET inner == message_inner_length(f, val.content[1], [st EXCEPT !.total = 0])
       IN  Delimited(st, inner, Saturate(WithHeader(inner.total, tag(f.number, LengthDelimited))))

message_outer_encode(f, val, st) ==
  IF val.kind # "option" THEN Fail(st, Mismatch)
  ELSE IF val.content = <<>> THEN st
  ELSE LET header == Header(st, tag(f.number, LengthDelimited))
       IN  IF header.err # None THEN header
           ELSE message_inner_encode(f, val.content[1], header)

\* The items of a repeated message, first to last and without a push ...
message_repeated_length(f, val, st) ==
  IF val.kind # "list" THEN Fail(st, Mismatch)
  ELSE FoldLeft(LAMBDA s, item :
                  IF s.err # None THEN s
                  ELSE LET inner == message_inner_length(f, item, [s EXCEPT !.total = 0])
                           whole == WithHeader(inner.total, tag(f.number, LengthDelimited))
                       IN  [Delimited(s, inner, Saturate(whole)) EXCEPT !.lengths = inner.lengths],
                st, val.content)

\* ... although writing them pops a length for each.
message_repeated_encode(f, val, st) ==
  IF val.kind # "list" THEN Fail(st, Mismatch)
  ELSE FoldLeft(LAMBDA s, item :
                  IF s.err # None THEN s
                  ELSE LET header == Header(s, tag(f.number, LengthDelimited))
                       IN  IF header.err # None THEN header
                           ELSE message_inner_encode(f, item, header),
                st, val.content)

\* A variant's payload goes to its own encoder, wrapped in an option.
Payload(f, variant) ==
  IF \/ variant.kind # "variant"
     \/ Named(f, variant.content[1]) = {}
     \/ variant.content[2] = <<>>
  THEN None
  ELSE [sub |-> SubEncoder(f, variant.content[1]), val |-> SomeVal(variant.content[2][1])]

oneof_length(f, val, st) ==
  IF val.kind # "option" THEN Fail(st, Mismatch)
  ELSE IF val.content = <<>> THEN st
  ELSE LET payload == Payload(f, val.content[1])
       IN  IF payload = None THEN Fail(st, Mismatch)
           ELSE field_length(payload.sub, payload.val, st)

oneof_encode(f, val, st) ==
  IF val.kind # "option" THEN Fail(st, Mismatch)
  ELSE IF val.content = <<>> THEN st
  ELSE LET payload == Payload(f, val.content[1])
       IN  IF payload = None THEN Fail(st, Mismatch)
           ELSE field_encode(payload.sub, payload.val, st)

field_length(f, val, st) ==
  CASE Scalar(f) -> scalar_field_length(f, val, st)
    [] Coded(f, "Message") -> message_outer_length(f, val, st)
    [] Coded(f, "MessageExpanded") -> message_repeated_length(f, val, st)
    [] Coded(f, "Oneof") -> oneof_length(f, val, st)
    [] OTHER -> enum_field_length(f, val, st)

field_encode(f, val, st) ==
  CASE Scalar(f) -> scalar_field_encode(f, val, st)
    [] Coded(f, "Message") -> message_outer_encode(f, val, st)
    [] Coded(f, "MessageExpanded") -> message_repeated_encode(f, val, st)
    [] Coded(f, "Oneof") -> oneof_encode(f, val, st)
    [] OTHER -> enum_field_encode(f, val, st)

-----------------------------------------------------------------------------
\* ResponseEncoder::encode: both passes over a response.
encode(f, val) ==
  LET lengths == message_inner_length(f, val, [err |-> None, lengths |-> <<>>, total |-> 0])
      written == message_inner_encode(f, val, [err |-> None, lengths |-> lengths.lengths,
                                               buf |-> <<>>])
  IN  [total |-> lengths.total,
       err |-> IF lengths.err # None THEN lengths.err ELSE written.err,
       lengths |-> IF lengths.err # None THEN lengths.lengths ELSE written.lengths,
       buf |-> IF lengths.err # None THEN <<>> ELSE written.buf]
=============================================================================

------------------------------- MODULE Decode -------------------------------
(***************************************************************************)
(* RequestDecoder (runtime/decode): fields are merged one after another    *)
(* into a record of defaults, until the limit of the message is used up.   *)
(*                                                                         *)
(* A merge maps the bytes that are left, the limit and the value so far    *)
(* (src, limit, val) to new ones, or to an error.  Reading past the end of *)
(* the buffer itself panics, except in text.                               *)
(***************************************************************************)
EXTENDS Wire

Error(st, error) == [st EXCEPT !.err = error]

Failed(st) == st.err # None

\* Go on with a step unless there was an error.
Bind(st, Rest(_)) == IF Failed(st) THEN st ELSE Rest(st)

\* Take n bytes off the buffer, without or with a check of the limit, whose
\* violation types of a fixed width call an underflow.
Advance(st, n) ==
  IF n > Len(st.src) THEN Error(st, "PANIC")
  ELSE [st EXCEPT !.src = SubSeq(@, n + 1, Len(@))]

Consume(st, n, error) ==
  IF n > st.limit THEN Error(st, error)
  ELSE Advance([st EXCEPT !.limit = @ - n], n)

-----------------------------------------------------------------------------
(* Construction *)

\* compile_message and compile_oneof_variant: valid codings, explicit ones in
\* a oneof, and a default for every implicit enumeration.
RECURSIVE compile_message(_, _)
compile_message(f, is_oneof) ==
  \A i \in DOMAIN f.subfields :
    LET sub == f.subfields[i]
        coding == sub.coding[2]
    IN  IF Scalar(sub)
        THEN /\ is_oneof => explicit_scalar(coding)
             /\ coding \in ScalarCodings
        ELSE /\ coding \in CompoundCodings
             /\ is_oneof => coding \in {"Message", "EnumExplicit"}
             /\ coding = "EnumImplicit" =>
                  \E j \in DOMAIN sub.subfields : sub.subfields[j].number = 0
             /\ coding \in {"Message", "MessageExpanded"} => compile_message(sub, FALSE)
             /\ coding = "Oneof" => compile_message(sub, TRUE)

\* What a field number leads to: the field's place in the record, and its
\* merger.  The variants of a oneof share the place of the oneof.
Mergers(f) ==
  LET Entry(i, sub, variant) == [number |-> sub.number, index |-> i, sub |-> sub,
                                 variant |-> variant]
  IN  FoldLeft(LAMBDA entries, i :
                 entries \o
                   (IF Coded(f.subfields[i], "Oneof")
                    THEN [j \in DOMAIN f.subfields[i].subfields |->
                            Entry(i, f.subfields[i].subfields[j], TRUE)]
                    ELSE <<Entry(i, f.subfields[i], FALSE)>>),
               <<>>, [i \in DOMAIN f.subfields |-> i])

Numbered(f, number) == {k \in DOMAIN Mergers(f) : Mergers(f)[k].number = number}

\* The name of a variant number; an unknown number is the default.
VariantNames(f, number) ==
  {f.subfields[i].name : i \in {j \in DOMAIN f.subfields : f.subfields[j].number = number}}

ZeroOf(type) ==
  CASE type = "bytes" -> Val("list", <<>>)
    [] type \in {"string_utf8", "string_permissive"} -> Val("string", <<>>)
    [] type = "bool" -> Val("bool", FALSE)
    [] type \in {"int32", "sint32", "sfixed32"} -> Val("s32", 0)
    [] type \in {"uint32", "fixed32"} -> Val("u32", 0)
    [] type \in {"int64", "sint64", "sfixed64"} -> Val("s64", 0)
    [] type \in {"uint64", "fixed64"} -> Val("u64", 0)
    [] type = "float" -> Val("f32", 0)
    [] type = "double" -> Val("f64", 0)

DefaultOf(f) ==
  LET coding == f.coding[2]
  IN  IF Scalar(f)
      THEN CASE ModeOf(coding) = "implicit" -> ZeroOf(TypeOf(coding))
             [] ModeOf(coding) = "explicit" -> NoneVal
             [] OTHER -> Val("list", <<>>)
      ELSE CASE coding = "EnumImplicit" ->
                  Val("enum", CHOOSE name \in VariantNames(f, 0) : TRUE)
             [] coding \in {"EnumExplicit", "Message", "Oneof"} -> NoneVal
             [] OTHER -> Val("list", <<>>)

Defaults(f) ==
  Val("record", [i \in DOMAIN f.subfields |-> <<f.subfields[i].name, DefaultOf(f.subfields[i])>>])

-----------------------------------------------------------------------------
(* Reading *)

\* A varint counts against the limit with its shortest length.
read_varint(st) ==
  LET n == VarintEnd(st.src)
      v == decode_varint(st.src)
  IN  IF n = 0 THEN Error(st, "INVALID_VARINT")
      ELSE IF encoded_len_varint(v) > st.limit THEN Error(st, "BUFFER_OVERFLOW")
      ELSE [Advance(st, n) EXCEPT !.limit = @ - encoded_len_varint(v), !.val = v]

decode_tag(st) ==
  Bind(read_varint(st), LAMBDA read :
    IF read.val \div 8 > MaxU32 THEN Error(read, "INVALID_FIELD_NUMBER")
    ELSE IF read.val % 8 >= 6 THEN Error(read, "INVALID_WIRE_TYPE")
    ELSE [read EXCEPT !.val = [number |-> read.val \div 8, wire_type |-> read.val % 8]])

\* A length, which comes off the limit with what it announces.
read_length_check_overflow(st) ==
  Bind(read_varint(st), LAMBDA read :
    IF read.val > MaxU32 THEN Error(read, "INVALID_LENGTH_VARINT")
    ELSE IF read.val > read.limit THEN Error(read, "BUFFER_OVERFLOW")
    ELSE [read EXCEPT !.limit = @ - read.val])

skip(wire_type, st) ==
  CASE wire_type = Varint -> read_varint(st)
    [] wire_type = SixtyFourBit -> Consume(st, FixedLength(W64), "BUFFER_OVERFLOW")
    [] wire_type = ThirtyTwoBit -> Consume(st, FixedLength(W32), "BUFFER_OVERFLOW")
    [] wire_type = LengthDelimited ->
         Bind(read_length_check_overflow(st), LAMBDA read : Advance(read, read.val))
    [] OTHER -> st

-----------------------------------------------------------------------------
(* Scalars *)

\* The value of a varint: 32-bit types reject what has more bits, int32 also
\* what is negative; the shift of a 64-bit zigzag is arithmetic.
varint_val(type, n) ==
  LET zigzag(m) == IF m % 2 = 0 THEN m \div 2 ELSE - (m \div 2) - 1
  IN  CASE type = "int32" -> IF n >= 2^(W32 - 1) THEN None ELSE Val("s32", n)
        [] type = "sint32" -> IF n > MaxU32 THEN None ELSE Val("s32", zigzag(n))
        [] type = "uint32" -> IF n > MaxU32 THEN None ELSE Val("u32", n)
        [] type = "int64" -> Val("s64", Signed(W64, n))
        [] type = "sint64" -> Val("s64", zigzag(Signed(W64, n)))
        [] type = "uint64" -> Val("u64", n)

fixed_val(type, n) ==
  CASE type = "sfixed32" -> Val("s32", Signed(W32, n))
    [] type = "fixed32" -> Val("u32", n)
    [] type = "float" -> Val("f32", n)
    [] type = "sfixed64" -> Val("s64", Signed(W64, n))
    [] type = "fixed64" -> Val("u64", n)
    [] type = "double" -> Val("f64", n)

\* Text is valid when no byte has its highest bit set.
stringy_val(type, bytes) ==
  CASE type = "bytes" -> Val("list", [i \in DOMAIN bytes |-> Val("u8", bytes[i])])
    [] type = "string_permissive" -> Val("string", bytes)
    [] type = "string_utf8" ->
         IF \A i \in DOMAIN bytes : bytes[i] < Radix THEN Val("string", bytes) ELSE None

\* Bytes are read one by one; text is what is left of the buffer, at most.
stringy_inner(type, st) ==
  Bind(read_length_check_overflow(st), LAMBDA read :
    LET n == IF type = "bytes" THEN read.val ELSE Min({read.val, Len(read.src)})
    IN  Bind(Advance(read, n), LAMBDA rest :
          LET val == stringy_val(type, SubSeq(read.src, 1, n))
          IN  IF val = None THEN Error(rest, "INVALID_UTF8") ELSE [rest EXCEPT !.val = val]))

\* A byte of a bool is checked after it is read.
decode_inner(type, st) ==
  CASE type \in Stringy -> stringy_inner(type, st)
    [] type = "bool" ->
         Bind(Consume(st, 1, "BUFFER_OVERFLOW"), LAMBDA rest :
           IF Head(st.src) > 1 THEN Error(rest, "INVALID_BOOL")
           ELSE [rest EXCEPT !.val = Val("bool", Head(st.src) = 1)])
    [] WireTypeOf(type) = Varint ->
         Bind(read_varint(st), LAMBDA read :
           IF varint_val(type, read.val) = None THEN Error(read, "OVERFLOW_32BIT")
           ELSE [read EXCEPT !.val = varint_val(type, read.val)])
    [] OTHER ->
         Bind(Consume(st, FixedLength(WidthOf(type)), "BUFFER_UNDERFLOW"), LAMBDA rest :
           [rest EXCEPT !.val = fixed_val(type, get_le(WidthOf(type), st.src))])

enum_inner(f, st) ==
  Bind(read_varint(st), LAMBDA read :
    LET names == VariantNames(f, read.val)
    IN  IF read.val > MaxU32 THEN Error(read, "OVERFLOW_32BIT")
        ELSE IF names \cup VariantNames(f, 0) = {} THEN Error(read, "ENUM_NO_DEFAULT")
        ELSE [read EXCEPT !.val =
                Val("enum", CHOOSE name \in IF names # {} THEN names ELSE VariantNames(f, 0) : TRUE)])

-----------------------------------------------------------------------------
(* Merging; dst is the value so far *)

Then(st, Wrap(_)) == Bind(st, LAMBDA read : [read EXCEPT !.val = Wrap(read.val)])

Push(dst, item) == [dst EXCEPT !.content = Append(@, item)]

item_inner(f, st) ==
  IF Scalar(f) THEN decode_inner(TypeOf(f.coding[2]), st) ELSE enum_inner(f, st)

\* A single item, of the wire type of the field.
singular_merge(f, wire_type, expected, st) ==
  IF wire_type # expected THEN Error(st, "WIRETYPE") ELSE item_inner(f, st)

\* Items until the length is used up.
RECURSIVE Items(_, _, _)
Items(f, st, dst) ==
  IF Failed(st) \/ st.limit = 0 THEN [st EXCEPT !.val = dst]
  ELSE Bind(item_inner(f, st), LAMBDA read : Items(f, read, Push(dst, read.val)))

\* A repeated field that can be packed takes packed and single items, mixed.
repeated_merge(f, wire_type, expected, st, dst) ==
  IF wire_type = LengthDelimited
  THEN Bind(read_length_check_overflow(st), LAMBDA read :
              [Items(f, [read EXCEPT !.limit = read.val], dst) EXCEPT !.limit = read.limit])
  ELSE Then(singular_merge(f, wire_type, expected, st), LAMBDA item : Push(dst, item))

scalar_merge(f, wire_type, st, dst) ==
  LET type == TypeOf(f.coding[2])
      mode == ModeOf(f.coding[2])
      expected == WireTypeOf(type)
  IN  CASE mode = "explicit" -> Then(singular_merge(f, wire_type, expected, st), SomeVal)
        [] mode = "implicit" -> singular_merge(f, wire_type, expected, st)
        [] OTHER ->
             IF type \in Stringy
             THEN Then(singular_merge(f, wire_type, expected, st), LAMBDA item : Push(dst, item))
             ELSE repeated_merge(f, wire_type, expected, st, dst)

enum_merge(f, wire_type, st, dst) ==
  CASE Coded(f, "EnumExplicit") -> Then(singular_merge(f, wire_type, Varint, st), SomeVal)
    [] Coded(f, "EnumImplicit") -> singular_merge(f, wire_type, Varint, st)
    [] OTHER -> repeated_merge(f, wire_type, Varint, st, dst)

RECURSIVE message_inner_merge(_, _, _), merge(_, _, _, _)

\* A message of its own length, which replaces what was there before.
message_merge(f, wire_type, st) ==
  IF wire_type # LengthDelimited THEN Error(st, "WIRETYPE")
  ELSE Bind(read_length_check_overflow(st), LAMBDA read :
              [message_inner_merge(f, [read EXCEPT !.limit = read.val], Defaults(f))
                 EXCEPT !.limit = read.limit])

message_outer_merge(f, wire_type, st) ==
  Then(message_merge(f, wire_type, st), SomeVal)

message_repeated_merge(f, wire_type, st, dst) ==
  Then(message_merge(f, wire_type, st), LAMBDA item : Push(dst, item))

\* A variant replaces the oneof, whichever variant was set before.
oneof_variant_merge(f, wire_type, st) ==
  Then(merge(f, wire_type, st, NoneVal),
       LAMBDA val : SomeVal(Val("variant", <<f.name, val.content>>)))

merge(f, wire_type, st, dst) ==
  CASE Scalar(f) -> scalar_merge(f, wire_type, st, dst)
    [] Coded(f, "Message") -> message_outer_merge(f, wire_type, st)
    [] Coded(f, "MessageExpanded") -> message_repeated_merge(f, wire_type, st, dst)
    [] OTHER -> enum_merge(f, wire_type, st, dst)

\* Where a field goes and how it is merged into what is there.
field_merge(entry, wire_type, st, dst) ==
  IF entry.variant THEN oneof_variant_merge(entry.sub, wire_type, st)
  ELSE merge(entry.sub, wire_type, st, dst.content[entry.index][2])

\* Fields until the limit is used up; an unknown one is skipped.
message_inner_merge(f, st, dst) ==
  IF Failed(st) THEN st
  ELSE IF st.limit = 0 THEN [st EXCEPT !.val = dst]
  ELSE Bind(decode_tag(st), LAMBDA tagged :
         LET entries == Numbered(f, tagged.val.number)
             entry == Mergers(f)[Max(entries)]
         IN  IF entries = {}
             THEN message_inner_merge(f, skip(tagged.val.wire_type, tagged), dst)
             ELSE Bind(field_merge(entry, tagged.val.wire_type, tagged, dst), LAMBDA merged :
                    message_inner_merge(f, merged,
                                        [dst EXCEPT !.content[entry.index][2] = merged.val])))

-----------------------------------------------------------------------------
\* RequestDecoder::decode: the whole buffer is one message.
decode(f, src) ==
  message_inner_merge(f, [err |-> None, limit |-> Len(src), src |-> src, val |-> None],
                      Defaults(f))
=============================================================================

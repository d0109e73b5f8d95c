-------------------------------- MODULE Wire --------------------------------
(***************************************************************************)
(* What the encoder and the decoder share: component values, container     *)
(* metadata fields, tags, and the primitives of the wire format that they  *)
(* take from prost and bytes.                                              *)
(*                                                                         *)
(* Integers keep their width, but the widths are parameters: a byte has    *)
(* ByteBits bits, one of which continues a varint, and words have W32 and  *)
(* W64 bits (8, 32 and 64 in the code).                                    *)
(***************************************************************************)
EXTENDS Integers, Sequences, FiniteSets, SequencesExt, FiniteSetsExt

CONSTANTS ByteBits, W32, W64, None

ASSUME WireAssumption ==
  /\ ByteBits \in Nat /\ ByteBits > 3
  /\ W32 \in Nat /\ W64 \in Nat /\ W32 < W64
  /\ W32 % ByteBits = 0 /\ W64 % ByteBits = 0

-----------------------------------------------------------------------------
(* Words *)

Word(w, n)   == n % 2^w
Signed(w, u) == IF u >= 2^(w - 1) THEN u - 2^w ELSE u
MaxU32       == 2^W32 - 1
Saturate(n)  == IF n > MaxU32 THEN MaxU32 ELSE n

Radix     == 2^(ByteBits - 1)
MaxVarint == (W64 + ByteBits - 2) \div (ByteBits - 1)

encoded_len_varint(n) == 1 + Cardinality({k \in 1..(MaxVarint - 1) : n >= Radix^k})

encode_varint(n) ==
  LET len == encoded_len_varint(n)
  IN  [k \in 1..len |->
         ((n \div Radix^(k - 1)) % Radix) + (IF k < len THEN Radix ELSE 0)]

\* Where the varint at the start of src ends: 0 if it does not end in time
\* or has more than W64 bits.
VarintEnd(src) ==
  LET last == {k \in 1..MaxVarint : k <= Len(src) /\ src[k] < Radix}
      fits(k) == k = MaxVarint => src[k] < 2^(W64 - (MaxVarint - 1) * (ByteBits - 1))
  IN  IF last # {} /\ fits(Min(last)) THEN Min(last) ELSE 0

decode_varint(src) ==
  MapThenSumSet(LAMBDA k : (src[k] % Radix) * Radix^(k - 1), 1..VarintEnd(src))

\* Little-endian words of a fixed width.
FixedLength(w) == w \div ByteBits

put_le(w, n) ==
  [k \in 1..FixedLength(w) |-> (Word(w, n) \div 2^(ByteBits * (k - 1))) % 2^ByteBits]

get_le(w, src) ==
  MapThenSumSet(LAMBDA k : src[k] * 2^(ByteBits * (k - 1)), 1..FixedLength(w))

-----------------------------------------------------------------------------
(* Component values, with the contents of their kind *)

Val(kind, v) == [kind |-> kind, content |-> v]

NoneVal    == Val("option", <<>>)
SomeVal(v) == Val("option", <<v>>)

-----------------------------------------------------------------------------
(* Metadata: a field has a number, a name, a coding and subfields *)

Varint == 0
SixtyFourBit == 1
LengthDelimited == 2
StartGroup == 3
EndGroup == 4
ThirtyTwoBit == 5

\* Scalar codings count [implicit, packed, explicit, expanded] for each type.
ScalarTypes ==
  <<"bytes", "string_utf8", "string_permissive", "bool",
    "int32", "sint32", "sfixed32", "uint32", "fixed32",
    "int64", "sint64", "sfixed64", "uint64", "fixed64", "float", "double">>

ModeOf(coding) == <<"implicit", "packed", "explicit", "expanded">>[(coding % 4) + 1]
TypeOf(coding) == ScalarTypes[(coding \div 4) + 1]

Stringy == {"bytes", "string_utf8", "string_permissive"}

ScalarCodings == (0..63) \ {1, 5, 9}

explicit_scalar(coding) == coding % 4 = 2

CompoundCodings ==
  {"EnumImplicit", "EnumPacked", "EnumExplicit", "EnumExpanded",
   "Message", "MessageExpanded", "Oneof"}

Field(number, name, coding, subfields) ==
  [number |-> number, name |-> name, coding |-> coding, subfields |-> subfields]

Scalar(f) == f.coding[1] = "scalar"
Coded(f, coding) == f.coding = <<"compound", coding>>

\* The width of the integers of a type.
WidthOf(type) ==
  IF type \in {"int32", "sint32", "sfixed32", "uint32", "fixed32", "float"}
  THEN W32 ELSE W64

\* How a value of a type travels outside of a packed list.
WireTypeOf(type) ==
  CASE type \in Stringy -> LengthDelimited
    [] type \in {"sfixed32", "fixed32", "float"} -> ThirtyTwoBit
    [] type \in {"sfixed64", "fixed64", "double"} -> SixtyFourBit
    [] OTHER -> Varint
=============================================================================

------------------------------- MODULE Codec -------------------------------
(***************************************************************************)
(* The codec of a method (runtime/pods.rs): the response encoder of one    *)
(* container, and the request decoder of another that reads what it wrote. *)
(* The reader's metadata may be older or newer than the writer's.          *)
(***************************************************************************)
EXTENDS Encode, Decode

CONSTANT
  Cases    \* a sequence of [schema, values, readers]: a response type, values
           \* to encode, request types that read them

VARIABLES
  case,    \* the container's metadata
  phase,   \* "start", "rejected", "ready", "sent", "failed" or "received"
  value,   \* the last response
  sent,    \* its encoding
  reader,  \* the last request type
  times,   \* how often the encoding is repeated in the request
  got      \* the decoded request

vars == <<case, phase, value, sent, reader, times, got>>

schema == Cases[case].schema

Init ==
  /\ case \in DOMAIN Cases
  /\ phase = "start"
  /\ value = None /\ sent = None /\ reader = None /\ times = 0 /\ got = None

\* Codec::new, when a container is created, and created again if it fails.
new ==
  /\ phase \in {"start", "rejected"}
  /\ phase' = IF compile_compound(schema, FALSE) /\ compile_message(schema, FALSE)
              THEN "ready" ELSE "rejected"
  /\ UNCHANGED <<case, value, sent, reader, times, got>>

respond(val) ==
  /\ phase = "ready"
  /\ value' = val
  /\ sent' = encode(schema, val)
  /\ phase' = IF sent'.err = None THEN "sent" ELSE "failed"
  /\ UNCHANGED <<case, reader, times, got>>

\* Messages may be concatenated: a request holds the encoding once or twice.
request(f, n) ==
  /\ phase = "sent"
  /\ reader' = f
  /\ times' = n
  /\ got' = decode(f, IF n = 2 THEN sent.buf \o sent.buf ELSE sent.buf)
  /\ phase' = "received"
  /\ UNCHANGED <<case, value, sent>>

\* The next call finds the codec as it was.
return ==
  /\ phase \in {"failed", "received"}
  /\ phase' = "ready"
  /\ value' = None /\ sent' = None /\ reader' = None /\ times' = 0 /\ got' = None
  /\ UNCHANGED case

Next ==
  \/ new
  \/ return
  \/ \E val \in Cases[case].values : respond(val)
  \/ \E f \in Cases[case].readers, n \in 1..2 : request(f, n)

Spec == Init /\ [][Next]_vars

-----------------------------------------------------------------------------
(* Reference: the values of a type, and what is known not to travel *)

\* An enumeration with explicit presence is encoded from the variant itself,
\* not from an option; a oneof, which wraps its payload in an option, has no
\* value for such a variant.
RECURSIVE WellTyped(_, _)
WellTyped(f, val) ==
  LET item(v) == IF Scalar(f)
                 THEN /\ v.kind = ValKind(TypeOf(f.coding[2]))
                      /\ TypeOf(f.coding[2]) = "bytes" =>
                           \A i \in DOMAIN v.content : v.content[i].kind = "u8"
                 ELSE v.kind = "enum" /\ \E i \in DOMAIN f.subfields : f.subfields[i].name = v.content
      record(v) == /\ v.kind = "record"
                   /\ \A i \in DOMAIN v.content : \E j \in DOMAIN f.subfields :
                        f.subfields[j].name = v.content[i][1] /\ WellTyped(f.subfields[j], v.content[i][2])
      some(v, Of(_)) == v.kind = "option" /\ (v.content # <<>> => Of(v.content[1]))
      every(v, Of(_)) == v.kind = "list" /\ \A i \in DOMAIN v.content : Of(v.content[i])
      coding == IF Scalar(f) THEN ModeOf(f.coding[2]) ELSE f.coding[2]
      variant(v) == /\ v.kind = "variant"
                    /\ \E j \in DOMAIN f.subfields :
                         /\ f.subfields[j].name = v.content[1]
                         /\ WellTyped(f.subfields[j], Val("option", v.content[2]))
                    /\ v.content[2] # <<>>
  IN  CASE coding = "root" -> record(val)
        [] coding \in {"implicit", "EnumImplicit", "EnumExplicit"} -> item(val)
        [] coding = "explicit" -> some(val, item)
        [] coding \in {"packed", "expanded", "EnumPacked", "EnumExpanded"} -> every(val, item)
        [] coding = "Message" -> some(val, record)
        [] coding = "MessageExpanded" -> every(val, record)
        [] coding = "Oneof" -> some(val, variant)

\* Whether some field of a record, at any depth, is one that P holds of.
RECURSIVE Somewhere(_, _, _)
Somewhere(P(_, _), f, rec) ==
  \E i \in DOMAIN rec.content : \E j \in DOMAIN f.subfields :
    LET sub == f.subfields[j]
        v == rec.content[i][2]
    IN  /\ sub.name = rec.content[i][1]
        /\ \/ P(sub, v)
           \/ /\ Coded(sub, "Message") /\ v.content # <<>>
              /\ Somewhere(P, sub, v.content[1])
           \/ /\ Coded(sub, "Oneof") /\ v.content # <<>>
              /\ Somewhere(P, sub, Val("record", <<<<v.content[1].content[1], Val("option", v.content[1].content[2])>>>>))

\* Fields that the encoder refuses although their values have the right type.
Refused(f, v) == Coded(f, "MessageExpanded") /\ v.content # <<>>

\* Numbers that the decoder does not read back: a negative int32, a sint64 of
\* more than W64 - 2 bits, and the negative zero of an implicit float.
Unreadable(f, v) ==
  /\ Scalar(f)
  /\ LET type == TypeOf(f.coding[2])
         numbers == IF ModeOf(f.coding[2]) = "implicit" THEN <<v>> ELSE v.content
     IN  \E i \in DOMAIN numbers :
           \/ type = "int32" /\ numbers[i].content < 0
           \/ type = "sint64" /\ numbers[i].content \notin (- 2^(W64 - 2))..(2^(W64 - 2) - 1)
           \/ /\ type \in {"float", "double"}
              /\ ModeOf(f.coding[2]) = "implicit"
              /\ numbers[i].content = 2^(WidthOf(type) - 1)

\* What a reader should find: the fields it knows, in its own order, and its
\* defaults for the others; lists once for every copy, and enumerations with
\* explicit presence in an option, which the encoder does not take back.
Expected(f, rec, n) ==
  LET fieldIn(name) == {i \in DOMAIN rec.content : rec.content[i][1] = name}
      copies(sub, v) ==
        IF n = 2 /\ DefaultOf(sub) = Val("list", <<>>) /\ ~ (Scalar(sub) /\ ModeOf(sub.coding[2]) = "implicit")
        THEN Val("list", v.content \o v.content)
        ELSE IF Coded(sub, "EnumExplicit") THEN SomeVal(v) ELSE v
  IN  Val("record", [i \in DOMAIN f.subfields |->
        LET sub == f.subfields[i]
        IN  <<sub.name, IF fieldIn(sub.name) = {} THEN DefaultOf(sub)
                        ELSE copies(sub, rec.content[Min(fieldIn(sub.name))][2])>>])

-----------------------------------------------------------------------------
(* Properties *)

(* The length pass and the encoding pass of ResponseEncoder agree: the     *)
(* bytes written are as many as computed, and every length on the stack is *)
(* used ("make sure we used all the pre-computed lengths as expected").    *)
LengthsMatchBytes ==
  phase \in {"sent", "received"} =>
    /\ Len(sent.buf) = sent.total
    /\ sent.lengths = <<>>

(* A response is sent exactly when every part of it has the type that the  *)
(* encoder of its field takes, and none of its fields, at any depth, is a  *)
(* repeated message with items.  No value of another type is ever encoded, *)
(* although the length pass does not check every type, and none is turned  *)
(* into another value on the way: an option where a value belongs, a value *)
(* in place of an option or a list, a variant that the type does not have. *)
SentWhenEncodable ==
  phase \in {"sent", "failed"} =>
    (phase = "sent" <=> WellTyped(schema, value) /\ ~ Somewhere(Refused, schema, value))

(* What one container encodes another decodes: with fields it does not     *)
(* know skipped and those it misses at their defaults, packed or expanded, *)
(* in any order of fields, also when messages are concatenated - exactly   *)
(* unless a number is one the decoder does not read back.                  *)
ReadersAgree ==
  phase = "received" =>
    ((got.err = None /\ got.val = Expected(reader, value, times))
       <=> ~ Somewhere(Unreadable, reader, value))

(* The encoder's "fundamental issue": a response of the right type runs    *)
(* out of computed lengths.                                                *)
LengthsNeverRunOut ==
  (phase = "failed" /\ WellTyped(schema, value)) => sent.err # LengthInconsistency
=============================================================================

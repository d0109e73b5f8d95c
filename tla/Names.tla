------------------------------- MODULE Names -------------------------------
(***************************************************************************)
(* Component names and pod names (runtime/names.rs):                       *)
(*     domain-id ':' server-id '@' version '#' pod-id                      *)
(* and the hexadecimal strings they are made of.  A name is what a kubelet *)
(* hands back to find its pod, and the key of files and addresses.         *)
(*                                                                         *)
(* A text is a sequence of tokens: separators, the digits of pod ids, and  *)
(* tokens that stand for a whole domain id, server id or version.          *)
(***************************************************************************)
EXTENDS Integers, Sequences, FiniteSets, FiniteSetsExt, Functions

CONSTANTS
  Tokens,       \* what texts consist of
  Domains,      \* domain ids, as texts
  Servers,      \* texts that is_valid_server_name accepts
  Versions,     \* texts that is_valid_version accepts
  Digit,        \* the digit that a token stands for
  Canonical,    \* the tokens that {:x} writes
  PodIdDigits,  \* hexadecimal digits of a PodId (16)
  HexBytes,     \* bytes that strings consist of, hexadecimal or not
  Chunk,        \* bytes that hexify converts at once (16)
  Starts,       \* texts to begin with
  MaxWritten,   \* bound: tokens added to them
  HexStarts,    \* strings of bytes to begin with
  MaxHex,       \* bound: bytes added to them
  None

DOMAIN_SEPARATOR  == ":"
VERSION_SEPARATOR == "@"
POD_ID_SEPARATOR  == "#"
Separators == {DOMAIN_SEPARATOR, VERSION_SEPARATOR, POD_ID_SEPARATOR, "/"}

\* The alphabets of the parts of a name exclude what separates them, and a
\* domain id has digits.
ASSUME SeparatorAssumption ==
  /\ Separators \subseteq Tokens
  /\ Canonical \subseteq DOMAIN Digit
  /\ \A part \in Domains \cup Servers \cup Versions :
       part \in Seq(Tokens) /\ Range(part) \subseteq Tokens \ Separators
  /\ <<>> \notin Domains
  /\ DOMAIN Digit \cap Separators = {}

\* Every digit is written with one token of its own, and the sign is none.
ASSUME DigitAssumption ==
  /\ PodIdDigits \in Nat \ {0}
  /\ Canonical \subseteq Tokens
  /\ \A t \in DOMAIN Digit : /\ Digit[t] \in 0..15
                             /\ \E u \in Canonical : Digit[u] = Digit[t]
  /\ \A t, u \in Canonical : Digit[t] = Digit[u] => t = u
  /\ "+" \notin DOMAIN Digit

\* Texts are made of tokens and strings of bytes; a chunk has bytes.
ASSUME TextAssumption ==
  /\ Starts \subseteq Seq(Tokens)
  /\ HexBytes \subseteq 0..255
  /\ HexStarts \subseteq Seq(0..255)
  /\ Chunk \in Nat \ {0}

\* None is neither a text, a number nor a name.
ASSUME NoneAssumption ==
  LET names == [domain : Domains, server : Servers, version : Versions]
  IN  /\ None \notin Int /\ None \notin Seq(Tokens) /\ None \notin Seq(Int)
      /\ None \notin names /\ None \notin [component : names, pod : Int]

VARIABLES
  start,  \* what was there to begin with
  text,   \* a text that may be a name
  hex     \* a string that may be hexadecimal

vars == <<start, text, hex>>

-----------------------------------------------------------------------------
(* Name *)

\* Where one of the separators is first found, or 0.
find(s, separators) ==
  LET places == {k \in DOMAIN s : s[k] \in separators}
  IN  IF places = {} THEN 0 ELSE Min(places)

Before(s, k) == SubSeq(s, 1, k - 1)
After(s, k)  == SubSeq(s, k + 1, Len(s))

\* Mutant: an empty pod id is none.
parse_version_empty(s) ==
  LET k == find(s, {POD_ID_SEPARATOR})
  IN  IF k = 0 THEN [version |-> s, pod |-> None]
      ELSE [version |-> Before(s, k), pod |-> IF k = Len(s) THEN None ELSE After(s, k)]

\* A version, and a pod id if there is one.
parse_version(s) ==
  LET k == find(s, {POD_ID_SEPARATOR})
  IN  IF k = 0 THEN [version |-> s, pod |-> None]
      ELSE [version |-> Before(s, k), pod |-> After(s, k)]

\* Name::parse takes anything apart, valid or not.
parse(full) ==
  LET k == find(full, {DOMAIN_SEPARATOR, VERSION_SEPARATOR})
      explicit == k # 0 /\ full[k] = DOMAIN_SEPARATOR
      rest == IF explicit THEN After(full, k) ELSE full
      v == find(rest, {VERSION_SEPARATOR})
      parts == IF v = 0 THEN [version |-> None, pod |-> None]
               ELSE parse_version(After(rest, v))
  IN  [domain |-> IF explicit THEN Before(full, k) ELSE None,
       server |-> IF v = 0 THEN rest ELSE Before(rest, v),
       version |-> parts.version, pod |-> parts.pod]

\* How many PodIds there are: 16^PodIdDigits.
Powers ==
  LET power[k \in 0..PodIdDigits] == IF k = 0 THEN 1 ELSE 16 * power[k - 1] IN power
PodIds == Powers[PodIdDigits]

\* The numbers of the beginnings of a sequence of digits.
Values(digits) ==
  LET value[k \in 0..Len(digits)] ==
        IF k = 0 THEN 0 ELSE 16 * value[k - 1] + Digit[digits[k]]
  IN  value

\* The number of a text of digits after an optional sign, in the width of a
\* PodId.
from_str_radix(s) ==
  LET digits == IF s # <<>> /\ s[1] = "+" THEN Tail(s) ELSE s
      value == Values(digits)[Len(digits)]
  IN  IF /\ digits # <<>>
         /\ Range(digits) \subseteq DOMAIN Digit
         /\ value \in 0..(PodIds - 1)
      THEN value ELSE None

\* ComponentName::new checks the version, then the server.
ComponentName(domain, server, version) ==
  IF domain \in Domains /\ version \in Versions /\ server \in Servers
  THEN [domain |-> domain, server |-> server, version |-> version] ELSE None

component(name) ==
  IF None \in {name.domain, name.version} \/ name.pod # None THEN None
  ELSE ComponentName(name.domain, name.server, name.version)

pod(name) ==
  IF None \in {name.domain, name.version, name.pod} THEN None
  ELSE LET of == ComponentName(name.domain, name.server, name.version)
           id == from_str_radix(name.pod)
       IN  IF None \in {of, id} THEN None ELSE [component |-> of, pod |-> id]

\* Mutant: the number is written in decimal.
lower_hex_decimal(n) ==
  LET width == Min({k \in 1..(2 * PodIdDigits) : n < 10^k})
  IN  [k \in 1..width |-> CHOOSE t \in Canonical : Digit[t] = (n \div 10^(width - k)) % 10]

\* What is left of a number after dividing it by 16 again and again.
Rests(n) ==
  LET rest[k \in 0..PodIdDigits] == IF k = 0 THEN n ELSE rest[k - 1] \div 16 IN rest

\* {:x}: without leading zeros, in lower case.
lower_hex(n) ==
  LET rest == Rests(n)
      width == Min({k \in 1..PodIdDigits : rest[k] = 0})
  IN  [k \in 1..width |-> CHOOSE t \in Canonical : Digit[t] = rest[width - k] % 16]

fmt_component(c) ==
  c.domain \o <<DOMAIN_SEPARATOR>> \o c.server
    \o <<VERSION_SEPARATOR>> \o c.version

fmt_pod(p) == fmt_component(p.component) \o <<POD_ID_SEPARATOR>> \o lower_hex(p.pod)

\* The component of an image id, <registry>/<domain-id>/<server-id>:<version>
\* (runtime/cri/image.rs): the first two slashes, then the first colon.
component_from_image_spec(s) ==
  LET registry == find(s, {"/"})
      path == After(s, registry)
      domain == find(path, {"/"})
      rest == After(path, domain)
      server == find(rest, {DOMAIN_SEPARATOR})
  IN  IF 0 \in {registry, domain, server} THEN None
      ELSE ComponentName(Before(path, domain), Before(rest, server), After(rest, server))

-----------------------------------------------------------------------------
(* Hexadecimal strings, as bytes *)

ZERO == 48
NINE == 57
A == 97
F == 102

\* One character per nibble, lower nibbles first; both in hexify and in the
\* loop over what is left of a string.
HexChar(n) == n + IF n > 9 THEN A - 10 ELSE ZERO

hexify(bytes) ==
  [k \in 1..(2 * Len(bytes)) |->
     LET byte == bytes[(k + 1) \div 2]
     IN  HexChar(IF k % 2 = 1 THEN byte % 16 ELSE byte \div 16)]

hexify_string(bytes) ==
  LET chunked == Len(bytes) - (Len(bytes) % Chunk)
  IN  hexify(SubSeq(bytes, 1, chunked)) \o hexify(SubSeq(bytes, chunked + 1, Len(bytes)))

\* The arithmetic of bytes.
Nibble(c) == (c - (IF c > NINE THEN A - 10 ELSE ZERO)) % 256

Combined(s) ==
  [k \in 1..(Len(s) \div 2) |-> (Nibble(s[2 * k - 1]) + 16 * Nibble(s[2 * k])) % 256]

\* Mutant: only what is outside of '0' to 'f' is refused.
unhexify_outside(s) ==
  IF \E k \in DOMAIN s : s[k] < ZERO \/ s[k] > F THEN None ELSE Combined(s)

\* A chunk is refused for what is outside of '0' to 'f' or between '9' and 'a'.
unhexify(s) ==
  IF \E k \in DOMAIN s : s[k] < ZERO \/ s[k] > F \/ (s[k] > NINE /\ s[k] < A)
  THEN None ELSE Combined(s)

\* A character after the last chunk has to be in one of two ranges.
unhexify_nibble(c) == IF c \in (ZERO..NINE) \cup (A..F) THEN Nibble(c) ELSE None

\* UTF-8: how many bytes the first one of a character announces, the second
\* bytes that may follow it, and bytes that only stand after a first one.
Announced(byte) ==
  CASE byte \in 0..127 -> 1 [] byte \in 194..223 -> 2
    [] byte \in 224..239 -> 3 [] byte \in 240..244 -> 4 [] OTHER -> 0

Second(byte) ==
  CASE byte = 224 -> 160..191 [] byte = 237 -> 128..159
    [] byte = 240 -> 144..191 [] byte = 244 -> 128..143 [] OTHER -> 128..191

Continues == 128..191

\* Every first byte is followed by what it announces, and nothing else is there.
from_utf8(bytes) ==
  \A k \in DOMAIN bytes :
    LET n == Announced(bytes[k])
    IN  IF bytes[k] \in Continues
        THEN \E j \in 1..3 : /\ j < k /\ j < Announced(bytes[k - j])
                             /\ \A i \in 1..(j - 1) : bytes[k - i] \in Continues
        ELSE /\ n > 0 /\ k + n - 1 <= Len(bytes)
             /\ \A i \in 1..(n - 1) : bytes[k + i] \in Continues
             /\ n > 1 => bytes[k + 1] \in Second(bytes[k])

\* Whole chunks, then what is left, which has to be UTF-8 together.
unhexify_string(s) ==
  LET chunked == Len(s) - (Len(s) % (2 * Chunk))
      rest == SubSeq(s, chunked + 1, Len(s))
      bytes == Combined(s)
  IN  IF \/ Len(s) % 2 # 0
         \/ unhexify(SubSeq(s, 1, chunked)) = None
         \/ \E k \in DOMAIN rest : unhexify_nibble(rest[k]) = None
         \/ ~ from_utf8(bytes)
      THEN None ELSE bytes

-----------------------------------------------------------------------------
(* Any text, and any string, can be given *)

Init ==
  \/ start \in Starts /\ text = start /\ hex = <<>>
  \/ start \in HexStarts /\ hex = start /\ text = <<>>

write(t) ==
  /\ hex = <<>>
  /\ Len(text) < Len(start) + MaxWritten
  /\ text' = Append(text, t)
  /\ UNCHANGED <<start, hex>>

write_hex(c) ==
  /\ text = <<>>
  /\ Len(hex) < Len(start) + MaxHex
  /\ hex' = Append(hex, c)
  /\ UNCHANGED <<start, text>>

Next ==
  \/ \E t \in Tokens : write(t)
  \/ \E c \in HexBytes : write_hex(c)

Spec == Init /\ [][Next]_vars

-----------------------------------------------------------------------------
(* Properties *)

(* The grammar: every way to divide the text into a name.                  *)
Splits(s, separator) == {k \in DOMAIN s : s[k] = separator}

ComponentReadings(s) ==
  {c \in {[domain |-> Before(s, k), server |-> SubSeq(s, k + 1, v - 1), version |-> After(s, v)] :
            k \in Splits(s, DOMAIN_SEPARATOR), v \in Splits(s, VERSION_SEPARATOR)} :
     c.domain \in Domains /\ c.server \in Servers /\ c.version \in Versions}

PodReadings(s) ==
  {p \in UNION {{[component |-> c, pod |-> from_str_radix(After(s, k))] :
                   c \in ComponentReadings(Before(s, k))} : k \in Splits(s, POD_ID_SEPARATOR)} :
     p.pod # None}

ImageReadings(s) ==
  {c \in {[domain |-> SubSeq(s, k + 1, d - 1), server |-> SubSeq(s, d + 1, v - 1),
           version |-> After(s, v)] :
             k \in {j \in Splits(s, "/") : "/" \notin Range(Before(s, j))},
             d \in Splits(s, "/"), v \in Splits(s, DOMAIN_SEPARATOR)} :
     c.domain \in Domains /\ c.server \in Servers /\ c.version \in Versions}

(* A text is accepted exactly when the grammar has a reading for it, and   *)
(* as that reading, and for one kind of name only: looking for the first   *)
(* separators is never misled by those of a longer name, a shorter one or  *)
(* an image id, whose registry may hold a port.                            *)
ParsesTheGrammar ==
  LET c == component(parse(text))
      p == pod(parse(text))
      g == component_from_image_spec(text)
  IN  /\ ComponentReadings(text) = IF c = None THEN {} ELSE {c}
      /\ PodReadings(text) = IF p = None THEN {} ELSE {p}
      /\ ImageReadings(text) = IF g = None THEN {} ELSE {g}
      /\ Cardinality({c, p, g} \ {None}) <= 1

(* The component name that a text stands for is written as that text. *)
ComponentsLeadBack ==
  LET c == component(parse(text)) IN c # None => fmt_component(c) = text

(* The name that a text stands for is written as a text that stands for    *)
(* the same name, so the id given to the kubelet leads back to its pod;    *)
(* and it is the same text, unless its number was not written canonically. *)
NamesLeadBack ==
  LET p == pod(parse(text))
      digits == parse(text).pod
      canonical == Range(digits) \subseteq Canonical
                     /\ (Len(digits) > 1 => Digit[digits[1]] # 0)
  IN  /\ ComponentsLeadBack
      /\ p # None => /\ pod(parse(fmt_pod(p))) = p
                     /\ fmt_pod(p) = text <=> canonical

(* A domain id, which is one chunk, is read exactly when it is the         *)
(* encoding of the bytes it is read as; a string of any length exactly     *)
(* when these bytes are a string too.  The other way round, every id and   *)
(* every string, of whatever characters, is read back from its encoding.   *)
(* The two checks of the digits, by chunks and one by one, are the same.   *)
HexLeadsBack ==
  LET string == unhexify_string(hex)
      id == unhexify(hex)
      digits == Range(hex) \subseteq (ZERO..NINE) \cup (A..F)
  IN  /\ Len(hex) = 2 * Chunk => IF id # None THEN hexify(id) = hex ELSE ~digits
      /\ IF string # None THEN hexify_string(string) = hex
         ELSE ~digits \/ Len(hex) % 2 # 0 \/ ~ from_utf8(Combined(hex))
      /\ Len(hex) = Chunk => unhexify(hexify(hex)) = hex
      /\ from_utf8(hex) => unhexify_string(hexify_string(hex)) = hex
=============================================================================

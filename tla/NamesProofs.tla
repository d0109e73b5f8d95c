---------------------------- MODULE NamesProofs ----------------------------
(***************************************************************************)
(* Names and hexadecimal strings are read as they are written, for texts   *)
(* of every length, every alphabet and every size of a chunk.              *)
(***************************************************************************)
EXTENDS Names, SequenceTheorems, FiniteSetTheorems, WellFoundedInduction, TLAPS

(***************************************************************************)
(* Hexadecimal strings.                                                    *)
(***************************************************************************)
HexDigits == (ZERO..NINE) \cup (A..F)

Bytes == 0..255

(* Bytes are numbers, and None is no number and no string of numbers. *)
LEMMA NoneFacts ==
  Bytes \subseteq Int /\ None \notin Int /\ None \notin Seq(Int)
  <1>1. Bytes \subseteq Int
    BY DEF Bytes
  <1>2. None \notin Int /\ None \notin Seq(Int)
    BY NoneAssumption, Zenon
  <1> QED BY <1>1, <1>2

(* A digit is the character of its nibble. *)
LEMMA NibbleFacts ==
  ASSUME NEW c \in Bytes
  PROVE  /\ Nibble(c) \in Bytes
         /\ c \in HexDigits => Nibble(c) \in 0..15 /\ HexChar(Nibble(c)) = c
  BY DEF Nibble, HexChar, HexDigits, ZERO, NINE, A, F, Bytes

(* Two nibbles make a byte, and are found in it again. *)
LEMMA ByteFacts ==
  ASSUME NEW l \in 0..15, NEW h \in 0..15
  PROVE  ((l + 16 * h) % 256) % 16 = l /\ ((l + 16 * h) % 256) \div 16 = h
  OBVIOUS

(* Every nibble has a digit, which is a byte and stands for it. *)
LEMMA CharFacts ==
  ASSUME NEW v \in 0..15
  PROVE  HexChar(v) \in HexDigits /\ HexChar(v) \in Bytes /\ Nibble(HexChar(v)) = v
  BY DEF Nibble, HexChar, HexDigits, ZERO, NINE, A, F, Bytes

(* A byte is made of its two nibbles. *)
LEMMA ByteOfNibbles ==
  ASSUME NEW v \in Bytes
  PROVE  /\ v % 16 \in 0..15 /\ v \div 16 \in 0..15
         /\ ((v % 16) + 16 * (v \div 16)) % 256 = v
  BY DEF Bytes

(* The arithmetic of bytes stays among bytes, and that of characters among *)
(* numbers.                                                                *)
LEMMA ByteTypes ==
  /\ \A l, h \in Bytes : (l + 16 * h) % 256 \in Bytes
  /\ \A b \in Bytes : HexChar(b % 16) \in Int /\ HexChar(b \div 16) \in Int
  <1>1. ASSUME NEW l \in Bytes, NEW h \in Bytes PROVE (l + 16 * h) % 256 \in Bytes
    BY DEF Bytes
  <1>2. ASSUME NEW b \in Bytes PROVE HexChar(b % 16) \in Int /\ HexChar(b \div 16) \in Int
    <2>1. b % 16 \in Int /\ b \div 16 \in Int
      BY DEF Bytes
    <2>2. ASSUME NEW n \in Int PROVE HexChar(n) \in Int
      BY DEF HexChar, A, ZERO
    <2> QED BY <2>1, <2>2
  <1> QED BY <1>1, <1>2

(* A function on 1..n is a sequence of length n. *)
LEMMA FunctionIsSeq ==
  ASSUME NEW S, NEW n \in Nat, NEW f \in [1..n -> S]
  PROVE  f \in Seq(S) /\ Len(f) = n
  <1>1. f \in Seq(S)
    BY SeqDef
  <1>2. Len(f) \in Nat /\ DOMAIN f = 1..Len(f) /\ DOMAIN f = 1..n
    BY <1>1, LenProperties
  <1> QED BY <1>1, <1>2

(* What unhexify makes of its characters. *)
LEMMA CombinedFacts ==
  ASSUME NEW s \in Seq(Bytes)
  PROVE  /\ Combined(s) \in Seq(Bytes) /\ Len(Combined(s)) = Len(s) \div 2
         /\ \A k \in 1..(Len(s) \div 2) :
              Combined(s)[k] = (Nibble(s[2 * k - 1]) + 16 * Nibble(s[2 * k])) % 256
  <1>1. Len(s) \in Nat /\ Len(s) \div 2 \in Nat
    BY LenProperties
  <1>2. ASSUME NEW k \in 1..(Len(s) \div 2)
        PROVE  (Nibble(s[2 * k - 1]) + 16 * Nibble(s[2 * k])) % 256 \in Bytes
    <2>1. 2 * k \in 1..Len(s) /\ 2 * k - 1 \in 1..Len(s)
      BY <1>1
    <2>2. Nibble(s[2 * k - 1]) \in Bytes /\ Nibble(s[2 * k]) \in Bytes
      BY <2>1, ElementOfSeq, NibbleFacts
    <2> QED BY <2>2, ByteTypes
  <1>3. Combined(s) \in [1..(Len(s) \div 2) -> Bytes]
    BY <1>2 DEF Combined
  <1> QED BY <1>1, <1>3, FunctionIsSeq DEF Combined

(* What hexify makes of its bytes. *)
LEMMA HexifyFacts ==
  ASSUME NEW b \in Seq(Bytes)
  PROVE  /\ hexify(b) \in Seq(Int) /\ Len(hexify(b)) = 2 * Len(b)
         /\ \A k \in 1..(2 * Len(b)) :
              hexify(b)[k] = HexChar(IF k % 2 = 1 THEN b[(k + 1) \div 2] % 16
                                                  ELSE b[(k + 1) \div 2] \div 16)
  <1>1. Len(b) \in Nat /\ 2 * Len(b) \in Nat
    BY LenProperties
  <1>2. ASSUME NEW k \in 1..(2 * Len(b))
        PROVE  HexChar(IF k % 2 = 1 THEN b[(k + 1) \div 2] % 16
                                    ELSE b[(k + 1) \div 2] \div 16) \in Int
    <2>1. (k + 1) \div 2 \in 1..Len(b)
      BY <1>1
    <2>2. b[(k + 1) \div 2] \in Bytes
      BY <2>1, ElementOfSeq
    <2> QED BY <2>2, ByteTypes
  <1>3. hexify(b) \in [1..(2 * Len(b)) -> Int]
    BY <1>2 DEF hexify
  <1> QED BY <1>1, <1>3, FunctionIsSeq DEF hexify

(* What is read from digits is written as these digits. *)
LEMMA HexRoundTrip ==
  ASSUME NEW s \in Seq(Bytes), Len(s) % 2 = 0, \A k \in 1..Len(s) : s[k] \in HexDigits
  PROVE  hexify(Combined(s)) = s
  <1> DEFINE b == Combined(s)
             n == Len(s) \div 2
  <1>1. Len(s) \in Nat /\ n \in Nat /\ Len(s) = 2 * n
    BY LenProperties
  <1>2. /\ b \in Seq(Bytes) /\ Len(b) = n
        /\ \A k \in 1..n : b[k] = (Nibble(s[2 * k - 1]) + 16 * Nibble(s[2 * k])) % 256
    BY CombinedFacts
  <1> HIDE DEF b, n
  <1>3. /\ hexify(b) \in Seq(Int) /\ Len(hexify(b)) = 2 * n
        /\ \A k \in 1..(2 * n) :
             hexify(b)[k] = HexChar(IF k % 2 = 1 THEN b[(k + 1) \div 2] % 16
                                                 ELSE b[(k + 1) \div 2] \div 16)
    BY <1>2, HexifyFacts
  <1>4. ASSUME NEW j \in 1..n
        PROVE  hexify(b)[2 * j - 1] = s[2 * j - 1] /\ hexify(b)[2 * j] = s[2 * j]
    <2>1. 2 * j \in 1..(2 * n) /\ 2 * j - 1 \in 1..(2 * n)
      BY <1>1
    <2>2. /\ s[2 * j] \in HexDigits /\ s[2 * j - 1] \in HexDigits
          /\ s[2 * j] \in Bytes /\ s[2 * j - 1] \in Bytes
      BY <1>1, <2>1, ElementOfSeq
    <2>3. /\ Nibble(s[2 * j]) \in 0..15 /\ Nibble(s[2 * j - 1]) \in 0..15
          /\ HexChar(Nibble(s[2 * j])) = s[2 * j]
          /\ HexChar(Nibble(s[2 * j - 1])) = s[2 * j - 1]
      BY <2>2, NibbleFacts
    <2>4. b[j] % 16 = Nibble(s[2 * j - 1]) /\ b[j] \div 16 = Nibble(s[2 * j])
      <3>1. b[j] = (Nibble(s[2 * j - 1]) + 16 * Nibble(s[2 * j])) % 256
        BY <1>2, Zenon
      <3>2. PICK l \in 0..15, h \in 0..15 : l = Nibble(s[2 * j - 1]) /\ h = Nibble(s[2 * j])
        BY <2>3
      <3>3. b[j] = (l + 16 * h) % 256
        BY <3>1, <3>2
      <3>4. b[j] % 16 = l /\ b[j] \div 16 = h
        BY <3>3, ByteFacts
      <3> QED BY <3>2, <3>4
    <2>5. /\ (2 * j) % 2 = 0 /\ (2 * j + 1) \div 2 = j
          /\ (2 * j - 1) % 2 = 1 /\ (2 * j - 1 + 1) \div 2 = j
      BY <1>1
    <2>6. /\ hexify(b)[2 * j - 1] =
               HexChar(IF (2 * j - 1) % 2 = 1 THEN b[(2 * j - 1 + 1) \div 2] % 16
                                              ELSE b[(2 * j - 1 + 1) \div 2] \div 16)
          /\ hexify(b)[2 * j] = HexChar(IF (2 * j) % 2 = 1 THEN b[(2 * j + 1) \div 2] % 16
                                                           ELSE b[(2 * j + 1) \div 2] \div 16)
      BY <1>3, <2>1, Zenon
    <2>7. hexify(b)[2 * j - 1] = HexChar(b[j] % 16) /\ hexify(b)[2 * j] = HexChar(b[j] \div 16)
      BY <2>5, <2>6
    <2> QED BY <2>3, <2>4, <2>7
  <1>5. ASSUME NEW k \in 1..(2 * n) PROVE hexify(b)[k] = s[k]
    <2>1. \E j \in 1..n : k = 2 * j - 1 \/ k = 2 * j
      <3>1. (k + 1) \div 2 \in 1..n /\ (k = 2 * ((k + 1) \div 2) - 1 \/ k = 2 * ((k + 1) \div 2))
        BY <1>1
      <3> QED BY <3>1
    <2> QED BY <1>4, <2>1
  <1>6. s \in Seq(Int)
    BY NoneFacts, SeqMonotonic
  <1> QED BY <1>1, <1>3, <1>5, <1>6, SeqEqual DEF b

(* Writing by chunks and then byte by byte writes every byte alike. *)
LEMMA HexifyByChunks ==
  ASSUME NEW b \in Seq(Bytes)
  PROVE  hexify_string(b) = hexify(b)
  <1> DEFINE n == Len(b)
             m == n - (n % Chunk)
             x == SubSeq(b, 1, m)
             y == SubSeq(b, m + 1, n)
  <1>1. n \in Nat /\ m \in 0..n
    <2>1. n \in Nat
      BY LenProperties
    <2>2. n % Chunk \in 0..n
      BY <2>1, TextAssumption
    <2> QED BY <2>1, <2>2
  <1> HIDE DEF m
  <1>2. \A i \in 1..n : b[i] \in Bytes
    BY ElementOfSeq
  <1>3. x \in Seq(Bytes) /\ Len(x) = m /\ \A i \in 1..m : x[i] = b[i]
    BY <1>1, <1>2, SubSeqProperties
  <1>4. y \in Seq(Bytes) /\ Len(y) = n - m /\ \A i \in 1..(n - m) : y[i] = b[m + i]
    <2>1. \A i \in m + 1 .. n : b[i] \in Bytes
      BY <1>1, <1>2
    <2>2. /\ y \in Seq(Bytes) /\ Len(y) = IF m + 1 <= n THEN n - (m + 1) + 1 ELSE 0
          /\ \A i \in 1 .. n - (m + 1) + 1 : y[i] = b[m + 1 + i - 1]
      BY <1>1, <2>1, SubSeqProperties
    <2> HIDE DEF y, n
    <2> QED BY <1>1, <2>2
  <1> HIDE DEF x, y
  <1>5. /\ hexify(x) \in Seq(Int) /\ Len(hexify(x)) = 2 * m
        /\ hexify(y) \in Seq(Int) /\ Len(hexify(y)) = 2 * (n - m)
        /\ hexify(b) \in Seq(Int) /\ Len(hexify(b)) = 2 * n
    <2>1. hexify(x) \in Seq(Int) /\ Len(hexify(x)) = 2 * m
      BY <1>3, HexifyFacts
    <2>2. hexify(y) \in Seq(Int) /\ Len(hexify(y)) = 2 * (n - m)
      BY <1>4, HexifyFacts
    <2> QED BY <2>1, <2>2, HexifyFacts
  <1> DEFINE c == hexify(x) \o hexify(y)
  <1>6. /\ c \in Seq(Int) /\ Len(c) = 2 * m + 2 * (n - m)
        /\ \A i \in 1 .. 2 * m + 2 * (n - m) :
             c[i] = IF i <= 2 * m THEN hexify(x)[i] ELSE hexify(y)[i - 2 * m]
    <2>1. /\ c \in Seq(Int) /\ Len(c) = Len(hexify(x)) + Len(hexify(y))
          /\ \A i \in 1 .. Len(hexify(x)) + Len(hexify(y)) :
               c[i] = IF i <= Len(hexify(x)) THEN hexify(x)[i] ELSE hexify(y)[i - Len(hexify(x))]
      BY <1>5, ConcatProperties, Zenon
    <2> QED BY <1>5, <2>1
  <1> HIDE DEF c
  <1>7. Len(c) = 2 * n
    BY <1>1, <1>6
  <1>8. ASSUME NEW i \in 1..(2 * n) PROVE c[i] = hexify(b)[i]
    <2>1. hexify(b)[i] = HexChar(IF i % 2 = 1 THEN b[(i + 1) \div 2] % 16
                                              ELSE b[(i + 1) \div 2] \div 16)
      BY HexifyFacts
    <2>2. CASE i <= 2 * m
      <3>1. i \in 1..(2 * m) /\ (i + 1) \div 2 \in 1..m /\ c[i] = hexify(x)[i]
        BY <1>1, <1>6, <2>2
      <3>2. hexify(x)[i] = HexChar(IF i % 2 = 1 THEN x[(i + 1) \div 2] % 16
                                                ELSE x[(i + 1) \div 2] \div 16)
        BY <1>3, <3>1, HexifyFacts
      <3> QED BY <1>3, <2>1, <3>1, <3>2
    <2>3. CASE i > 2 * m
      <3> DEFINE j == i - 2 * m
      <3>1. /\ j \in 1..(2 * (n - m)) /\ (j + 1) \div 2 \in 1..(n - m)
            /\ m + (j + 1) \div 2 = (i + 1) \div 2 /\ j % 2 = i % 2
        BY <1>1, <2>3
      <3>2. c[i] = hexify(y)[j]
        BY <1>1, <1>6, <2>3
      <3> HIDE DEF j
      <3>3. hexify(y)[j] = HexChar(IF j % 2 = 1 THEN y[(j + 1) \div 2] % 16
                                                ELSE y[(j + 1) \div 2] \div 16)
        BY <1>4, <3>1, HexifyFacts
      <3>4. y[(j + 1) \div 2] = b[(i + 1) \div 2]
        BY <1>4, <3>1
      <3> QED BY <2>1, <3>1, <3>2, <3>3, <3>4
    <2>4. i <= 2 * m \/ i > 2 * m
      BY <1>1
    <2> QED BY <2>2, <2>3, <2>4
  <1>9. c = hexify(b)
    BY <1>5, <1>6, <1>7, <1>8, SeqEqual
  <1> QED BY <1>9 DEF hexify_string, c, x, y, m

(* Characters in one of the two ranges are those that the check of a chunk *)
(* lets through.                                                           *)
LEMMA Unhexified ==
  ASSUME NEW s \in Seq(Bytes)
  PROVE  /\ unhexify(s) # None <=> \A k \in 1..Len(s) : s[k] \in HexDigits
         /\ unhexify(s) # None => unhexify(s) = Combined(s)
  <1>1. DOMAIN s = 1..Len(s) /\ \A k \in 1..Len(s) : s[k] \in Bytes
    BY ElementOfSeq, LenProperties
  <1>2. ASSUME NEW c \in Bytes
        PROVE  ~ (c < ZERO \/ c > F \/ (c > NINE /\ c < A)) <=> c \in HexDigits
    BY DEF Bytes, HexDigits, ZERO, NINE, A, F
  <1>3. (\E k \in DOMAIN s : s[k] < ZERO \/ s[k] > F \/ (s[k] > NINE /\ s[k] < A))
          <=> \E k \in 1..Len(s) : s[k] \notin HexDigits
    BY <1>1, <1>2
  <1>4. Combined(s) # None
    <2>1. Combined(s) \in Seq(Int)
      BY NoneFacts, CombinedFacts, SeqMonotonic
    <2> QED BY <2>1, NoneFacts
  <1> QED BY <1>3, <1>4 DEF unhexify

(* The characters of a string are checked in chunks and one by one, and    *)
(* every one of them is checked.                                           *)
LEMMA UnhexifiedByChunks ==
  ASSUME NEW s \in Seq(Bytes)
  PROVE  LET read == unhexify_string(s)
             digits == \A k \in 1..Len(s) : s[k] \in HexDigits
         IN  /\ read # None <=> Len(s) % 2 = 0 /\ digits /\ from_utf8(Combined(s))
             /\ read # None => read = Combined(s)
  <1> DEFINE n == Len(s)
             m == n - (n % (2 * Chunk))
             x == SubSeq(s, 1, m)
             y == SubSeq(s, m + 1, n)
             b == Combined(s)
  <1>1. n \in Nat /\ m \in 0..n
    <2>1. n \in Nat
      BY LenProperties
    <2>2. 2 * Chunk \in Nat /\ 2 * Chunk > 0
      BY TextAssumption
    <2>3. n % (2 * Chunk) \in 0..n
      BY <2>1, <2>2
    <2> QED BY <2>1, <2>3
  <1> HIDE DEF m
  <1>2. \A i \in 1..n : s[i] \in Bytes
    BY ElementOfSeq
  <1>3. x \in Seq(Bytes) /\ Len(x) = m /\ \A i \in 1..m : x[i] = s[i]
    BY <1>1, <1>2, SubSeqProperties
  <1>4. y \in Seq(Bytes) /\ DOMAIN y = 1..(n - m) /\ \A i \in 1..(n - m) : y[i] = s[m + i]
    <2>1. \A i \in m + 1 .. n : s[i] \in Bytes
      BY <1>1, <1>2
    <2>2. /\ y \in Seq(Bytes) /\ Len(y) = IF m + 1 <= n THEN n - (m + 1) + 1 ELSE 0
          /\ \A i \in 1 .. n - (m + 1) + 1 : y[i] = s[m + 1 + i - 1]
      BY <1>1, <2>1, SubSeqProperties
    <2>3. DOMAIN y = 1..Len(y)
      BY <2>2, LenProperties
    <2> HIDE DEF y, n
    <2> QED BY <1>1, <2>2, <2>3
  <1>5. b # None
    <2>1. b \in Seq(Int)
      BY CombinedFacts, NoneFacts, SeqMonotonic
    <2> QED BY <2>1, NoneFacts
  <1> HIDE DEF x, y, b
  <1>6. unhexify(x) = None <=> \E k \in 1..m : s[k] \notin HexDigits
    BY <1>3, Unhexified
  <1>7. (\E k \in DOMAIN y : unhexify_nibble(y[k]) = None)
          <=> \E k \in m + 1 .. n : s[k] \notin HexDigits
    <2>1. ASSUME NEW c \in Bytes PROVE unhexify_nibble(c) = None <=> c \notin HexDigits
      <3>1. Nibble(c) # None
        BY NibbleFacts, NoneFacts
      <3> QED BY <3>1 DEF unhexify_nibble, HexDigits
    <2>2. ASSUME NEW k \in DOMAIN y, unhexify_nibble(y[k]) = None
          PROVE  \E j \in m + 1 .. n : s[j] \notin HexDigits
      <3>1. m + k \in m + 1 .. n /\ m + k \in 1..n
        BY <1>1, <1>4, <2>2
      <3>2. s[m + k] \notin HexDigits
        BY <1>2, <1>4, <2>1, <2>2, <3>1
      <3> QED BY <3>1, <3>2
    <2>3. ASSUME NEW j \in m + 1 .. n, s[j] \notin HexDigits
          PROVE  \E k \in DOMAIN y : unhexify_nibble(y[k]) = None
      <3>1. j - m \in 1..(n - m) /\ m + (j - m) = j /\ j \in 1..n
        BY <1>1, <2>3
      <3>2. y[j - m] = s[j]
        BY <1>4, <3>1
      <3> QED BY <1>2, <1>4, <2>1, <2>3, <3>1, <3>2
    <2> QED BY <2>2, <2>3
  <1>8. (\E k \in 1..m : s[k] \notin HexDigits) \/ (\E k \in m + 1 .. n : s[k] \notin HexDigits)
          <=> \E k \in 1..n : s[k] \notin HexDigits
    BY <1>1
  <1>9. unhexify_string(s) = IF \/ n % 2 # 0
                                \/ unhexify(x) = None
                                \/ \E k \in DOMAIN y : unhexify_nibble(y[k]) = None
                                \/ ~ from_utf8(b)
                             THEN None ELSE b
    BY DEF unhexify_string, x, y, b, m
  <1> QED BY <1>5, <1>6, <1>7, <1>8, <1>9 DEF b

(* What is written from bytes is digits, which are read as these bytes. *)
LEMMA HexWritten ==
  ASSUME NEW b \in Seq(Bytes)
  PROVE  /\ hexify(b) \in Seq(Bytes) /\ Len(hexify(b)) = 2 * Len(b)
         /\ \A k \in 1..Len(hexify(b)) : hexify(b)[k] \in HexDigits
         /\ Combined(hexify(b)) = b
  <1> DEFINE s == hexify(b)
             n == Len(b)
  <1>1. n \in Nat /\ \A j \in 1..n : b[j] \in Bytes
    BY LenProperties, ElementOfSeq
  <1>2. /\ s \in Seq(Int) /\ Len(s) = 2 * n
        /\ \A k \in 1..(2 * n) :
             s[k] = HexChar(IF k % 2 = 1 THEN b[(k + 1) \div 2] % 16
                                         ELSE b[(k + 1) \div 2] \div 16)
    BY HexifyFacts
  <1> HIDE DEF s, n
  <1>3. ASSUME NEW j \in 1..n
        PROVE  s[2 * j - 1] = HexChar(b[j] % 16) /\ s[2 * j] = HexChar(b[j] \div 16)
    <2>1. /\ 2 * j \in 1..(2 * n) /\ 2 * j - 1 \in 1..(2 * n)
          /\ (2 * j) % 2 = 0 /\ (2 * j + 1) \div 2 = j
          /\ (2 * j - 1) % 2 = 1 /\ (2 * j - 1 + 1) \div 2 = j
      BY <1>1
    <2>2. /\ s[2 * j - 1] = HexChar(IF (2 * j - 1) % 2 = 1 THEN b[(2 * j - 1 + 1) \div 2] % 16
                                                   ELSE b[(2 * j - 1 + 1) \div 2] \div 16)
          /\ s[2 * j] = HexChar(IF (2 * j) % 2 = 1 THEN b[(2 * j + 1) \div 2] % 16
                                                   ELSE b[(2 * j + 1) \div 2] \div 16)
      BY <1>2, <2>1, Zenon
    <2> QED BY <2>1, <2>2
  <1>4. ASSUME NEW k \in 1..(2 * n) PROVE s[k] \in HexDigits /\ s[k] \in Bytes
    <2>1. (k + 1) \div 2 \in 1..n
      BY <1>1
    <2>2. PICK v \in 0..15 : s[k] = HexChar(v)
      <3>1. /\ b[(k + 1) \div 2] % 16 \in 0..15 /\ b[(k + 1) \div 2] \div 16 \in 0..15
        BY <1>1, <2>1, ByteOfNibbles
      <3> QED BY <1>2, <3>1
    <2> QED BY <2>2, CharFacts
  <1>5. s \in Seq(Bytes)
    <2>1. s \in [1..(2 * n) -> Bytes]
      BY <1>2, <1>4, LenProperties, SeqDef
    <2>2. 2 * n \in Nat
      BY <1>1
    <2> QED BY <2>1, <2>2, FunctionIsSeq
  <1>6. /\ Combined(s) \in Seq(Bytes) /\ Len(Combined(s)) = n
        /\ \A j \in 1..n : Combined(s)[j] = (Nibble(s[2 * j - 1]) + 16 * Nibble(s[2 * j])) % 256
    <2>1. Len(s) \div 2 = n
      BY <1>1, <1>2
    <2> QED BY <1>5, <2>1, CombinedFacts
  <1>7. ASSUME NEW j \in 1..n PROVE Combined(s)[j] = b[j]
    <2>1. b[j] \in Bytes
      BY <1>1
    <2>2. /\ b[j] % 16 \in 0..15 /\ b[j] \div 16 \in 0..15
          /\ ((b[j] % 16) + 16 * (b[j] \div 16)) % 256 = b[j]
      BY <2>1, ByteOfNibbles
    <2>3. Nibble(s[2 * j - 1]) = b[j] % 16 /\ Nibble(s[2 * j]) = b[j] \div 16
      BY <1>3, <2>2, CharFacts
    <2> QED BY <1>6, <2>2, <2>3
  <1>8. Combined(s) = b
    BY <1>1, <1>6, <1>7, SeqEqual DEF n
  <1> QED BY <1>2, <1>4, <1>5, <1>8 DEF s, n

(* The texts are texts, and the strings strings of bytes. *)
TextInv == text \in Seq(Tokens) /\ hex \in Seq(Bytes)

LEMMA TextStep ==
  /\ Init => TextInv
  /\ TextInv /\ [Next]_vars => TextInv'
  <1>1. Init => TextInv
    <2>1. /\ \A x \in Starts : x \in Seq(Tokens)
          /\ \A x \in HexStarts : x \in Seq(Bytes)
      BY TextAssumption, Zenon DEF Bytes
    <2>2. <<>> \in Seq(Tokens) /\ <<>> \in Seq(Bytes)
      BY EmptySeq
    <2> QED BY <2>1, <2>2, Zenon DEF Init, TextInv
  <1>2. ASSUME TextInv, [Next]_vars PROVE TextInv'
    <2>1. ASSUME NEW t \in Tokens, write(t) PROVE TextInv'
      BY <1>2, <2>1, AppendProperties DEF write, TextInv
    <2>2. ASSUME NEW c \in HexBytes, write_hex(c) PROVE TextInv'
      <3>1. c \in Bytes
        BY TextAssumption DEF Bytes
      <3> QED BY <1>2, <2>2, <3>1, AppendProperties DEF write_hex, TextInv
    <2>3. CASE UNCHANGED vars
      BY <1>2, <2>3 DEF TextInv, vars
    <2> QED BY <1>2, <2>1, <2>2, <2>3 DEF Next
  <1> QED BY <1>1, <1>2

(* A string of any length, in chunks of any size, is read exactly when it  *)
(* is the encoding of what it is read as, and read back when it is written.*)
LEMMA HexInv ==
  ASSUME hex \in Seq(Bytes)
  PROVE  HexLeadsBack
  <1> DEFINE n == Len(hex)
             b == Combined(hex)
             digits == \A k \in 1..n : hex[k] \in HexDigits
  <1>1. n \in Nat /\ DOMAIN hex = 1..n /\ \A k \in 1..n : hex[k] \in Bytes
    BY LenProperties, ElementOfSeq
  <1>2. Range(hex) \subseteq HexDigits <=> digits
    BY <1>1 DEF Range
  <1>3. ASSUME n = 2 * Chunk
        PROVE  IF unhexify(hex) # None THEN hexify(unhexify(hex)) = hex ELSE ~ digits
    <2>1. n % 2 = 0
      BY <1>3, TextAssumption
    <2> QED BY <2>1, Unhexified, HexRoundTrip
  <1>4. ASSUME unhexify_string(hex) # None PROVE hexify_string(unhexify_string(hex)) = hex
    <2>1. n % 2 = 0 /\ digits /\ unhexify_string(hex) = b
      BY <1>4, UnhexifiedByChunks
    <2>2. hexify(b) = hex
      BY <2>1, HexRoundTrip
    <2>3. b \in Seq(Bytes)
      BY CombinedFacts
    <2> QED BY <2>1, <2>2, <2>3, HexifyByChunks
  <1>5. ASSUME unhexify_string(hex) = None, digits, n % 2 = 0
        PROVE  ~ from_utf8(b)
    BY <1>5, UnhexifiedByChunks
  <1>6. unhexify(hexify(hex)) = hex
    BY HexWritten, Unhexified
  <1>7. ASSUME from_utf8(hex) PROVE unhexify_string(hexify_string(hex)) = hex
    <2> DEFINE s == hexify(hex)
    <2>1. /\ s \in Seq(Bytes) /\ Len(s) = 2 * n /\ Combined(s) = hex
          /\ \A k \in 1..Len(s) : s[k] \in HexDigits
      BY HexWritten
    <2> HIDE DEF s
    <2>2. Len(s) % 2 = 0
      BY <1>1, <2>1
    <2>3. unhexify_string(s) = hex
      BY <1>7, <2>1, <2>2, UnhexifiedByChunks
    <2> QED BY <2>3, HexifyByChunks DEF s
  <1>8. n % 2 = 0 \/ n % 2 # 0
    OBVIOUS
  <1> HIDE DEF b
  <1> QED BY <1>2, <1>3, <1>4, <1>5, <1>6, <1>7, <1>8 DEF HexLeadsBack, HexDigits, b

(* Names come back from hexadecimal as they went: every domain id and      *)
(* every string of UTF-8, whatever its length and the size of a chunk; and *)
(* nothing else is taken for one of them.                                  *)
THEOREM Hexadecimal == Spec => []HexLeadsBack
  <1>1. TextInv => HexLeadsBack
    BY HexInv DEF TextInv
  <1> QED BY <1>1, TextStep, PTL DEF Spec

(***************************************************************************)
(* Texts and their parts.                                                  *)
(***************************************************************************)

(* None of the separators is between places m and n. *)
Clear(s, m, n, separators) == \A i \in m..n : s[i] \notin separators

(* A set of natural numbers has a least element. *)
LEMMA Least ==
  ASSUME NEW S, S \subseteq Nat, S # {}
  PROVE  Min(S) \in S /\ \A y \in S : Min(S) <= y
  <1>1. PICK x \in S : \A y \in S : ~ (<<y, x>> \in OpToRel(<, Nat))
    BY NatLessThanWellFounded, WFMin
  <1>2. ASSUME NEW y \in S PROVE x <= y
    <2>1. x \in Nat /\ y \in Nat
      BY <1>1
    <2>2. ~ (y < x)
      BY <1>1, <2>1 DEF OpToRel
    <2> QED BY <2>1, <2>2
  <1> QED BY <1>1, <1>2 DEF Min

(* find returns the first of the separators, or 0. *)
LEMMA FindFacts ==
  ASSUME NEW s \in Seq(Tokens), NEW separators
  PROVE  LET k == find(s, separators)
         IN  \/ k = 0 /\ Clear(s, 1, Len(s), separators)
             \/ k \in 1..Len(s) /\ s[k] \in separators /\ Clear(s, 1, k - 1, separators)
  <1> DEFINE places == {k \in DOMAIN s : s[k] \in separators}
  <1>1. DOMAIN s = 1..Len(s) /\ Len(s) \in Nat
    BY LenProperties
  <1>2. CASE places = {}
    BY <1>1, <1>2 DEF find, Clear
  <1>3. CASE places # {}
    <2>1. places \subseteq Nat
      BY <1>1
    <2>2. PICK k : k = Min(places)
      OBVIOUS
    <2>3. k \in places /\ \A y \in places : k <= y
      BY <1>3, <2>1, <2>2, Least
    <2>4. find(s, separators) = k
      BY <1>3, <2>2 DEF find
    <2>5. k \in 1..Len(s) /\ s[k] \in separators
      BY <1>1, <2>3
    <2>6. ASSUME NEW i \in 1 .. k - 1 PROVE s[i] \notin separators
      <3>1. i \in DOMAIN s /\ ~ (k <= i)
        BY <1>1, <2>5
      <3> QED BY <2>3, <3>1
    <2> QED BY <2>4, <2>5, <2>6 DEF Clear
  <1> QED BY <1>2, <1>3

(* Only the first of the separators is found. *)
LEMMA FindAt ==
  ASSUME NEW s \in Seq(Tokens), NEW separators
  PROVE  /\ \A k \in 1..Len(s) :
              s[k] \in separators /\ Clear(s, 1, k - 1, separators) => find(s, separators) = k
         /\ Clear(s, 1, Len(s), separators) => find(s, separators) = 0
  <1>1. PICK f : f = find(s, separators)
    OBVIOUS
  <1>2. \/ f = 0 /\ Clear(s, 1, Len(s), separators)
        \/ f \in 1..Len(s) /\ s[f] \in separators /\ Clear(s, 1, f - 1, separators)
    BY <1>1, FindFacts
  <1>3. Len(s) \in Nat
    BY LenProperties
  <1>4. ASSUME NEW k \in 1..Len(s), s[k] \in separators, Clear(s, 1, k - 1, separators)
        PROVE  f = k
    BY <1>2, <1>3, <1>4 DEF Clear
  <1>5. ASSUME Clear(s, 1, Len(s), separators) PROVE f = 0
    BY <1>2, <1>5 DEF Clear
  <1> QED BY <1>1, <1>4, <1>5

(* A part of a text is a text. *)
LEMMA Part ==
  ASSUME NEW s \in Seq(Tokens), NEW m \in 1 .. Len(s) + 1, NEW n \in m - 1 .. Len(s)
  PROVE  /\ SubSeq(s, m, n) \in Seq(Tokens) /\ Len(SubSeq(s, m, n)) = n - m + 1
         /\ \A i \in 1 .. n - m + 1 : SubSeq(s, m, n)[i] = s[m + i - 1]
  <1>1. Len(s) \in Nat /\ \A i \in 1..Len(s) : s[i] \in Tokens
    BY LenProperties, ElementOfSeq
  <1>2. m \in Int /\ n \in Int /\ \A i \in m..n : s[i] \in Tokens
    BY <1>1
  <1>3. /\ SubSeq(s, m, n) \in Seq(Tokens)
        /\ Len(SubSeq(s, m, n)) = IF m <= n THEN n - m + 1 ELSE 0
        /\ \A i \in 1 .. n - m + 1 : SubSeq(s, m, n)[i] = s[m + i - 1]
    BY <1>2, SubSeqProperties
  <1>4. m > n => n - m + 1 = 0
    BY <1>1
  <1> QED BY <1>2, <1>3, <1>4

(* A part of a part of a text is a part of the text. *)
LEMMA PartOfPart ==
  ASSUME NEW s \in Seq(Tokens), NEW a \in 1 .. Len(s) + 1, NEW b \in a - 1 .. Len(s),
         NEW m \in 1 .. b - a + 2, NEW n \in m - 1 .. b - a + 1
  PROVE  SubSeq(SubSeq(s, a, b), m, n) = SubSeq(s, a + m - 1, a + n - 1)
  <1> DEFINE t == SubSeq(s, a, b)
             u == SubSeq(t, m, n)
             w == SubSeq(s, a + m - 1, a + n - 1)
  <1>1. Len(s) \in Nat
    BY LenProperties
  <1>2. /\ t \in Seq(Tokens) /\ Len(t) = b - a + 1
        /\ \A i \in 1 .. b - a + 1 : t[i] = s[a + i - 1]
    BY Part
  <1> HIDE DEF t
  <1>3. m \in 1 .. Len(t) + 1 /\ n \in m - 1 .. Len(t)
    BY <1>1, <1>2
  <1>4. /\ u \in Seq(Tokens) /\ Len(u) = n - m + 1
        /\ \A i \in 1 .. n - m + 1 : u[i] = t[m + i - 1]
    BY <1>2, <1>3, Part
  <1>5. a + m - 1 \in 1 .. Len(s) + 1 /\ a + n - 1 \in (a + m - 1) - 1 .. Len(s)
    BY <1>1
  <1>6. /\ w \in Seq(Tokens) /\ Len(w) = (a + n - 1) - (a + m - 1) + 1
        /\ \A i \in 1 .. (a + n - 1) - (a + m - 1) + 1 : w[i] = s[(a + m - 1) + i - 1]
    BY <1>5, Part
  <1> HIDE DEF u, w
  <1>7. (a + n - 1) - (a + m - 1) + 1 = n - m + 1 /\ n - m + 1 \in Nat
    BY <1>1
  <1>8. ASSUME NEW i \in 1 .. n - m + 1 PROVE u[i] = w[i]
    <2>1. m + i - 1 \in 1 .. b - a + 1 /\ a + (m + i - 1) - 1 = (a + m - 1) + i - 1
      BY <1>1
    <2>2. u[i] = t[m + i - 1] /\ t[m + i - 1] = s[a + (m + i - 1) - 1]
      BY <1>2, <1>4, <2>1
    <2>3. w[i] = s[(a + m - 1) + i - 1]
      BY <1>6, <1>7
    <2> QED BY <2>1, <2>2, <2>3
  <1>9. u = w
    BY <1>4, <1>6, <1>7, <1>8, SeqEqual
  <1> QED BY <1>9 DEF t, u, w

(* The parts of a name are clear of separators. *)
LEMMA PartsAreClear ==
  ASSUME NEW s \in Seq(Tokens), NEW m \in 1 .. Len(s) + 1, NEW n \in m - 1 .. Len(s),
         SubSeq(s, m, n) \in Domains \cup Servers \cup Versions
  PROVE  Clear(s, m, n, Separators)
  <1> DEFINE t == SubSeq(s, m, n)
  <1>1. Len(s) \in Nat
    BY LenProperties
  <1>2. t \in Seq(Tokens) /\ Len(t) = n - m + 1 /\ \A i \in 1 .. n - m + 1 : t[i] = s[m + i - 1]
    BY Part
  <1>3. Range(t) \subseteq Tokens \ Separators
    BY SeparatorAssumption
  <1>4. DOMAIN t = 1 .. n - m + 1
    BY <1>2, LenProperties
  <1> HIDE DEF t
  <1>5. ASSUME NEW i \in m..n PROVE s[i] \notin Separators
    <2>1. i - m + 1 \in 1 .. n - m + 1 /\ m + (i - m + 1) - 1 = i
      BY <1>1
    <2>2. t[i - m + 1] = s[i]
      BY <1>2, <2>1
    <2>3. t[i - m + 1] \in Range(t)
      BY <1>4, <2>1 DEF Range
    <2> QED BY <1>3, <2>2, <2>3
  <1> QED BY <1>5 DEF Clear

(***************************************************************************)
(* What parse makes of a text.                                             *)
(***************************************************************************)

(* The places of the separators of a name with a domain and a version. *)
Marked(s, k, v) ==
  /\ k \in 1..Len(s) /\ v \in k + 1 .. Len(s)
  /\ s[k] = DOMAIN_SEPARATOR /\ s[v] = VERSION_SEPARATOR
  /\ Clear(s, 1, k - 1, {DOMAIN_SEPARATOR, VERSION_SEPARATOR})
  /\ Clear(s, k + 1, v - 1, {VERSION_SEPARATOR})

(* What follows the domain, what is searched there, and what follows that. *)
LEMMA Rest ==
  ASSUME NEW s \in Seq(Tokens), NEW k \in 1..Len(s)
  PROVE  /\ After(s, k) \in Seq(Tokens) /\ Len(After(s, k)) = Len(s) - k
         /\ \A i \in 1 .. Len(s) - k : After(s, k)[i] = s[k + i]
         /\ \A v \in k + 1 .. Len(s) :
              /\ v - k \in 1 .. Len(s) - k
              /\ Before(After(s, k), v - k) = SubSeq(s, k + 1, v - 1)
              /\ After(After(s, k), v - k) = After(s, v)
  <1> DEFINE n == Len(s)
             t == After(s, k)
  <1>1. n \in Nat /\ k + 1 \in 1 .. n + 1 /\ n \in (k + 1) - 1 .. n
    BY LenProperties
  <1>2. /\ t \in Seq(Tokens) /\ Len(t) = n - (k + 1) + 1
        /\ \A i \in 1 .. n - (k + 1) + 1 : t[i] = s[(k + 1) + i - 1]
    BY <1>1, Part DEF After
  <1> HIDE DEF t
  <1>3. n - (k + 1) + 1 = n - k /\ \A i \in 1 .. n - k : (k + 1) + i - 1 = k + i
    BY <1>1
  <1>4. ASSUME NEW v \in k + 1 .. n
        PROVE  /\ v - k \in 1 .. n - k
               /\ Before(t, v - k) = SubSeq(s, k + 1, v - 1)
               /\ After(t, v - k) = After(s, v)
    <2>1. /\ 1 \in 1 .. n - (k + 1) + 2 /\ v - k - 1 \in 1 - 1 .. n - (k + 1) + 1
          /\ v - k + 1 \in 1 .. n - (k + 1) + 2
          /\ n - k \in (v - k + 1) - 1 .. n - (k + 1) + 1
          /\ v - k \in 1 .. n - k
      BY <1>1
    <2>2. SubSeq(t, 1, v - k - 1) = SubSeq(s, (k + 1) + 1 - 1, (k + 1) + (v - k - 1) - 1)
      BY <1>1, <2>1, PartOfPart DEF t, After
    <2>3. SubSeq(t, v - k + 1, n - k)
            = SubSeq(s, (k + 1) + (v - k + 1) - 1, (k + 1) + (n - k) - 1)
      BY <1>1, <2>1, PartOfPart DEF t, After
    <2>4. /\ (k + 1) + 1 - 1 = k + 1 /\ (k + 1) + (v - k - 1) - 1 = v - 1
          /\ (k + 1) + (v - k + 1) - 1 = v + 1 /\ (k + 1) + (n - k) - 1 = n
      BY <1>1
    <2>5. Len(t) = n - k
      BY <1>2, <1>3
    <2> QED BY <2>1, <2>2, <2>3, <2>4, <2>5 DEF Before, After
  <1> QED BY <1>2, <1>3, <1>4 DEF t

(* A separator that is the first after place k is found there. *)
LEMMA FindAfter ==
  ASSUME NEW s \in Seq(Tokens), NEW k \in 1..Len(s), NEW v \in k + 1 .. Len(s),
         NEW separators, s[v] \in separators, Clear(s, k + 1, v - 1, separators)
  PROVE  find(After(s, k), separators) = v - k
  <1>1. PICK t : t = After(s, k)
    OBVIOUS
  <1>2. /\ t \in Seq(Tokens) /\ Len(t) = Len(s) - k /\ Len(s) \in Nat
        /\ \A i \in 1 .. Len(s) - k : t[i] = s[k + i]
        /\ v - k \in 1 .. Len(s) - k
    BY <1>1, Rest, LenProperties
  <1>3. t[v - k] \in separators
    <2>1. k + (v - k) = v
      BY <1>2
    <2> QED BY <1>2, <2>1
  <1>4. ASSUME NEW i \in 1 .. (v - k) - 1 PROVE t[i] \notin separators
    <2>1. i \in 1 .. Len(s) - k /\ k + i \in k + 1 .. v - 1
      BY <1>2
    <2> QED BY <1>2, <2>1 DEF Clear
  <1>5. Clear(t, 1, (v - k) - 1, separators)
    BY <1>4 DEF Clear
  <1> QED BY <1>1, <1>2, <1>3, <1>5, FindAt

(* What is found after place k is the first separator there. *)
LEMMA FoundAfter ==
  ASSUME NEW s \in Seq(Tokens), NEW k \in 1..Len(s), NEW separators, NEW f,
         f = find(After(s, k), separators), f # 0
  PROVE  /\ f \in Nat /\ k + f \in k + 1 .. Len(s) /\ s[k + f] \in separators
         /\ Clear(s, k + 1, (k + f) - 1, separators)
  <1>1. PICK t : t = After(s, k)
    OBVIOUS
  <1>2. /\ t \in Seq(Tokens) /\ Len(t) = Len(s) - k /\ Len(s) \in Nat
        /\ \A i \in 1 .. Len(s) - k : t[i] = s[k + i]
    BY <1>1, Rest, LenProperties
  <1>3. f \in 1..Len(t) /\ t[f] \in separators /\ Clear(t, 1, f - 1, separators)
    BY <1>1, <1>2, FindFacts
  <1>4. PICK n \in Nat : n = Len(s) /\ k \in 1..n /\ f \in 1 .. n - k
    BY <1>2, <1>3
  <1>5. f \in Nat /\ k + f \in k + 1 .. n
    BY <1>4
  <1>6. s[k + f] \in separators
    BY <1>2, <1>3, <1>4, Zenon
  <1>7. ASSUME NEW i \in k + 1 .. (k + f) - 1 PROVE s[i] \notin separators
    <2>1. i - k \in 1 .. f - 1 /\ i - k \in 1 .. n - k /\ k + (i - k) = i
      BY <1>4
    <2>2. t[i - k] = s[k + (i - k)] /\ t[i - k] \notin separators
      BY <1>2, <1>3, <1>4, <2>1, Zenon DEF Clear
    <2> QED BY <2>1, <2>2, Zenon
  <1> QED BY <1>4, <1>5, <1>6, <1>7 DEF Clear

(* A name that is marked so is taken apart there. *)
LEMMA ParseMarked ==
  ASSUME NEW s \in Seq(Tokens), NEW k, NEW v, Marked(s, k, v)
  PROVE  parse(s) = [domain |-> Before(s, k), server |-> SubSeq(s, k + 1, v - 1),
                     version |-> parse_version(After(s, v)).version,
                     pod |-> parse_version(After(s, v)).pod]
  <1>1. /\ Len(s) \in Nat /\ k \in 1..Len(s) /\ v \in k + 1 .. Len(s)
        /\ s[k] = DOMAIN_SEPARATOR /\ s[v] = VERSION_SEPARATOR
    BY LenProperties DEF Marked
  <1>2. find(s, {DOMAIN_SEPARATOR, VERSION_SEPARATOR}) = k
    BY <1>1, FindAt DEF Marked
  <1>3. PICK t : t = After(s, k)
    OBVIOUS
  <1>4. Before(t, v - k) = SubSeq(s, k + 1, v - 1) /\ After(t, v - k) = After(s, v)
    BY <1>1, <1>3, Rest
  <1>5. find(t, {VERSION_SEPARATOR}) = v - k
    BY <1>1, <1>3, FindAfter DEF Marked
  <1>6. k # 0 /\ v - k # 0
    BY <1>1
  <1> QED BY <1>1, <1>2, <1>3, <1>4, <1>5, <1>6 DEF parse

(* A text with a domain and a version is marked. *)
LEMMA ParsedIsMarked ==
  ASSUME NEW s \in Seq(Tokens), parse(s).domain # None, parse(s).version # None
  PROVE  \E k, v \in 1..Len(s) : Marked(s, k, v)
  <1>1. PICK k : k = find(s, {DOMAIN_SEPARATOR, VERSION_SEPARATOR})
    OBVIOUS
  <1>2. k # 0 /\ s[k] = DOMAIN_SEPARATOR
    BY <1>1 DEF parse
  <1>3. k \in 1..Len(s) /\ Clear(s, 1, k - 1, {DOMAIN_SEPARATOR, VERSION_SEPARATOR})
    BY <1>1, <1>2, FindFacts
  <1>4. PICK w : w = find(After(s, k), {VERSION_SEPARATOR})
    OBVIOUS
  <1>5. w # 0
    BY <1>1, <1>2, <1>4 DEF parse
  <1>6. /\ w \in Nat /\ k + w \in k + 1 .. Len(s) /\ s[k + w] \in {VERSION_SEPARATOR}
        /\ Clear(s, k + 1, (k + w) - 1, {VERSION_SEPARATOR})
    BY <1>3, <1>4, <1>5, FoundAfter
  <1>7. Marked(s, k, k + w)
    BY <1>2, <1>3, <1>6 DEF Marked
  <1>8. k + w \in 1..Len(s)
    BY <1>3, <1>6, LenProperties
  <1> QED BY <1>3, <1>7, <1>8

(* A version has a pod id exactly if it has a separator. *)
LEMMA VersionFacts ==
  ASSUME NEW w \in Seq(Tokens)
  PROVE  /\ Clear(w, 1, Len(w), {POD_ID_SEPARATOR}) =>
              parse_version(w) = [version |-> w, pod |-> None]
         /\ \A h \in 1..Len(w) :
              w[h] = POD_ID_SEPARATOR /\ Clear(w, 1, h - 1, {POD_ID_SEPARATOR}) =>
                parse_version(w) = [version |-> Before(w, h), pod |-> After(w, h)]
         /\ parse_version(w).pod = None => Clear(w, 1, Len(w), {POD_ID_SEPARATOR})
         /\ parse_version(w).pod # None =>
              \E h \in 1..Len(w) :
                w[h] = POD_ID_SEPARATOR /\ Clear(w, 1, h - 1, {POD_ID_SEPARATOR})
         /\ parse_version(w).version # None
  <1>1. PICK f : f = find(w, {POD_ID_SEPARATOR})
    OBVIOUS
  <1>2. \/ f = 0 /\ Clear(w, 1, Len(w), {POD_ID_SEPARATOR})
        \/ f \in 1..Len(w) /\ w[f] \in {POD_ID_SEPARATOR} /\ Clear(w, 1, f - 1, {POD_ID_SEPARATOR})
    BY <1>1, FindFacts
  <1>3. Clear(w, 1, Len(w), {POD_ID_SEPARATOR}) =>
          parse_version(w) = [version |-> w, pod |-> None]
    BY FindAt DEF parse_version
  <1>4. ASSUME NEW h \in 1..Len(w), w[h] = POD_ID_SEPARATOR,
               Clear(w, 1, h - 1, {POD_ID_SEPARATOR})
        PROVE  /\ parse_version(w) = [version |-> Before(w, h), pod |-> After(w, h)]
               /\ parse_version(w).version # None /\ parse_version(w).pod # None
    <2>1. find(w, {POD_ID_SEPARATOR}) = h
      BY <1>4, FindAt
    <2>2. h # 0
      OBVIOUS
    <2>3. parse_version(w) = [version |-> Before(w, h), pod |-> After(w, h)]
      BY <2>1, <2>2 DEF parse_version
    <2>4. Before(w, h) \in Seq(Tokens)
      <3>1. 1 \in 1 .. Len(w) + 1 /\ h - 1 \in 1 - 1 .. Len(w)
        BY LenProperties
      <3> QED BY <3>1, Part DEF Before
    <2>5. After(w, h) \in Seq(Tokens)
      BY Rest
    <2>6. None \notin Seq(Tokens)
      BY NoneAssumption, Zenon
    <2> QED BY <2>3, <2>4, <2>5, <2>6
  <1>5. None # w
    BY NoneAssumption, Zenon
  <1>6. CASE f = 0 /\ Clear(w, 1, Len(w), {POD_ID_SEPARATOR})
    <2>1. parse_version(w) = [version |-> w, pod |-> None]
      BY <1>3, <1>6
    <2>2. parse_version(w).version = w /\ parse_version(w).pod = None
      BY <2>1
    <2> QED BY <1>3, <1>4, <1>5, <1>6, <2>2
  <1>7. CASE /\ f \in 1..Len(w) /\ w[f] \in {POD_ID_SEPARATOR}
             /\ Clear(w, 1, f - 1, {POD_ID_SEPARATOR})
    BY <1>3, <1>4, <1>7
  <1> QED BY <1>2, <1>6, <1>7

(***************************************************************************)
(* Component names.                                                        *)
(***************************************************************************)
ComponentNames == [domain : Domains, server : Servers, version : Versions]

(* None is no text and no name, and the parts of a name are texts. *)
LEMMA NoneIsNoName ==
  /\ None \notin Seq(Tokens) /\ None \notin ComponentNames
  /\ None \notin [component : ComponentNames, pod : Int]
  /\ None \notin Domains /\ None \notin Servers /\ None \notin Versions
  <1>1. /\ None \notin Seq(Tokens) /\ None \notin ComponentNames
        /\ None \notin [component : ComponentNames, pod : Int]
    BY NoneAssumption, Zenon DEF ComponentNames
  <1>2. \A part \in Domains \cup Servers \cup Versions : part \in Seq(Tokens)
    BY SeparatorAssumption, Zenon
  <1> QED BY <1>1, <1>2

(* The grammar of a component name, with the places of its separators. *)
ReadsAt(s, k, v) ==
  /\ k \in 1..Len(s) /\ v \in 1..Len(s)
  /\ s[k] = DOMAIN_SEPARATOR /\ s[v] = VERSION_SEPARATOR
  /\ Before(s, k) \in Domains /\ SubSeq(s, k + 1, v - 1) \in Servers /\ After(s, v) \in Versions

Reading(s, k, v) ==
  [domain |-> Before(s, k), server |-> SubSeq(s, k + 1, v - 1), version |-> After(s, v)]

(* The readings of a text are those of its separators. *)
LEMMA ReadingsOfComponents ==
  ASSUME NEW s \in Seq(Tokens), NEW c
  PROVE  c \in ComponentReadings(s) <=> \E k, v \in 1..Len(s) : ReadsAt(s, k, v) /\ c = Reading(s, k, v)
  <1>1. DOMAIN s = 1..Len(s)
    BY LenProperties
  <1>2. c \in ComponentReadings(s) <=>
          \E k \in Splits(s, DOMAIN_SEPARATOR), v \in Splits(s, VERSION_SEPARATOR) :
            /\ c = Reading(s, k, v)
            /\ c.domain \in Domains /\ c.server \in Servers /\ c.version \in Versions
    BY DEF ComponentReadings, Reading
  <1>3. \A k, v : /\ Reading(s, k, v).domain = Before(s, k)
                  /\ Reading(s, k, v).server = SubSeq(s, k + 1, v - 1)
                  /\ Reading(s, k, v).version = After(s, v)
    BY DEF Reading
  <1> QED BY <1>1, <1>2, <1>3 DEF Splits, ReadsAt

(* The separators are at the places that parse finds, the colon first, and *)
(* what follows is a version without a pod id.                             *)
LEMMA ReadingIsMarked ==
  ASSUME NEW s \in Seq(Tokens), NEW k, NEW v, ReadsAt(s, k, v)
  PROVE  /\ Marked(s, k, v)
         /\ Clear(s, 1, k - 1, Separators) /\ Clear(s, k + 1, v - 1, Separators)
         /\ Clear(s, v + 1, Len(s), Separators)
  <1>1. /\ Len(s) \in Nat /\ k \in 1..Len(s) /\ v \in 1..Len(s)
        /\ s[k] = ":" /\ s[v] = "@"
    BY LenProperties DEF ReadsAt, DOMAIN_SEPARATOR, VERSION_SEPARATOR
  <1>2. {":", "@", "#", "/"} = Separators
    BY DEF Separators, DOMAIN_SEPARATOR, VERSION_SEPARATOR, POD_ID_SEPARATOR
  <1>3. Clear(s, 1, k - 1, Separators)
    <2>1. 1 \in 1 .. Len(s) + 1 /\ k - 1 \in 1 - 1 .. Len(s)
      BY <1>1
    <2>2. SubSeq(s, 1, k - 1) \in Domains \cup Servers \cup Versions
      BY DEF ReadsAt, Before
    <2> QED BY <2>1, <2>2, PartsAreClear
  <1>4. k < v
    <2>1. ~ (v \in 1 .. k - 1)
      BY <1>1, <1>2, <1>3 DEF Clear
    <2>2. k # v
      BY <1>1
    <2> QED BY <1>1, <2>1, <2>2
  <1>5. Clear(s, k + 1, v - 1, Separators)
    <2>1. k + 1 \in 1 .. Len(s) + 1 /\ v - 1 \in (k + 1) - 1 .. Len(s)
      BY <1>1, <1>4
    <2>2. SubSeq(s, k + 1, v - 1) \in Domains \cup Servers \cup Versions
      BY DEF ReadsAt
    <2> QED BY <2>1, <2>2, PartsAreClear
  <1>6. Clear(s, v + 1, Len(s), Separators)
    <2>1. v + 1 \in 1 .. Len(s) + 1 /\ Len(s) \in (v + 1) - 1 .. Len(s)
      BY <1>1
    <2>2. SubSeq(s, v + 1, Len(s)) \in Domains \cup Servers \cup Versions
      BY DEF ReadsAt, After
    <2> QED BY <2>1, <2>2, PartsAreClear
  <1>7. {DOMAIN_SEPARATOR, VERSION_SEPARATOR} \subseteq Separators
    BY DEF Separators
  <1>8. v \in k + 1 .. Len(s)
    BY <1>1, <1>4
  <1>9. Marked(s, k, v)
    BY <1>1, <1>3, <1>5, <1>7, <1>8 DEF Marked, ReadsAt, Clear
  <1> QED BY <1>3, <1>5, <1>6, <1>9

(* What is clear of separators stays so as a text of its own. *)
LEMMA ClearAfter ==
  ASSUME NEW s \in Seq(Tokens), NEW v \in 1..Len(s), NEW separators
  PROVE  Clear(After(s, v), 1, Len(After(s, v)), separators)
           <=> Clear(s, v + 1, Len(s), separators)
  <1>1. PICK w : w = After(s, v)
    OBVIOUS
  <1>2. /\ w \in Seq(Tokens) /\ Len(w) = Len(s) - v /\ Len(s) \in Nat
        /\ \A i \in 1 .. Len(s) - v : w[i] = s[v + i]
    BY <1>1, Rest, LenProperties
  <1>3. ASSUME \A i \in 1 .. Len(s) - v : w[i] \notin separators, NEW j \in v + 1 .. Len(s)
        PROVE  s[j] \notin separators
    <2>1. j - v \in 1 .. Len(s) - v /\ v + (j - v) = j
      BY <1>2
    <2> QED BY <1>2, <1>3, <2>1
  <1>4. ASSUME \A j \in v + 1 .. Len(s) : s[j] \notin separators, NEW i \in 1 .. Len(s) - v
        PROVE  w[i] \notin separators
    <2>1. v + i \in v + 1 .. Len(s)
      BY <1>2
    <2> QED BY <1>2, <1>4, <2>1
  <1> QED BY <1>1, <1>2, <1>3, <1>4 DEF Clear

(* A reading is what the text is parsed as. *)
LEMMA ReadingIsParsed ==
  ASSUME NEW s \in Seq(Tokens), NEW k, NEW v, ReadsAt(s, k, v)
  PROVE  component(parse(s)) = Reading(s, k, v) /\ Reading(s, k, v) \in ComponentNames
  <1>1. /\ Marked(s, k, v) /\ Clear(s, v + 1, Len(s), {POD_ID_SEPARATOR}) /\ v \in 1..Len(s)
    BY ReadingIsMarked DEF Clear, Separators, ReadsAt
  <1>2. After(s, v) \in Seq(Tokens) /\ Clear(After(s, v), 1, Len(After(s, v)), {POD_ID_SEPARATOR})
    BY <1>1, ClearAfter, Rest
  <1>3. parse_version(After(s, v)) = [version |-> After(s, v), pod |-> None]
    BY <1>2, VersionFacts
  <1>4. parse(s) = [domain |-> Before(s, k), server |-> SubSeq(s, k + 1, v - 1),
                    version |-> After(s, v), pod |-> None]
    BY <1>1, <1>3, ParseMarked
  <1>5. Reading(s, k, v) \in ComponentNames
    BY DEF ReadsAt, Reading, ComponentNames
  <1>6. /\ Before(s, k) # None /\ After(s, v) # None
        /\ Before(s, k) \in Domains /\ SubSeq(s, k + 1, v - 1) \in Servers
        /\ After(s, v) \in Versions
    BY NoneIsNoName DEF ReadsAt
  <1>7. component(parse(s)) = ComponentName(Before(s, k), SubSeq(s, k + 1, v - 1), After(s, v))
    BY <1>4, <1>6 DEF component
  <1> QED BY <1>5, <1>6, <1>7 DEF ComponentName, Reading

(* What a text is parsed as is a reading. *)
LEMMA ParsedIsReading ==
  ASSUME NEW s \in Seq(Tokens), component(parse(s)) # None
  PROVE  \E k, v \in 1..Len(s) : ReadsAt(s, k, v)
  <1>1. parse(s).domain # None /\ parse(s).version # None /\ parse(s).pod = None
    BY DEF component
  <1>2. PICK k \in 1..Len(s), v \in 1..Len(s) : Marked(s, k, v)
    BY <1>1, ParsedIsMarked
  <1>3. parse(s) = [domain |-> Before(s, k), server |-> SubSeq(s, k + 1, v - 1),
                    version |-> parse_version(After(s, v)).version,
                    pod |-> parse_version(After(s, v)).pod]
    BY <1>2, ParseMarked
  <1>4. After(s, v) \in Seq(Tokens) /\ parse_version(After(s, v)).pod = None
    BY <1>1, <1>3, Rest
  <1>5. parse_version(After(s, v)) = [version |-> After(s, v), pod |-> None]
    BY <1>4, VersionFacts
  <1>6. /\ parse(s).domain = Before(s, k) /\ parse(s).server = SubSeq(s, k + 1, v - 1)
        /\ parse(s).version = After(s, v)
    BY <1>3, <1>5
  <1>7. Before(s, k) \in Domains /\ SubSeq(s, k + 1, v - 1) \in Servers /\ After(s, v) \in Versions
    BY <1>1, <1>6 DEF component, ComponentName
  <1> QED BY <1>2, <1>7 DEF ReadsAt, Marked

(* A text is read as a component exactly as the grammar says. *)
LEMMA ComponentGrammar ==
  ASSUME NEW s \in Seq(Tokens)
  PROVE  LET c == component(parse(s))
         IN  ComponentReadings(s) = IF c = None THEN {} ELSE {c}
  <1>1. PICK c : c = component(parse(s))
    OBVIOUS
  <1>2. ASSUME NEW r \in ComponentReadings(s) PROVE r = c /\ c # None
    <2>1. PICK k \in 1..Len(s), v \in 1..Len(s) : ReadsAt(s, k, v) /\ r = Reading(s, k, v)
      BY <1>2, ReadingsOfComponents
    <2> QED BY <1>1, <2>1, ReadingIsParsed, NoneIsNoName
  <1>3. ASSUME c # None PROVE c \in ComponentReadings(s)
    <2>1. PICK k \in 1..Len(s), v \in 1..Len(s) : ReadsAt(s, k, v)
      BY <1>1, <1>3, ParsedIsReading
    <2>2. c = Reading(s, k, v)
      BY <1>1, <2>1, ReadingIsParsed
    <2> QED BY <2>1, <2>2, ReadingsOfComponents
  <1> QED BY <1>1, <1>2, <1>3

(***************************************************************************)
(* Pod names.                                                              *)
(***************************************************************************)

(* The number of a pod is a number. *)
LEMMA RadixType ==
  ASSUME NEW digits, from_str_radix(digits) # None
  PROVE  from_str_radix(digits) \in Int
  <1>1. \A x, y : x \in 0..y => x \in Int
    OBVIOUS
  <1> QED BY <1>1, Zenon DEF from_str_radix

(* What is before the separator of the pod id, and the parts of that. *)
LEMMA FrontPart ==
  ASSUME NEW s \in Seq(Tokens), NEW h \in 1..Len(s)
  PROVE  /\ Before(s, h) \in Seq(Tokens) /\ Len(Before(s, h)) = h - 1
         /\ \A i \in 1 .. h - 1 : Before(s, h)[i] = s[i]
         /\ \A k \in 1 .. h - 1, v \in 1 .. h - 1 : k < v =>
              /\ Before(Before(s, h), k) = Before(s, k)
              /\ SubSeq(Before(s, h), k + 1, v - 1) = SubSeq(s, k + 1, v - 1)
              /\ After(Before(s, h), v) = SubSeq(s, v + 1, h - 1)
  <1> DEFINE t == SubSeq(s, 1, h - 1)
  <1>1. Len(s) \in Nat /\ 1 \in 1 .. Len(s) + 1 /\ h - 1 \in 1 - 1 .. Len(s)
    BY LenProperties
  <1>2. /\ t \in Seq(Tokens) /\ Len(t) = (h - 1) - 1 + 1
        /\ \A i \in 1 .. (h - 1) - 1 + 1 : t[i] = s[1 + i - 1]
    BY <1>1, Part
  <1>3. \A m \in 1 .. (h - 1) - 1 + 2 : \A n \in m - 1 .. (h - 1) - 1 + 1 :
          SubSeq(t, m, n) = SubSeq(s, 1 + m - 1, 1 + n - 1)
    BY <1>1, PartOfPart
  <1> HIDE DEF t
  <1>4. Len(t) = h - 1 /\ \A i \in 1 .. h - 1 : t[i] = s[i]
    BY <1>1, <1>2
  <1>5. ASSUME NEW m \in 1..h, NEW n \in m - 1 .. h - 1
        PROVE  SubSeq(t, m, n) = SubSeq(s, m, n)
    <2>1. m \in 1 .. (h - 1) - 1 + 2 /\ n \in m - 1 .. (h - 1) - 1 + 1
      BY <1>1
    <2>2. 1 + m - 1 = m /\ 1 + n - 1 = n
      BY <1>1
    <2> QED BY <1>3, <2>1, <2>2
  <1>6. ASSUME NEW k \in 1 .. h - 1, NEW v \in 1 .. h - 1, k < v
        PROVE  /\ SubSeq(t, 1, k - 1) = SubSeq(s, 1, k - 1)
               /\ SubSeq(t, k + 1, v - 1) = SubSeq(s, k + 1, v - 1)
               /\ SubSeq(t, v + 1, h - 1) = SubSeq(s, v + 1, h - 1)
    <2>1. /\ 1 \in 1..h /\ k - 1 \in 1 - 1 .. h - 1
          /\ k + 1 \in 1..h /\ v - 1 \in (k + 1) - 1 .. h - 1
          /\ v + 1 \in 1..h /\ h - 1 \in (v + 1) - 1 .. h - 1
      BY <1>1, <1>6
    <2> QED BY <1>5, <2>1
  <1>7. t = Before(s, h)
    BY DEF t, Before
  <1> QED BY <1>2, <1>4, <1>6, <1>7 DEF Before, After

(* The readings of a text as a pod are those of its front as a component. *)
LEMMA ReadingsOfPods ==
  ASSUME NEW s \in Seq(Tokens), NEW p
  PROVE  p \in PodReadings(s) <=>
           \E h \in 1..Len(s) : \E c \in ComponentReadings(Before(s, h)) :
             /\ s[h] = POD_ID_SEPARATOR
             /\ from_str_radix(After(s, h)) # None
             /\ p = [component |-> c, pod |-> from_str_radix(After(s, h))]
  <1>1. DOMAIN s = 1..Len(s)
    BY LenProperties
  <1>2. p \in PodReadings(s) <=>
          /\ \E h \in Splits(s, POD_ID_SEPARATOR) : \E c \in ComponentReadings(Before(s, h)) :
               p = [component |-> c, pod |-> from_str_radix(After(s, h))]
          /\ p.pod # None
    BY DEF PodReadings
  <1>3. \A c, i : [component |-> c, pod |-> i].pod = i
    OBVIOUS
  <1> QED BY <1>1, <1>2, <1>3 DEF Splits

(* A reading as a pod is what the text is parsed as. *)
LEMMA PodReadingIsParsed ==
  ASSUME NEW s \in Seq(Tokens), NEW h \in 1..Len(s), s[h] = POD_ID_SEPARATOR,
         NEW c \in ComponentReadings(Before(s, h)), from_str_radix(After(s, h)) # None
  PROVE  /\ pod(parse(s)) = [component |-> c, pod |-> from_str_radix(After(s, h))]
         /\ parse(s).pod = After(s, h)
  <1>1. PICK t : t = Before(s, h)
    OBVIOUS
  <1>2. t \in Seq(Tokens) /\ Len(t) = h - 1 /\ \A i \in 1 .. h - 1 : t[i] = s[i]
    BY <1>1, FrontPart
  <1>3. PICK k \in 1..Len(t), v \in 1..Len(t) : ReadsAt(t, k, v) /\ c = Reading(t, k, v)
    BY <1>1, <1>2, ReadingsOfComponents
  <1>4. Marked(t, k, v) /\ Clear(t, v + 1, Len(t), Separators)
    BY <1>2, <1>3, ReadingIsMarked
  <1>5. /\ Len(s) \in Nat /\ k \in 1 .. h - 1 /\ v \in 1 .. h - 1 /\ k < v
        /\ v \in k + 1 .. Len(s) /\ k \in 1..Len(s) /\ v \in 1..Len(s) /\ h \in v + 1 .. Len(s)
    BY <1>2, <1>3, <1>4, LenProperties DEF Marked
  <1>6. /\ Before(t, k) = Before(s, k) /\ SubSeq(t, k + 1, v - 1) = SubSeq(s, k + 1, v - 1)
        /\ After(t, v) = SubSeq(s, v + 1, h - 1)
    BY <1>1, <1>5, FrontPart
  <1>7. Marked(s, k, v)
    <2>1. s[k] = t[k] /\ s[v] = t[v]
      BY <1>2, <1>5
    <2>2. \A i \in 1 .. k - 1 : s[i] = t[i]
      BY <1>2, <1>5
    <2>3. \A i \in k + 1 .. v - 1 : s[i] = t[i]
      BY <1>2, <1>5
    <2> QED BY <1>4, <1>5, <2>1, <2>2, <2>3 DEF Marked, Clear
  <1>8. PICK w : w = After(s, v)
    OBVIOUS
  <1>9. /\ w \in Seq(Tokens) /\ Len(w) = Len(s) - v
        /\ \A i \in 1 .. Len(s) - v : w[i] = s[v + i]
        /\ h - v \in 1 .. Len(s) - v
        /\ Before(w, h - v) = SubSeq(s, v + 1, h - 1) /\ After(w, h - v) = After(s, h)
    BY <1>5, <1>8, Rest
  <1>10. w[h - v] = POD_ID_SEPARATOR
    <2>1. v + (h - v) = h
      BY <1>5
    <2> QED BY <1>9, <2>1
  <1>11. ASSUME NEW i \in 1 .. (h - v) - 1 PROVE w[i] \notin {POD_ID_SEPARATOR}
    <2>1. i \in 1 .. Len(s) - v /\ v + i \in v + 1 .. h - 1 /\ v + i \in 1 .. h - 1
      BY <1>5
    <2>2. w[i] = t[v + i] /\ t[v + i] \notin Separators
      BY <1>2, <1>4, <1>9, <2>1 DEF Clear
    <2> QED BY <2>2 DEF Separators
  <1>12. parse_version(w) = [version |-> After(t, v), pod |-> After(s, h)]
    <2>1. h - v \in 1..Len(w) /\ Clear(w, 1, (h - v) - 1, {POD_ID_SEPARATOR})
      BY <1>9, <1>11 DEF Clear
    <2>2. parse_version(w) = [version |-> Before(w, h - v), pod |-> After(w, h - v)]
      BY <1>9, <1>10, <2>1, VersionFacts
    <2> QED BY <1>6, <1>9, <2>2
  <1>13. parse(s) = [domain |-> Before(t, k), server |-> SubSeq(t, k + 1, v - 1),
                     version |-> After(t, v), pod |-> After(s, h)]
    <2>1. parse_version(w).version = After(t, v) /\ parse_version(w).pod = After(s, h)
      BY <1>12
    <2>2. parse(s) = [domain |-> Before(s, k), server |-> SubSeq(s, k + 1, v - 1),
                      version |-> parse_version(w).version, pod |-> parse_version(w).pod]
      BY <1>7, <1>8, ParseMarked
    <2> QED BY <1>6, <2>1, <2>2
  <1>14. /\ Before(t, k) # None /\ After(t, v) # None
         /\ Before(t, k) \in Domains /\ SubSeq(t, k + 1, v - 1) \in Servers
         /\ After(t, v) \in Versions
    BY <1>3, NoneIsNoName DEF ReadsAt
  <1>15. After(s, h) # None
    BY Rest, NoneIsNoName
  <1>16. ComponentName(Before(t, k), SubSeq(t, k + 1, v - 1), After(t, v)) = c
    BY <1>3, <1>14 DEF ComponentName, Reading
  <1>17. c # None
    BY <1>2, <1>3, ReadingIsParsed, NoneIsNoName
  <1> QED BY <1>13, <1>14, <1>15, <1>16, <1>17 DEF pod

(* What a text is parsed as is a reading as a pod. *)
LEMMA ParsedIsPodReading ==
  ASSUME NEW s \in Seq(Tokens), pod(parse(s)) # None
  PROVE  \E h \in 1..Len(s) : \E c \in ComponentReadings(Before(s, h)) :
           s[h] = POD_ID_SEPARATOR /\ from_str_radix(After(s, h)) # None
  <1>1. /\ parse(s).domain # None /\ parse(s).version # None /\ parse(s).pod # None
        /\ ComponentName(parse(s).domain, parse(s).server, parse(s).version) # None
        /\ from_str_radix(parse(s).pod) # None
    BY DEF pod
  <1>2. PICK k \in 1..Len(s), v \in 1..Len(s) : Marked(s, k, v)
    BY <1>1, ParsedIsMarked
  <1>3. PICK w : w = After(s, v)
    OBVIOUS
  <1>4. parse(s) = [domain |-> Before(s, k), server |-> SubSeq(s, k + 1, v - 1),
                    version |-> parse_version(w).version, pod |-> parse_version(w).pod]
    BY <1>2, <1>3, ParseMarked
  <1>5. /\ w \in Seq(Tokens) /\ Len(w) = Len(s) - v /\ Len(s) \in Nat
        /\ \A i \in 1 .. Len(s) - v : w[i] = s[v + i]
    BY <1>3, Rest, LenProperties
  <1>6. PICK g \in 1..Len(w) : w[g] = POD_ID_SEPARATOR /\ Clear(w, 1, g - 1, {POD_ID_SEPARATOR})
    <2>1. parse_version(w).pod # None
      BY <1>1, <1>4
    <2> QED BY <1>5, <2>1, VersionFacts
  <1>7. PICK h : h = v + g
    OBVIOUS
  <1>8. /\ h \in 1..Len(s) /\ h \in v + 1 .. Len(s) /\ h - v = g /\ s[h] = POD_ID_SEPARATOR
        /\ k \in 1 .. h - 1 /\ v \in 1 .. h - 1 /\ k < v
    BY <1>2, <1>5, <1>6, <1>7 DEF Marked
  <1>9. Before(w, g) = SubSeq(s, v + 1, h - 1) /\ After(w, g) = After(s, h)
    BY <1>3, <1>8, Rest
  <1>10. parse_version(w) = [version |-> SubSeq(s, v + 1, h - 1), pod |-> After(s, h)]
    BY <1>5, <1>6, <1>9, VersionFacts
  <1>11. /\ parse(s).domain = Before(s, k) /\ parse(s).server = SubSeq(s, k + 1, v - 1)
         /\ parse(s).version = SubSeq(s, v + 1, h - 1) /\ parse(s).pod = After(s, h)
    <2>1. \A x, y : parse_version(w) = [version |-> x, pod |-> y] =>
            parse_version(w).version = x /\ parse_version(w).pod = y
      OBVIOUS
    <2>2. parse_version(w).version = SubSeq(s, v + 1, h - 1) /\ parse_version(w).pod = After(s, h)
      BY <1>10, <2>1, Zenon
    <2>3. \A a, b, x, y : parse(s) = [domain |-> a, server |-> b, version |-> x, pod |-> y] =>
            /\ parse(s).domain = a /\ parse(s).server = b
            /\ parse(s).version = x /\ parse(s).pod = y
      OBVIOUS
    <2> QED BY <1>4, <2>2, <2>3, Zenon
  <1>12. /\ Before(s, k) \in Domains /\ SubSeq(s, k + 1, v - 1) \in Servers
         /\ SubSeq(s, v + 1, h - 1) \in Versions
    BY <1>1, <1>11 DEF ComponentName
  <1>13. PICK t : t = Before(s, h)
    OBVIOUS
  <1>14. /\ t \in Seq(Tokens) /\ Len(t) = h - 1 /\ \A i \in 1 .. h - 1 : t[i] = s[i]
         /\ Before(t, k) = Before(s, k) /\ SubSeq(t, k + 1, v - 1) = SubSeq(s, k + 1, v - 1)
         /\ After(t, v) = SubSeq(s, v + 1, h - 1)
    BY <1>8, <1>13, FrontPart
  <1>15. ReadsAt(t, k, v)
    BY <1>2, <1>8, <1>12, <1>14 DEF ReadsAt, Marked
  <1>16. Reading(t, k, v) \in ComponentReadings(t)
    BY <1>8, <1>14, <1>15, ReadingsOfComponents
  <1> QED BY <1>1, <1>8, <1>11, <1>13, <1>16

(* A text is read as a pod exactly as the grammar says. *)
LEMMA PodGrammar ==
  ASSUME NEW s \in Seq(Tokens)
  PROVE  LET p == pod(parse(s))
         IN  PodReadings(s) = IF p = None THEN {} ELSE {p}
  <1>1. PICK p : p = pod(parse(s))
    OBVIOUS
  <1>2. ASSUME NEW r \in PodReadings(s) PROVE r = p /\ p # None
    <2>1. PICK h \in 1..Len(s) : \E c \in ComponentReadings(Before(s, h)) :
            /\ s[h] = POD_ID_SEPARATOR
            /\ from_str_radix(After(s, h)) # None
            /\ r = [component |-> c, pod |-> from_str_radix(After(s, h))]
      BY <1>2, ReadingsOfPods
    <2>2. PICK c \in ComponentReadings(Before(s, h)) :
            /\ s[h] = POD_ID_SEPARATOR
            /\ from_str_radix(After(s, h)) # None
            /\ r = [component |-> c, pod |-> from_str_radix(After(s, h))]
      BY <2>1
    <2>3. p = r
      BY <1>1, <2>2, PodReadingIsParsed
    <2>4. Before(s, h) \in Seq(Tokens)
      BY FrontPart
    <2>5. c \in ComponentNames
      <3>1. PICK k \in 1..Len(Before(s, h)), v \in 1..Len(Before(s, h)) :
              ReadsAt(Before(s, h), k, v) /\ c = Reading(Before(s, h), k, v)
        BY <2>4, ReadingsOfComponents
      <3> QED BY <2>4, <3>1, ReadingIsParsed
    <2>6. from_str_radix(After(s, h)) \in Int
      BY <2>2, RadixType
    <2>7. r \in [component : ComponentNames, pod : Int]
      BY <2>2, <2>5, <2>6
    <2> QED BY <2>3, <2>7, NoneIsNoName
  <1>3. ASSUME p # None PROVE p \in PodReadings(s)
    <2>1. PICK h \in 1..Len(s) : \E c \in ComponentReadings(Before(s, h)) :
            s[h] = POD_ID_SEPARATOR /\ from_str_radix(After(s, h)) # None
      BY <1>1, <1>3, ParsedIsPodReading
    <2>2. PICK c \in ComponentReadings(Before(s, h)) :
            s[h] = POD_ID_SEPARATOR /\ from_str_radix(After(s, h)) # None
      BY <2>1
    <2>3. p = [component |-> c, pod |-> from_str_radix(After(s, h))]
      BY <1>1, <2>2, PodReadingIsParsed
    <2> QED BY <2>2, <2>3, ReadingsOfPods
  <1> QED BY <1>1, <1>2, <1>3

(***************************************************************************)
(* Image ids.                                                              *)
(***************************************************************************)

(* The grammar of an image id, with the places of its separators. *)
ImageAt(s, k, d, v) ==
  /\ k \in 1..Len(s) /\ d \in 1..Len(s) /\ v \in 1..Len(s)
  /\ s[k] = "/" /\ s[d] = "/" /\ s[v] = DOMAIN_SEPARATOR
  /\ Clear(s, 1, k - 1, {"/"})
  /\ SubSeq(s, k + 1, d - 1) \in Domains
  /\ SubSeq(s, d + 1, v - 1) \in Servers
  /\ After(s, v) \in Versions

ImageReading(s, k, d, v) ==
  [domain |-> SubSeq(s, k + 1, d - 1), server |-> SubSeq(s, d + 1, v - 1),
   version |-> After(s, v)]

(* The readings of a text as an image id are those of its separators. *)
LEMMA ReadingsOfImages ==
  ASSUME NEW s \in Seq(Tokens), NEW c
  PROVE  c \in ImageReadings(s) <=>
           \E k, d, v \in 1..Len(s) : ImageAt(s, k, d, v) /\ c = ImageReading(s, k, d, v)
  <1>1. DOMAIN s = 1..Len(s)
    BY LenProperties
  <1>2. c \in ImageReadings(s) <=>
          \E k \in {j \in Splits(s, "/") : "/" \notin Range(Before(s, j))},
             d \in Splits(s, "/"), v \in Splits(s, DOMAIN_SEPARATOR) :
            /\ c = ImageReading(s, k, d, v)
            /\ c.domain \in Domains /\ c.server \in Servers /\ c.version \in Versions
    BY DEF ImageReadings, ImageReading
  <1>3. \A k, d, v : /\ ImageReading(s, k, d, v).domain = SubSeq(s, k + 1, d - 1)
                     /\ ImageReading(s, k, d, v).server = SubSeq(s, d + 1, v - 1)
                     /\ ImageReading(s, k, d, v).version = After(s, v)
    BY DEF ImageReading
  <1>4. ASSUME NEW k \in 1..Len(s)
        PROVE  "/" \notin Range(Before(s, k)) <=> Clear(s, 1, k - 1, {"/"})
    <2>1. PICK t : t = Before(s, k)
      OBVIOUS
    <2>2. DOMAIN t = 1 .. k - 1 /\ \A i \in 1 .. k - 1 : t[i] = s[i]
      BY <2>1, FrontPart, LenProperties
    <2> QED BY <2>1, <2>2 DEF Range, Clear
  <1>5. ASSUME c \in ImageReadings(s)
        PROVE  \E k, d, v \in 1..Len(s) : ImageAt(s, k, d, v) /\ c = ImageReading(s, k, d, v)
    <2>1. PICK k \in {j \in Splits(s, "/") : "/" \notin Range(Before(s, j))},
               d \in Splits(s, "/"), v \in Splits(s, DOMAIN_SEPARATOR) :
            /\ c = ImageReading(s, k, d, v)
            /\ c.domain \in Domains /\ c.server \in Servers /\ c.version \in Versions
      BY <1>2, <1>5
    <2>2. /\ k \in 1..Len(s) /\ d \in 1..Len(s) /\ v \in 1..Len(s)
          /\ s[k] = "/" /\ s[d] = "/" /\ s[v] = DOMAIN_SEPARATOR
          /\ Clear(s, 1, k - 1, {"/"})
      BY <1>1, <1>4, <2>1 DEF Splits
    <2>3. ImageAt(s, k, d, v)
      BY <1>3, <2>1, <2>2 DEF ImageAt
    <2> QED BY <2>1, <2>2, <2>3
  <1>6. ASSUME NEW k \in 1..Len(s), NEW d \in 1..Len(s), NEW v \in 1..Len(s),
               ImageAt(s, k, d, v), c = ImageReading(s, k, d, v)
        PROVE  c \in ImageReadings(s)
    <2>1. /\ k \in {j \in Splits(s, "/") : "/" \notin Range(Before(s, j))}
          /\ d \in Splits(s, "/") /\ v \in Splits(s, DOMAIN_SEPARATOR)
      BY <1>1, <1>4, <1>6 DEF Splits, ImageAt
    <2>2. c.domain \in Domains /\ c.server \in Servers /\ c.version \in Versions
      BY <1>3, <1>6 DEF ImageAt
    <2> QED BY <1>2, <1>6, <2>1, <2>2
  <1> QED BY <1>5, <1>6

(* The separators of an image id are in order, and only the registry may   *)
(* hold others.                                                            *)
LEMMA ImageOrder ==
  ASSUME NEW s \in Seq(Tokens), NEW k, NEW d, NEW v, ImageAt(s, k, d, v)
  PROVE  /\ d \in k + 1 .. Len(s) /\ v \in d + 1 .. Len(s)
         /\ Clear(s, k + 1, d - 1, Separators) /\ Clear(s, d + 1, v - 1, Separators)
  <1>1. /\ Len(s) \in Nat /\ k \in 1..Len(s) /\ d \in 1..Len(s) /\ v \in 1..Len(s)
        /\ s[k] = "/" /\ s[d] = "/" /\ s[v] = ":"
    BY LenProperties DEF ImageAt, DOMAIN_SEPARATOR
  <1>2. "/" \in Separators
    BY DEF Separators
  <1>3. d # k
    <2>1. SUFFICES ASSUME d = k PROVE FALSE
      OBVIOUS
    <2>2. SubSeq(s, k + 1, d - 1) = <<>>
      <3>1. k + 1 \in Int /\ d - 1 \in Int /\ d - 1 < k + 1
        BY <1>1, <2>1
      <3> QED BY <3>1, SubSeqEmpty
    <2> QED BY <2>2, SeparatorAssumption DEF ImageAt
  <1>4. k < d
    <2>1. ~ (d \in 1 .. k - 1)
      BY <1>1 DEF ImageAt, Clear
    <2> QED BY <1>1, <1>3, <2>1
  <1>5. d < v
    <2>1. v + 1 \in 1 .. Len(s) + 1 /\ Len(s) \in (v + 1) - 1 .. Len(s)
      BY <1>1
    <2>2. SubSeq(s, v + 1, Len(s)) \in Domains \cup Servers \cup Versions
      BY DEF ImageAt, After
    <2>3. Clear(s, v + 1, Len(s), Separators)
      BY <2>1, <2>2, PartsAreClear
    <2>4. ~ (d \in v + 1 .. Len(s))
      BY <1>1, <1>2, <2>3 DEF Clear
    <2>5. d # v
      BY <1>1
    <2> QED BY <1>1, <2>4, <2>5
  <1>6. Clear(s, k + 1, d - 1, Separators)
    <2>1. k + 1 \in 1 .. Len(s) + 1 /\ d - 1 \in (k + 1) - 1 .. Len(s)
      BY <1>1, <1>4
    <2>2. SubSeq(s, k + 1, d - 1) \in Domains \cup Servers \cup Versions
      BY DEF ImageAt
    <2> QED BY <2>1, <2>2, PartsAreClear
  <1>7. Clear(s, d + 1, v - 1, Separators)
    <2>1. d + 1 \in 1 .. Len(s) + 1 /\ v - 1 \in (d + 1) - 1 .. Len(s)
      BY <1>1, <1>5
    <2>2. SubSeq(s, d + 1, v - 1) \in Domains \cup Servers \cup Versions
      BY DEF ImageAt
    <2> QED BY <2>1, <2>2, PartsAreClear
  <1> QED BY <1>1, <1>4, <1>5, <1>6, <1>7

(* A reading as an image id is what the code finds. *)
LEMMA ImageIsFound ==
  ASSUME NEW s \in Seq(Tokens), NEW k, NEW d, NEW v, ImageAt(s, k, d, v)
  PROVE  component_from_image_spec(s) = ImageReading(s, k, d, v)
  <1>1. /\ k \in 1..Len(s) /\ d \in k + 1 .. Len(s) /\ v \in d + 1 .. Len(s)
        /\ d \in 1..Len(s) /\ Len(s) \in Nat
    BY ImageOrder, LenProperties DEF ImageAt
  <1>2. find(s, {"/"}) = k
    BY <1>1, FindAt DEF ImageAt
  <1>3. find(After(s, k), {"/"}) = d - k
    <2>1. s[d] \in {"/"} /\ Clear(s, k + 1, d - 1, {"/"})
      BY ImageOrder DEF ImageAt, Clear, Separators
    <2> QED BY <1>1, <2>1, FindAfter
  <1>4. /\ After(After(s, k), d - k) = After(s, d)
        /\ Before(After(s, k), d - k) = SubSeq(s, k + 1, d - 1)
    BY <1>1, Rest
  <1>5. find(After(s, d), {DOMAIN_SEPARATOR}) = v - d
    <2>1. s[v] \in {DOMAIN_SEPARATOR} /\ Clear(s, d + 1, v - 1, {DOMAIN_SEPARATOR})
      BY ImageOrder DEF ImageAt, Clear, Separators
    <2> QED BY <1>1, <2>1, FindAfter
  <1>6. /\ After(After(s, d), v - d) = After(s, v)
        /\ Before(After(s, d), v - d) = SubSeq(s, d + 1, v - 1)
    BY <1>1, Rest
  <1>7. k # 0 /\ d - k # 0 /\ v - d # 0
    BY <1>1
  <1>8. component_from_image_spec(s)
          = ComponentName(SubSeq(s, k + 1, d - 1), SubSeq(s, d + 1, v - 1), After(s, v))
    BY <1>2, <1>3, <1>4, <1>5, <1>6, <1>7 DEF component_from_image_spec
  <1> QED BY <1>8 DEF ComponentName, ImageReading, ImageAt

(* What the code finds is a reading as an image id. *)
LEMMA FoundIsImage ==
  ASSUME NEW s \in Seq(Tokens), component_from_image_spec(s) # None
  PROVE  \E k, d, v \in 1..Len(s) : ImageAt(s, k, d, v)
  <1>1. PICK k : k = find(s, {"/"})
    OBVIOUS
  <1>2. PICK e : e = find(After(s, k), {"/"})
    OBVIOUS
  <1>3. PICK f : f = find(After(After(s, k), e), {DOMAIN_SEPARATOR})
    OBVIOUS
  <1>4. /\ k # 0 /\ e # 0 /\ f # 0
        /\ ComponentName(Before(After(s, k), e), Before(After(After(s, k), e), f),
                         After(After(After(s, k), e), f)) # None
    BY <1>1, <1>2, <1>3 DEF component_from_image_spec
  <1>5. k \in 1..Len(s) /\ s[k] = "/" /\ Clear(s, 1, k - 1, {"/"}) /\ Len(s) \in Nat
    BY <1>1, <1>4, FindFacts, LenProperties
  <1>6. PICK d \in k + 1 .. Len(s) : d = k + e /\ s[d] = "/"
    BY <1>2, <1>4, <1>5, FoundAfter
  <1>7. e = d - k /\ d \in 1..Len(s)
    BY <1>2, <1>4, <1>5, <1>6, FoundAfter
  <1>8. /\ After(After(s, k), e) = After(s, d)
        /\ Before(After(s, k), e) = SubSeq(s, k + 1, d - 1)
    BY <1>5, <1>6, <1>7, Rest
  <1>9. PICK v \in d + 1 .. Len(s) : v = d + f /\ s[v] = DOMAIN_SEPARATOR
    BY <1>3, <1>4, <1>7, <1>8, FoundAfter
  <1>10. f = v - d /\ v \in 1..Len(s)
    BY <1>3, <1>4, <1>5, <1>7, <1>8, <1>9, FoundAfter
  <1>11. /\ After(After(s, d), f) = After(s, v)
         /\ Before(After(s, d), f) = SubSeq(s, d + 1, v - 1)
    BY <1>7, <1>9, <1>10, Rest
  <1>12. ComponentName(SubSeq(s, k + 1, d - 1), SubSeq(s, d + 1, v - 1), After(s, v)) # None
    BY <1>4, <1>8, <1>11
  <1>13. ImageAt(s, k, d, v)
    BY <1>5, <1>6, <1>7, <1>9, <1>10, <1>12 DEF ImageAt, ComponentName
  <1> QED BY <1>5, <1>7, <1>10, <1>13

(* A text is read as an image id exactly as the grammar says. *)
LEMMA ImageGrammar ==
  ASSUME NEW s \in Seq(Tokens)
  PROVE  LET g == component_from_image_spec(s)
         IN  ImageReadings(s) = IF g = None THEN {} ELSE {g}
  <1>1. PICK g : g = component_from_image_spec(s)
    OBVIOUS
  <1>2. ASSUME NEW r \in ImageReadings(s) PROVE r = g /\ g # None
    <2>1. PICK k \in 1..Len(s), d \in 1..Len(s), v \in 1..Len(s) :
            ImageAt(s, k, d, v) /\ r = ImageReading(s, k, d, v)
      BY <1>2, ReadingsOfImages
    <2>2. r \in ComponentNames
      BY <2>1 DEF ImageAt, ImageReading, ComponentNames
    <2> QED BY <1>1, <2>1, <2>2, ImageIsFound, NoneIsNoName
  <1>3. ASSUME g # None PROVE g \in ImageReadings(s)
    <2>1. PICK k \in 1..Len(s), d \in 1..Len(s), v \in 1..Len(s) : ImageAt(s, k, d, v)
      BY <1>1, <1>3, FoundIsImage
    <2>2. g = ImageReading(s, k, d, v)
      BY <1>1, <2>1, ImageIsFound
    <2> QED BY <2>1, <2>2, ReadingsOfImages
  <1> QED BY <1>1, <1>2, <1>3

(***************************************************************************)
(* A text is one kind of name only, and a component name is the text that  *)
(* it was read from.                                                       *)
(***************************************************************************)

(* There is no slash in the number of a pod. *)
LEMMA NoSlashInNumber ==
  ASSUME NEW d \in Seq(Tokens), from_str_radix(d) # None
  PROVE  Clear(d, 1, Len(d), {"/"})
  <1> DEFINE digits == IF d # <<>> /\ d[1] = "+" THEN Tail(d) ELSE d
  <1>1. Range(digits) \subseteq DOMAIN Digit
    BY Zenon DEF from_str_radix
  <1>2. "/" \notin DOMAIN Digit
    BY SeparatorAssumption DEF Separators
  <1>3. Len(d) \in Nat /\ DOMAIN d = 1..Len(d)
    BY LenProperties
  <1>4. CASE d # <<>> /\ d[1] = "+"
    <2>1. /\ Tail(d) \in Seq(Tokens) /\ Len(Tail(d)) = Len(d) - 1
          /\ \A i \in 1..Len(Tail(d)) : Tail(d)[i] = d[i + 1]
      BY <1>4, HeadTailProperties
    <2>2. DOMAIN Tail(d) = 1 .. Len(d) - 1
      BY <2>1, LenProperties
    <2>3. PICK t : t = Tail(d)
      OBVIOUS
    <2>4. /\ DOMAIN t = 1 .. Len(d) - 1 /\ \A i \in 1 .. Len(d) - 1 : t[i] = d[i + 1]
          /\ Range(t) \subseteq DOMAIN Digit
      BY <1>1, <1>4, <2>1, <2>2, <2>3
    <2>5. ASSUME NEW j \in 1..Len(d), j # 1 PROVE d[j] # "/"
      <3>1. j - 1 \in 1 .. Len(d) - 1 /\ (j - 1) + 1 = j
        BY <1>3, <2>5
      <3>2. t[j - 1] = d[j] /\ t[j - 1] \in Range(t)
        BY <2>4, <3>1 DEF Range
      <3> QED BY <1>2, <2>4, <3>2
    <2> QED BY <1>4, <2>5 DEF Clear
  <1>5. CASE ~ (d # <<>> /\ d[1] = "+")
    <2>1. Range(d) \subseteq DOMAIN Digit
      BY <1>1, <1>5
    <2> QED BY <1>2, <1>3, <2>1 DEF Clear, Range
  <1> QED BY <1>4, <1>5

(* There is no slash in the name of a component or of a pod. *)
LEMMA NoSlashInName ==
  ASSUME NEW s \in Seq(Tokens), component(parse(s)) # None \/ pod(parse(s)) # None
  PROVE  Clear(s, 1, Len(s), {"/"})
  <1>1. ASSUME NEW t \in Seq(Tokens), NEW k, NEW v, ReadsAt(t, k, v)
        PROVE  Clear(t, 1, Len(t), {"/"})
    <2>1. /\ Len(t) \in Nat /\ k \in 1..Len(t) /\ v \in 1..Len(t) /\ t[k] = ":" /\ t[v] = "@"
          /\ Clear(t, 1, k - 1, {"/"}) /\ Clear(t, k + 1, v - 1, {"/"})
          /\ Clear(t, v + 1, Len(t), {"/"})
      BY <1>1, ReadingIsMarked, LenProperties
      DEF ReadsAt, Clear, Separators, DOMAIN_SEPARATOR, VERSION_SEPARATOR
    <2>2. ASSUME NEW i \in 1..Len(t) PROVE t[i] # "/"
      <3>1. i \in 1 .. k - 1 \/ i = k \/ i \in k + 1 .. v - 1 \/ i = v \/ i \in v + 1 .. Len(t)
        BY <2>1
      <3> QED BY <2>1, <3>1 DEF Clear
    <2> QED BY <2>2 DEF Clear
  <1>2. CASE component(parse(s)) # None
    BY <1>1, <1>2, ParsedIsReading
  <1>3. CASE pod(parse(s)) # None
    <2>1. PICK h \in 1..Len(s) : \E c \in ComponentReadings(Before(s, h)) :
            s[h] = POD_ID_SEPARATOR /\ from_str_radix(After(s, h)) # None
      BY <1>3, ParsedIsPodReading
    <2>2. PICK t : t = Before(s, h)
      OBVIOUS
    <2>3. t \in Seq(Tokens) /\ Len(t) = h - 1 /\ \A i \in 1 .. h - 1 : t[i] = s[i]
      BY <2>2, FrontPart
    <2>4. Clear(t, 1, Len(t), {"/"})
      <3>1. PICK c \in ComponentReadings(t) : TRUE
        BY <2>1, <2>2
      <3>2. PICK k \in 1..Len(t), v \in 1..Len(t) : ReadsAt(t, k, v)
        BY <2>3, <3>1, ReadingsOfComponents
      <3> QED BY <1>1, <2>3, <3>2
    <2>5. Clear(s, h + 1, Len(s), {"/"})
      BY <2>1, NoSlashInNumber, ClearAfter, Rest
    <2>6. ASSUME NEW i \in 1..Len(s) PROVE s[i] # "/"
      <3>1. i \in 1 .. h - 1 \/ i = h \/ i \in h + 1 .. Len(s)
        BY LenProperties
      <3>2. s[h] # "/"
        BY <2>1 DEF POD_ID_SEPARATOR
      <3> QED BY <2>3, <2>4, <2>5, <3>1, <3>2 DEF Clear
    <2> QED BY <2>6 DEF Clear
  <1> QED BY <1>2, <1>3

(* A text is at most one of a component, a pod and an image id. *)
LEMMA OneKind ==
  ASSUME NEW s \in Seq(Tokens)
  PROVE  Cardinality({component(parse(s)), pod(parse(s)), component_from_image_spec(s)}
                       \ {None}) <= 1
  <1>1. PICK c, p, g : /\ c = component(parse(s)) /\ p = pod(parse(s))
                       /\ g = component_from_image_spec(s)
    OBVIOUS
  <1>2. c = None \/ p = None
    BY <1>1 DEF component, pod
  <1>3. ASSUME g # None PROVE c = None /\ p = None
    <2>1. PICK k \in 1..Len(s), d \in 1..Len(s), v \in 1..Len(s) : ImageAt(s, k, d, v)
      BY <1>1, <1>3, FoundIsImage
    <2>2. ~ Clear(s, 1, Len(s), {"/"})
      BY <2>1 DEF ImageAt, Clear
    <2> QED BY <1>1, <2>2, NoSlashInName
  <1>4. PICK x : {c, p, g} \ {None} = {} \/ {c, p, g} \ {None} = {x}
    <2>1. CASE g # None
      BY <1>3, <2>1
    <2>2. CASE g = None /\ p # None
      BY <1>2, <2>2
    <2>3. CASE g = None /\ p = None
      BY <2>3
    <2> QED BY <2>1, <2>2, <2>3
  <1>5. Cardinality({}) = 0 /\ Cardinality({x}) = 1
    BY FS_EmptySet, FS_Singleton
  <1>6. Cardinality({c, p, g} \ {None}) \in {0, 1}
    BY <1>4, <1>5, Zenon
  <1>7. \A n \in {0, 1} : n <= 1
    OBVIOUS
  <1> QED BY <1>1, <1>6, <1>7, Zenon

(* A text is accepted exactly when the grammar has a reading for it, and   *)
(* as that reading, whatever its length: Name::parse and                   *)
(* component_from_image_spec look for the right separators.                *)
THEOREM Grammar == Spec => []ParsesTheGrammar
  <1>1. ASSUME TextInv PROVE ParsesTheGrammar
    <2>1. text \in Seq(Tokens)
      BY <1>1 DEF TextInv
    <2> QED BY <2>1, ComponentGrammar, PodGrammar, ImageGrammar, OneKind DEF ParsesTheGrammar
  <1> QED BY <1>1, TextStep, PTL DEF Spec

(* A text is put together from what is around two of its separators. *)
LEMMA Assembled ==
  ASSUME NEW s \in Seq(Tokens), NEW k \in 1..Len(s), NEW v \in k + 1 .. Len(s)
  PROVE  Before(s, k) \o <<s[k]>> \o SubSeq(s, k + 1, v - 1) \o <<s[v]>> \o After(s, v) = s
  <1> DEFINE n == Len(s)
  <1>1. n \in Nat
    BY LenProperties
  <1>2. SubSeq(s, 1, k - 1) \o <<s[k]>> = SubSeq(s, 1, k)
    <2>1. 1 \in 1..n /\ k \in 1..n
      BY <1>1
    <2> QED BY <2>1, SubSeqRecursiveSecond
  <1>3. SubSeq(s, 1, k) \o SubSeq(s, k + 1, v - 1) = SubSeq(s, 1, v - 1)
    <2>1. 1 \in 1 .. n + 1 /\ k \in 1 - 1 .. n /\ v - 1 \in k..n
      BY <1>1
    <2> QED BY <2>1, ConcatAdjacentSubSeq
  <1>4. SubSeq(s, 1, v - 1) \o <<s[v]>> = SubSeq(s, 1, v)
    <2>1. 1 \in 1..n /\ v \in 1..n
      BY <1>1
    <2> QED BY <2>1, SubSeqRecursiveSecond
  <1>5. SubSeq(s, 1, v) \o SubSeq(s, v + 1, n) = SubSeq(s, 1, n)
    <2>1. 1 \in 1 .. n + 1 /\ v \in 1 - 1 .. n /\ n \in v..n
      BY <1>1
    <2> QED BY <2>1, ConcatAdjacentSubSeq
  <1>6. SubSeq(s, 1, n) = s
    BY SubSeqFull
  <1> QED BY <1>2, <1>3, <1>4, <1>5, <1>6, Zenon DEF Before, After

(* The name of a component is written as the text it was read from. *)
LEMMA ComponentWritten ==
  ASSUME NEW s \in Seq(Tokens), NEW c \in ComponentReadings(s)
  PROVE  fmt_component(c) = s
  <1>1. PICK k \in 1..Len(s), v \in 1..Len(s) : ReadsAt(s, k, v) /\ c = Reading(s, k, v)
    BY ReadingsOfComponents
  <1>2. c.domain = Before(s, k) /\ c.server = SubSeq(s, k + 1, v - 1) /\ c.version = After(s, v)
    <2>1. \A x, y, z : c = [domain |-> x, server |-> y, version |-> z] =>
            c.domain = x /\ c.server = y /\ c.version = z
      OBVIOUS
    <2> QED BY <1>1, <2>1, Zenon DEF Reading
  <1>3. v \in k + 1 .. Len(s) /\ s[k] = DOMAIN_SEPARATOR /\ s[v] = VERSION_SEPARATOR
    BY <1>1, ReadingIsMarked DEF Marked
  <1>4. Before(s, k) \o <<s[k]>> \o SubSeq(s, k + 1, v - 1) \o <<s[v]>> \o After(s, v) = s
    BY <1>3, Assembled
  <1> QED BY <1>2, <1>3, <1>4, Zenon DEF fmt_component

(* The text that a component name was read from is the only one that it is *)
(* ever read from: writing the name gives it back, so that the files and   *)
(* the addresses kept under the text of a name are found again.            *)
THEOREM ComponentTexts == Spec => []ComponentsLeadBack
  <1>1. ASSUME TextInv PROVE ComponentsLeadBack
    <2>1. text \in Seq(Tokens)
      BY <1>1 DEF TextInv
    <2>2. SUFFICES ASSUME component(parse(text)) # None
                   PROVE  fmt_component(component(parse(text))) = text
      BY DEF ComponentsLeadBack
    <2>3. component(parse(text)) \in ComponentReadings(text)
      BY <2>1, <2>2, ComponentGrammar
    <2> QED BY <2>1, <2>3, ComponentWritten
  <1> QED BY <1>1, TextStep, PTL DEF Spec

(***************************************************************************)
(* The numbers of pods.                                                    *)
(***************************************************************************)

(* What holds of 0 and goes on from each number to the next up to n. *)
LEMMA UpTo ==
  ASSUME NEW n \in Nat, NEW S, 0 \in S, \A k \in 1..n : k - 1 \in S => k \in S
  PROVE  \A k \in 0..n : k \in S
  <1> DEFINE left == {k \in 0..n : k \notin S}
  <1>1. SUFFICES ASSUME left # {} PROVE FALSE
    OBVIOUS
  <1>2. PICK k \in left : \A y \in left : k <= y
    <2>1. left \subseteq Nat
      OBVIOUS
    <2> QED BY <1>1, <2>1, Least
  <1>3. k \in 1..n /\ k \notin S /\ k - 1 \in 0..n /\ ~ (k <= k - 1)
    BY <1>2
  <1>4. k - 1 \in S
    BY <1>2, <1>3
  <1> QED BY <1>3, <1>4

(* A recursive function of the numbers up to n is one. *)
LEMMA Recursion ==
  ASSUME NEW n \in Nat, NEW a \in Nat, NEW step \in [1..n -> [Nat -> Nat]]
  PROVE  \E h \in [0..n -> Nat] : h[0] = a /\ \A k \in 1..n : h[k] = step[k][h[k - 1]]
  <1> DEFINE Upto(m, h) == /\ h \in [0..m -> Nat] /\ h[0] = a
                           /\ \A k \in 1..m : h[k] = step[k][h[k - 1]]
             S == {m \in 0..n : \E h : Upto(m, h)}
  <1> HIDE DEF Upto
  <1>1. 0 \in S
    <2>1. Upto(0, [k \in 0..0 |-> a])
      BY DEF Upto
    <2>2. 0 \in 0..n
      OBVIOUS
    <2> QED BY <2>1, <2>2, Zenon
  <1>2. ASSUME NEW m \in 1..n, m - 1 \in S PROVE m \in S
    <2>1. PICK h : Upto(m - 1, h)
      BY <1>2, Zenon
    <2>2. /\ h \in [0 .. m - 1 -> Nat] /\ h[0] = a
          /\ \A k \in 1 .. m - 1 : h[k] = step[k][h[k - 1]]
      BY <2>1 DEF Upto
    <2> DEFINE g == [k \in 0..m |-> IF k = m THEN step[m][h[m - 1]] ELSE h[k]]
    <2>3. step[m] \in [Nat -> Nat] /\ h[m - 1] \in Nat
      BY <2>2
    <2>4. step[m][h[m - 1]] \in Nat
      BY <2>3
    <2>5. \A k \in 0..m : k # m => k \in 0 .. m - 1
      OBVIOUS
    <2>6. \A k \in 0..m : (IF k = m THEN step[m][h[m - 1]] ELSE h[k]) \in Nat
      BY <2>2, <2>4, <2>5
    <2>7. g \in [0..m -> Nat]
      BY <2>6, Zenon
    <2>8. g[0] = a
      BY <2>2
    <2>9. ASSUME NEW k \in 1..m PROVE g[k] = step[k][g[k - 1]]
      <3>1. g[k - 1] = h[k - 1]
        OBVIOUS
      <3>2. CASE k = m
        BY <3>1, <3>2
      <3>3. CASE k # m
        <4>1. k \in 1 .. m - 1 /\ g[k] = h[k]
          BY <3>3
        <4> QED BY <2>2, <3>1, <4>1
      <3> QED BY <3>2, <3>3
    <2> HIDE DEF g
    <2>10. Upto(m, g)
      BY <2>7, <2>9, <2>8, Zenon DEF Upto
    <2>11. m \in 0..n
      OBVIOUS
    <2> QED BY <2>10, <2>11, Zenon
  <1> HIDE DEF S
  <1>3. n \in S
    <2>1. \A k \in 0..n : k \in S
      BY <1>1, <1>2, UpTo
    <2> QED BY <2>1
  <1> QED BY <1>3 DEF S, Upto

(* from_str_radix takes in one digit after the other. *)
LEMMA ValuesFacts ==
  ASSUME NEW d, Len(d) \in Nat, \A k \in 1..Len(d) : Digit[d[k]] \in 0..15
  PROVE  /\ Values(d) \in [0..Len(d) -> Nat] /\ Values(d)[0] = 0
         /\ \A k \in 1..Len(d) : Values(d)[k] = 16 * Values(d)[k - 1] + Digit[d[k]]
  <1> DEFINE n == Len(d)
             step == [k \in 1..n |-> [x \in Nat |-> 16 * x + Digit[d[k]]]]
  <1>1. \A k \in 1..n : \A x \in Nat : 16 * x + Digit[d[k]] \in Nat
    <2>1. \A y \in 0..15 : \A x \in Nat : 16 * x + y \in Nat
      OBVIOUS
    <2> QED BY <2>1, Zenon
  <1>2. /\ step \in [1..n -> [Nat -> Nat]]
        /\ \A k \in 1..n : \A x \in Nat : step[k][x] = 16 * x + Digit[d[k]]
    <2>1. \A k \in 1..n : [x \in Nat |-> 16 * x + Digit[d[k]]] \in [Nat -> Nat]
      BY <1>1
    <2>2. step \in [1..n -> [Nat -> Nat]]
      BY <2>1, Zenon
    <2> QED BY <2>2
  <1> HIDE DEF step
  <1>3. PICK h \in [0..n -> Nat] : h[0] = 0 /\ \A k \in 1..n : h[k] = step[k][h[k - 1]]
    BY <1>2, Recursion
  <1>4. \A k \in 1..n : h[k] = 16 * h[k - 1] + Digit[d[k]]
    <2>1. \A k \in 1..n : h[k - 1] \in Nat
      OBVIOUS
    <2> QED BY <1>2, <1>3, <2>1
  <1>5. h = [k \in 0..n |-> IF k = 0 THEN 0 ELSE 16 * h[k - 1] + Digit[d[k]]]
    <2>1. \A k \in 0..n : h[k] = IF k = 0 THEN 0 ELSE 16 * h[k - 1] + Digit[d[k]]
      BY <1>3, <1>4
    <2> QED BY <2>1
  <1>6. Values(d) = [k \in 0..n |-> IF k = 0 THEN 0 ELSE 16 * Values(d)[k - 1] + Digit[d[k]]]
    BY <1>5, Zenon DEF Values
  <1>7. PICK f : f = Values(d)
    OBVIOUS
  <1>8. /\ DOMAIN f = 0..n /\ f[0] = 0 /\ f = [k \in 0..n |-> f[k]]
        /\ \A k \in 1..n : f[k] = 16 * f[k - 1] + Digit[d[k]]
    <2>1. f = [k \in 0..n |-> IF k = 0 THEN 0 ELSE 16 * f[k - 1] + Digit[d[k]]]
      BY <1>6, <1>7, Zenon
    <2> QED BY <2>1
  <1>9. \A k \in 0..n : f[k] \in Nat
    <2> DEFINE S == {k \in 0..n : f[k] \in Nat}
    <2>1. 0 \in S
      BY <1>1, <1>8
    <2>2. ASSUME NEW k \in 1..n, k - 1 \in S PROVE k \in S
      <3>1. PICK x \in Nat : x = f[k - 1]
        BY <2>2
      <3>2. f[k] = 16 * x + Digit[d[k]]
        BY <1>8, <3>1
      <3> QED BY <1>1, <3>1, <3>2
    <2> HIDE DEF S
    <2>3. \A k \in 0..n : k \in S
      BY <2>1, <2>2, UpTo
    <2> QED BY <2>3 DEF S
  <1> QED BY <1>7, <1>8, <1>9

(* There are 16 times as many PodIds with every digit. *)
LEMMA PowersFacts ==
  /\ Powers \in [0..PodIdDigits -> Nat] /\ Powers[0] = 1
  /\ \A k \in 1..PodIdDigits : Powers[k] = 16 * Powers[k - 1]
  <1> DEFINE n == PodIdDigits
             step == [k \in 1..n |-> [x \in Nat |-> 16 * x]]
  <1>1. n \in Nat
    BY DigitAssumption
  <1>2. /\ step \in [1..n -> [Nat -> Nat]]
        /\ \A k \in 1..n : \A x \in Nat : step[k][x] = 16 * x
    <2>1. \A k \in 1..n : [x \in Nat |-> 16 * x] \in [Nat -> Nat]
      OBVIOUS
    <2>2. step \in [1..n -> [Nat -> Nat]]
      BY <2>1, Zenon
    <2> QED BY <2>2
  <1> HIDE DEF step, n
  <1>3. PICK h \in [0..n -> Nat] : h[0] = 1 /\ \A k \in 1..n : h[k] = step[k][h[k - 1]]
    <2>1. 1 \in Nat
      OBVIOUS
    <2> QED BY <1>1, <1>2, <2>1, Recursion
  <1>4. \A k \in 1..n : h[k] = 16 * h[k - 1]
    <2>1. \A k \in 1..n : h[k - 1] \in Nat
      BY <1>1
    <2> QED BY <1>2, <1>3, <2>1
  <1>5. h = [k \in 0..n |-> IF k = 0 THEN 1 ELSE 16 * h[k - 1]]
    <2>1. \A k \in 0..n : h[k] = IF k = 0 THEN 1 ELSE 16 * h[k - 1]
      BY <1>1, <1>3, <1>4
    <2> QED BY <2>1
  <1>6. Powers = [k \in 0..n |-> IF k = 0 THEN 1 ELSE 16 * Powers[k - 1]]
    BY <1>5, Zenon DEF Powers, n
  <1>7. PICK f : f = Powers
    OBVIOUS
  <1>8. /\ DOMAIN f = 0..n /\ f[0] = 1 /\ f = [k \in 0..n |-> f[k]]
        /\ \A k \in 1..n : f[k] = 16 * f[k - 1]
    <2>1. f = [k \in 0..n |-> IF k = 0 THEN 1 ELSE 16 * f[k - 1]]
      BY <1>6, <1>7, Zenon
    <2>2. 0 \in 0..n /\ \A k \in 1..n : k \in 0..n /\ k # 0
      BY <1>1
    <2> QED BY <2>1, <2>2, Zenon
  <1>9. \A k \in 0..n : f[k] \in Nat
    <2> DEFINE S == {k \in 0..n : f[k] \in Nat}
    <2>1. 0 \in S
      BY <1>1, <1>8
    <2>2. ASSUME NEW k \in 1..n, k - 1 \in S PROVE k \in S
      <3>1. PICK x \in Nat : x = f[k - 1]
        BY <2>2
      <3>2. f[k] = 16 * x
        BY <1>8, <3>1
      <3> QED BY <1>1, <3>1, <3>2
    <2> HIDE DEF S
    <2>3. \A k \in 0..n : k \in S
      BY <1>1, <2>1, <2>2, UpTo
    <2> QED BY <2>3 DEF S
  <1> QED BY <1>7, <1>8, <1>9 DEF n

(* A number is divided by 16 again and again. *)
LEMMA RestsFacts ==
  ASSUME NEW a \in Nat
  PROVE  /\ Rests(a) \in [0..PodIdDigits -> Nat] /\ Rests(a)[0] = a
         /\ \A k \in 1..PodIdDigits : Rests(a)[k] = Rests(a)[k - 1] \div 16
  <1> DEFINE n == PodIdDigits
             step == [k \in 1..n |-> [x \in Nat |-> x \div 16]]
  <1>1. n \in Nat
    BY DigitAssumption
  <1>2. /\ step \in [1..n -> [Nat -> Nat]]
        /\ \A k \in 1..n : \A x \in Nat : step[k][x] = x \div 16
    <2>1. \A k \in 1..n : [x \in Nat |-> x \div 16] \in [Nat -> Nat]
      OBVIOUS
    <2>2. step \in [1..n -> [Nat -> Nat]]
      BY <2>1, Zenon
    <2> QED BY <2>2
  <1> HIDE DEF step, n
  <1>3. PICK h \in [0..n -> Nat] : h[0] = a /\ \A k \in 1..n : h[k] = step[k][h[k - 1]]
    BY <1>1, <1>2, Recursion
  <1>4. \A k \in 1..n : h[k] = h[k - 1] \div 16
    <2>1. \A k \in 1..n : h[k - 1] \in Nat
      BY <1>1
    <2> QED BY <1>2, <1>3, <2>1
  <1>5. h = [k \in 0..n |-> IF k = 0 THEN a ELSE h[k - 1] \div 16]
    <2>1. \A k \in 0..n : h[k] = IF k = 0 THEN a ELSE h[k - 1] \div 16
      BY <1>1, <1>3, <1>4
    <2> QED BY <2>1
  <1>6. Rests(a) = [k \in 0..n |-> IF k = 0 THEN a ELSE Rests(a)[k - 1] \div 16]
    BY <1>5, Zenon DEF Rests, n
  <1>7. PICK f : f = Rests(a)
    OBVIOUS
  <1>8. /\ DOMAIN f = 0..n /\ f[0] = a /\ f = [k \in 0..n |-> f[k]]
        /\ \A k \in 1..n : f[k] = f[k - 1] \div 16
    <2>1. f = [k \in 0..n |-> IF k = 0 THEN a ELSE f[k - 1] \div 16]
      BY <1>6, <1>7, Zenon
    <2>2. 0 \in 0..n /\ \A k \in 1..n : k \in 0..n /\ k # 0
      BY <1>1
    <2> QED BY <2>1, <2>2, Zenon
  <1>9. \A k \in 0..n : f[k] \in Nat
    <2> DEFINE S == {k \in 0..n : f[k] \in Nat}
    <2>1. 0 \in S
      BY <1>1, <1>8
    <2>2. ASSUME NEW k \in 1..n, k - 1 \in S PROVE k \in S
      <3>1. PICK x \in Nat : x = f[k - 1]
        BY <2>2
      <3>2. f[k] = x \div 16
        BY <1>8, <3>1
      <3> QED BY <1>1, <3>1, <3>2
    <2> HIDE DEF S
    <2>3. \A k \in 0..n : k \in S
      BY <1>1, <2>1, <2>2, UpTo
    <2> QED BY <2>3 DEF S
  <1> QED BY <1>7, <1>8, <1>9 DEF n

(* A digit after a number. *)
LEMMA LastDigit ==
  ASSUME NEW x \in Nat, NEW y \in 0..15
  PROVE  (16 * x + y) \div 16 = x /\ (16 * x + y) % 16 = y
  OBVIOUS

(* Of a number in the width of a PodId nothing is left in the end. *)
LEMMA NothingLeft ==
  ASSUME NEW a \in 0 .. PodIds - 1
  PROVE  Rests(a)[PodIdDigits] = 0
  <1> DEFINE n == PodIdDigits
             S == {k \in 0..n : Rests(a)[k] < Powers[n - k]}
  <1>1. n \in Nat /\ a \in Nat
    BY DigitAssumption, PowersFacts DEF PodIds
  <1>2. Powers \in [0..n -> Nat] /\ Powers[0] = 1 /\ \A k \in 1..n : Powers[k] = 16 * Powers[k - 1]
    BY PowersFacts
  <1>3. PICK f : f = Rests(a)
    OBVIOUS
  <1>4. f \in [0..n -> Nat] /\ f[0] = a /\ \A k \in 1..n : f[k] = f[k - 1] \div 16
    BY <1>1, <1>3, RestsFacts
  <1>5. 0 \in S
    <2>1. n - 0 = n /\ n \in 0..n /\ 0 \in 0..n
      BY <1>1
    <2> QED BY <1>1, <1>2, <1>3, <1>4, <2>1 DEF PodIds
  <1>6. ASSUME NEW k \in 1..n, k - 1 \in S PROVE k \in S
    <2>1. /\ n - (k - 1) \in 1..n /\ (n - (k - 1)) - 1 = n - k
          /\ n - k \in 0..n /\ k - 1 \in 0..n /\ k \in 0..n
      BY <1>1
    <2>2. PICK x \in Nat, y \in Nat : x = f[k - 1] /\ y = Powers[n - k]
      BY <1>2, <1>4, <2>1
    <2>3. Powers[n - (k - 1)] = 16 * y /\ f[k] = x \div 16
      BY <1>2, <1>4, <2>1, <2>2
    <2>4. x < 16 * y
      BY <1>3, <1>6, <2>2, <2>3
    <2>5. x \div 16 < y
      BY <2>4
    <2> QED BY <1>3, <2>1, <2>2, <2>3, <2>5
  <1> HIDE DEF S
  <1>7. n \in S
    <2>1. \A k \in 0..n : k \in S
      BY <1>1, <1>5, <1>6, UpTo
    <2> QED BY <1>1, <2>1
  <1>8. f[n] < Powers[n - n] /\ n - n = 0 /\ f[n] \in Nat
    BY <1>1, <1>3, <1>4, <1>7 DEF S
  <1> QED BY <1>2, <1>3, <1>8

(* Dividing a number takes away its digits from the end. *)
LEMMA RestsAreValues ==
  ASSUME NEW d \in Seq(DOMAIN Digit), NEW q \in 0..Len(d), q <= PodIdDigits
  PROVE  \A j \in 0..q : Rests(Values(d)[Len(d)])[j] = Values(d)[Len(d) - j]
  <1> DEFINE m == Len(d)
             S == {j \in 0..q : Rests(Values(d)[m])[j] = Values(d)[m - j]}
  <1>1. /\ m \in Nat /\ q \in Nat /\ PodIdDigits \in Nat /\ q <= m
        /\ \A k \in 1..m : Digit[d[k]] \in 0..15
    BY LenProperties, ElementOfSeq, DigitAssumption
  <1>2. PICK f : f = Values(d)
    OBVIOUS
  <1>3. /\ f \in [0..m -> Nat] /\ f[0] = 0
        /\ \A k \in 1..m : f[k] = 16 * f[k - 1] + Digit[d[k]]
    BY <1>1, <1>2, ValuesFacts
  <1>4. PICK g : g = Rests(f[m])
    OBVIOUS
  <1>5. /\ g[0] = f[m] /\ \A k \in 1..PodIdDigits : g[k] = g[k - 1] \div 16
    <2>1. f[m] \in Nat
      BY <1>1, <1>3
    <2> QED BY <1>4, <2>1, RestsFacts
  <1>6. 0 \in S
    <2>1. m - 0 = m /\ 0 \in 0..q
      BY <1>1
    <2> QED BY <1>2, <1>4, <1>5, <2>1
  <1>7. ASSUME NEW j \in 1..q, j - 1 \in S PROVE j \in S
    <2>1. /\ m - (j - 1) \in 1..m /\ (m - (j - 1)) - 1 = m - j /\ m - j \in 0..m
          /\ j \in 1..PodIdDigits /\ j \in 0..q
      BY <1>1
    <2>2. g[j - 1] = f[m - (j - 1)]
      BY <1>2, <1>4, <1>7
    <2>3. PICK x \in Nat, y \in 0..15 : x = f[m - j] /\ y = Digit[d[m - (j - 1)]]
      BY <1>1, <1>3, <2>1
    <2>4. g[j] = (16 * x + y) \div 16
      BY <1>3, <1>5, <2>1, <2>2, <2>3
    <2>5. g[j] = f[m - j]
      BY <2>3, <2>4, LastDigit
    <2> QED BY <1>2, <1>4, <2>1, <2>5
  <1> HIDE DEF S
  <1>8. \A j \in 0..q : j \in S
    BY <1>1, <1>6, <1>7, UpTo
  <1> QED BY <1>8 DEF S

(* A number is written with the digits it was read from, each in its       *)
(* canonical form, from the first that is not zero or the last on.         *)
LEMMA Written ==
  ASSUME NEW d \in Seq(DOMAIN Digit), d # <<>>, Values(d)[Len(d)] \in 0 .. PodIds - 1
  PROVE  \E w \in 1..Len(d) :
           LET out == lower_hex(Values(d)[Len(d)])
           IN  /\ out \in Seq(Canonical) /\ Len(out) = w
               /\ \A k \in 1..w : Digit[out[k]] = Digit[d[Len(d) - w + k]]
               /\ Values(d)[Len(d) - w] = 0
               /\ w > 1 => Digit[d[Len(d) - w + 1]] # 0
  <1> DEFINE m == Len(d)
             n == PodIdDigits
  <1>1. /\ m \in Nat /\ m >= 1 /\ n \in Nat /\ n >= 1
        /\ \A k \in 1..m : d[k] \in DOMAIN Digit /\ Digit[d[k]] \in 0..15
    BY LenProperties, ElementOfSeq, EmptySeq, DigitAssumption
  <1>2. PICK f : f = Values(d)
    OBVIOUS
  <1>3. /\ f \in [0..m -> Nat] /\ f[0] = 0
        /\ \A k \in 1..m : f[k] = 16 * f[k - 1] + Digit[d[k]]
    BY <1>1, <1>2, ValuesFacts
  <1> DEFINE g == Rests(f[m])
             W == {k \in 1..n : g[k] = 0}
             w == Min(W)
             out == [k \in 1..w |-> CHOOSE t \in Canonical : Digit[t] = g[w - k] % 16]
  <1>4. lower_hex(f[m]) = out
    BY DEF lower_hex
  <1>5. PICK q \in 0..m : q <= n /\ (q = m \/ q = n)
    <2>1. (m \in 0..m /\ m <= n) \/ (n \in 0..m /\ n <= n)
      BY <1>1
    <2> QED BY <2>1
  <1>6. \A j \in 0..q : g[j] = f[m - j]
    BY <1>2, <1>5, RestsAreValues
  <1>7. g[n] = 0
    BY <1>2, NothingLeft
  <1> HIDE DEF g
  <1>8. w \in W /\ \A y \in W : w <= y
    <2>1. W \subseteq Nat /\ n \in W
      BY <1>1, <1>7
    <2> QED BY <2>1, Least
  <1> HIDE DEF w
  <1>9. w \in 1..n /\ w \in 1..q /\ w \in 1..m /\ g[w] = 0
    <2>1. w \in 1..n /\ g[w] = 0
      BY <1>8
    <2>2. CASE q = n
      BY <1>1, <1>5, <2>1, <2>2
    <2>3. CASE q = m
      <3>1. m \in 0..q /\ m - m = 0 /\ m \in 1..n
        BY <1>1, <1>5, <2>3
      <3>2. g[m] = 0
        BY <1>3, <1>6, <3>1
      <3>3. w <= m
        BY <1>8, <3>1, <3>2
      <3> QED BY <1>1, <2>1, <2>3, <3>3
    <2> QED BY <1>5, <2>2, <2>3
  <1>10. f[m - w] = 0
    <2>1. w \in 0..q
      BY <1>5, <1>9
    <2> QED BY <1>6, <1>9, <2>1
  <1>11. ASSUME NEW k \in 1..w PROVE g[w - k] % 16 = Digit[d[m - w + k]]
    <2>1. /\ w - k \in 0..q /\ m - (w - k) = m - w + k /\ m - w + k \in 1..m
          /\ (m - w + k) - 1 \in 0..m
      BY <1>1, <1>5, <1>9
    <2>2. PICK x \in Nat, y \in 0..15 : x = f[(m - w + k) - 1] /\ y = Digit[d[m - w + k]]
      BY <1>1, <1>3, <2>1
    <2>3. g[w - k] = 16 * x + y
      BY <1>3, <1>6, <2>1, <2>2
    <2>4. (16 * x + y) % 16 = y
      BY LastDigit
    <2> QED BY <2>2, <2>3, <2>4, Zenon
  <1>12. ASSUME NEW k \in 1..w PROVE out[k] \in Canonical /\ Digit[out[k]] = Digit[d[m - w + k]]
    <2>1. m - w + k \in 1..m
      BY <1>1, <1>9
    <2>2. \E t \in Canonical : Digit[t] = Digit[d[m - w + k]]
      BY <1>1, <2>1, DigitAssumption
    <2>3. out[k] = CHOOSE t \in Canonical : Digit[t] = Digit[d[m - w + k]]
      BY <1>11
    <2> QED BY <2>2, <2>3, Zenon
  <1>13. out \in Seq(Canonical) /\ Len(out) = w
    <2>1. w \in Nat
      BY <1>9
    <2>2. out \in [1..w -> Canonical]
      <3>1. \A k \in 1..w : (CHOOSE t \in Canonical : Digit[t] = g[w - k] % 16) \in Canonical
        BY <1>12
      <3> QED BY <3>1, Zenon
    <2> HIDE DEF out
    <2> QED BY <2>1, <2>2, FunctionIsSeq
  <1>14. ASSUME w > 1 PROVE Digit[d[m - w + 1]] # 0
    <2>1. /\ w - 1 \in 1..n /\ w - 1 \in 0..q /\ ~ (w <= w - 1) /\ m - (w - 1) = m - w + 1
          /\ m - w + 1 \in 1..m /\ (m - w + 1) - 1 = m - w
      BY <1>1, <1>5, <1>9, <1>14
    <2>2. g[w - 1] # 0
      BY <1>8, <2>1
    <2>3. f[m - w + 1] # 0
      BY <1>6, <2>1, <2>2
    <2>4. f[m - w + 1] = 16 * 0 + Digit[d[m - w + 1]]
      BY <1>3, <1>10, <2>1
    <2> QED BY <1>1, <2>1, <2>3, <2>4
  <1> HIDE DEF out
  <1> QED BY <1>2, <1>9, <1>10, <1>12, <1>4, <1>13, <1>14

(* What is written for a number is read as that number. *)
LEMMA ReadBack ==
  ASSUME NEW d \in Seq(DOMAIN Digit), d # <<>>, Values(d)[Len(d)] \in 0 .. PodIds - 1
  PROVE  from_str_radix(lower_hex(Values(d)[Len(d)])) = Values(d)[Len(d)]
  <1> DEFINE m == Len(d)
  <1>1. PICK a, out : a = Values(d)[m] /\ out = lower_hex(a)
    OBVIOUS
  <1>2. PICK w \in 1..m :
          /\ out \in Seq(Canonical) /\ Len(out) = w
          /\ \A k \in 1..w : Digit[out[k]] = Digit[d[m - w + k]]
          /\ Values(d)[m - w] = 0
    BY <1>1, Written
  <1>3. m \in Nat /\ w \in Nat /\ \A k \in 1..m : Digit[d[k]] \in 0..15
    BY LenProperties, ElementOfSeq, DigitAssumption
  <1>4. PICK f : f = Values(d)
    OBVIOUS
  <1>5. f \in [0..m -> Nat] /\ \A k \in 1..m : f[k] = 16 * f[k - 1] + Digit[d[k]]
    BY <1>3, <1>4, ValuesFacts
  <1>6. \A k \in 1..w : out[k] \in Canonical /\ Digit[out[k]] \in 0..15
    BY <1>2, ElementOfSeq, SeparatorAssumption, DigitAssumption
  <1>7. PICK g : g = Values(out)
    OBVIOUS
  <1>8. g[0] = 0 /\ \A k \in 1..w : g[k] = 16 * g[k - 1] + Digit[out[k]]
    <2>1. Len(out) \in Nat /\ \A k \in 1..Len(out) : Digit[out[k]] \in 0..15
      BY <1>2, <1>3, <1>6
    <2>2. /\ Values(out)[0] = 0
          /\ \A k \in 1..Len(out) : Values(out)[k] = 16 * Values(out)[k - 1] + Digit[out[k]]
      BY <2>1, ValuesFacts
    <2> QED BY <1>2, <1>7, <2>2, Zenon
  <1> DEFINE S == {k \in 0..w : g[k] = f[m - w + k]}
  <1>9. 0 \in S
    <2>1. m - w + 0 = m - w /\ 0 \in 0..w
      BY <1>3
    <2> QED BY <1>2, <1>4, <1>8, <2>1
  <1>10. ASSUME NEW k \in 1..w, k - 1 \in S PROVE k \in S
    <2>1. /\ m - w + (k - 1) = (m - w + k) - 1 /\ m - w + k \in 1..m /\ k \in 0..w
      BY <1>2, <1>3
    <2>2. g[k - 1] = f[(m - w + k) - 1]
      BY <1>10, <2>1
    <2>3. f[m - w + k] = 16 * f[(m - w + k) - 1] + Digit[d[m - w + k]]
      BY <1>5, <2>1
    <2>4. g[k] = 16 * g[k - 1] + Digit[out[k]] /\ Digit[out[k]] = Digit[d[m - w + k]]
      BY <1>2, <1>8
    <2>5. g[k] = f[m - w + k]
      BY <2>2, <2>3, <2>4, Zenon
    <2> QED BY <2>1, <2>5
  <1> HIDE DEF S
  <1>11. w \in S
    <2>1. \A k \in 0..w : k \in S
      BY <1>3, <1>9, <1>10, UpTo
    <2> QED BY <1>3, <2>1
  <1>12. g[w] = a
    <2>1. m - w + w = m
      BY <1>3
    <2> QED BY <1>1, <1>4, <1>11, <2>1 DEF S
  <1>13. ~ (out # <<>> /\ out[1] = "+") /\ out # <<>>
    <2>1. out[1] \in Canonical /\ Len(out) # 0
      BY <1>2, <1>3, <1>6
    <2>2. Len(<<>>) = 0
      BY EmptySeq
    <2> QED BY <2>1, <2>2, SeparatorAssumption, DigitAssumption
  <1>14. Range(out) \subseteq DOMAIN Digit
    <2>1. DOMAIN out = 1..w
      BY <1>2, LenProperties
    <2> QED BY <1>6, <2>1, SeparatorAssumption DEF Range
  <1>15. Values(out)[Len(out)] = a /\ a \in 0 .. PodIds - 1
    BY <1>1, <1>2, <1>7, <1>12
  <1>16. from_str_radix(out) = a
    BY <1>13, <1>14, <1>15, Zenon DEF from_str_radix
  <1> QED BY <1>1, <1>16

(* What is written for a number is what it was read from exactly when that *)
(* has canonical digits and no zero before them.                           *)
LEMMA WrittenCanonically ==
  ASSUME NEW d \in Seq(DOMAIN Digit), d # <<>>, Values(d)[Len(d)] \in 0 .. PodIds - 1
  PROVE  lower_hex(Values(d)[Len(d)]) = d <=>
           Range(d) \subseteq Canonical /\ (Len(d) > 1 => Digit[d[1]] # 0)
  <1> DEFINE m == Len(d)
  <1>1. PICK out : out = lower_hex(Values(d)[m])
    OBVIOUS
  <1>2. PICK w \in 1..m :
          /\ out \in Seq(Canonical) /\ Len(out) = w
          /\ \A k \in 1..w : Digit[out[k]] = Digit[d[m - w + k]]
          /\ Values(d)[m - w] = 0
          /\ w > 1 => Digit[d[m - w + 1]] # 0
    BY <1>1, Written
  <1>3. /\ m \in Nat /\ w \in Nat /\ DOMAIN d = 1..m /\ DOMAIN out = 1..w
        /\ \A k \in 1..w : out[k] \in Canonical
        /\ \A k \in 1..m : Digit[d[k]] \in 0..15
    BY <1>2, LenProperties, ElementOfSeq, DigitAssumption
  <1>4. ASSUME out = d PROVE Range(d) \subseteq Canonical /\ (m > 1 => Digit[d[1]] # 0)
    <2>1. w = m /\ m - w + 1 = 1
      BY <1>2, <1>3, <1>4
    <2>2. Range(d) \subseteq Canonical
      BY <1>3, <1>4 DEF Range
    <2> QED BY <1>2, <2>1, <2>2
  <1>5. ASSUME Range(d) \subseteq Canonical, m > 1 => Digit[d[1]] # 0 PROVE out = d
    <2>1. PICK f : f = Values(d)
      OBVIOUS
    <2>2. /\ f \in [0..m -> Nat] /\ f[0] = 0
          /\ \A k \in 1..m : f[k] = 16 * f[k - 1] + Digit[d[k]]
      BY <1>3, <2>1, ValuesFacts
    <2>3. w = m
      <3>1. SUFFICES ASSUME w # m PROVE FALSE
        OBVIOUS
      <3>2. m > 1 /\ m - w \in 0..m /\ 1 \in 1..m /\ m - w # 0 /\ Digit[d[1]] # 0
        <4>1. \A i, j \in Nat : i \in 1..j /\ i # j =>
                j > 1 /\ j - i \in 0..j /\ 1 \in 1..j /\ j - i # 0
          OBVIOUS
        <4> QED BY <1>3, <1>5, <3>1, <4>1, Zenon
      <3>3. f[1] # 0
        <4>1. PICK y \in 0..15 : y = Digit[d[1]]
          BY <1>3, <3>2
        <4>2. 1 - 1 = 0 /\ 16 * 0 + y = y
          BY <4>1
        <4>3. f[1] = 16 * f[1 - 1] + y
          BY <2>2, <3>2, <4>1
        <4> QED BY <2>2, <3>2, <4>1, <4>2, <4>3
      <3> DEFINE S == {k \in 0..m : k = 0 \/ f[k] # 0}
      <3>4. 0 \in S
        BY <1>3
      <3>5. ASSUME NEW k \in 1..m, k - 1 \in S PROVE k \in S
        <4>1. CASE k = 1
          BY <1>3, <3>3, <4>1
        <4>2. CASE k # 1
          <5>1. PICK x \in Nat, y \in 0..15 : x = f[k - 1] /\ y = Digit[d[k]] /\ x # 0
            <6>1. k - 1 # 0 /\ k - 1 \in 0..m
              BY <1>3, <4>2
            <6>2. f[k - 1] \in Nat /\ f[k - 1] # 0 /\ Digit[d[k]] \in 0..15
              BY <1>3, <2>2, <3>5, <6>1
            <6> QED BY <6>2
          <5>2. f[k] = 16 * x + y
            BY <2>2, <5>1
          <5>3. k \in 0..m /\ \A i \in Nat, j \in 0..15 : i # 0 => 16 * i + j # 0
            BY <1>3
          <5> QED BY <5>1, <5>2, <5>3, Zenon
        <4> QED BY <4>1, <4>2
      <3> HIDE DEF S
      <3>6. \A k \in 0..m : k \in S
        BY <1>3, <3>4, <3>5, UpTo
      <3> QED BY <1>2, <2>1, <3>2, <3>6 DEF S
    <2>4. ASSUME NEW k \in 1..m PROVE out[k] = d[k]
      <3>1. m - w + k = k
        BY <1>3, <2>3
      <3>2. out[k] \in Canonical /\ d[k] \in Canonical /\ Digit[out[k]] = Digit[d[k]]
        BY <1>2, <1>3, <1>5, <2>3, <3>1 DEF Range
      <3> QED BY <3>2, DigitAssumption
    <2> QED BY <1>2, <2>3, <2>4, SeqEqual
  <1> QED BY <1>1, <1>4, <1>5

(* A number that a text has is written as a text that has it, and as the   *)
(* same text exactly when that is the canonical one.                       *)
LEMMA NumberTexts ==
  ASSUME NEW s \in Seq(Tokens), from_str_radix(s) # None
  PROVE  LET out == lower_hex(from_str_radix(s))
         IN  /\ out \in Seq(Tokens) /\ from_str_radix(out) = from_str_radix(s)
             /\ out = s <=> Range(s) \subseteq Canonical /\ (Len(s) > 1 => Digit[s[1]] # 0)
  <1> DEFINE signed == s # <<>> /\ s[1] = "+"
  <1>1. PICK d : d = IF signed THEN Tail(s) ELSE s
    OBVIOUS
  <1>2. /\ d # <<>> /\ Range(d) \subseteq DOMAIN Digit
        /\ Values(d)[Len(d)] \in 0 .. PodIds - 1
        /\ from_str_radix(s) = Values(d)[Len(d)]
    BY <1>1, Zenon DEF from_str_radix
  <1>3. d \in Seq(Tokens)
    BY <1>1, HeadTailProperties
  <1>4. d \in Seq(DOMAIN Digit)
    <2>1. Len(d) \in Nat /\ DOMAIN d = 1..Len(d) /\ \A k \in 1..Len(d) : d[k] \in DOMAIN Digit
      BY <1>2, <1>3, LenProperties DEF Range
    <2>2. d \in [1..Len(d) -> DOMAIN Digit]
      <3>1. d = [k \in 1..Len(d) |-> d[k]]
        BY <1>3, <2>1
      <3> QED BY <2>1, <3>1
    <2> QED BY <2>1, <2>2, FunctionIsSeq
  <1>5. PICK out : out = lower_hex(from_str_radix(s))
    OBVIOUS
  <1>6. from_str_radix(out) = from_str_radix(s)
    BY <1>2, <1>4, <1>5, ReadBack
  <1>7. out \in Seq(Canonical) /\ Len(out) >= 1
    <2>1. PICK w \in 1..Len(d) : out \in Seq(Canonical) /\ Len(out) = w
      BY <1>2, <1>4, <1>5, Written
    <2> QED BY <2>1
  <1>8. out \in Seq(Tokens)
    BY <1>7, SeqMonotonic, DigitAssumption
  <1>9. CASE signed
    <2>1. Len(s) \in Nat /\ 1 \in DOMAIN s /\ "+" \notin Canonical
      BY <1>9, EmptySeq, LenProperties, SeparatorAssumption, DigitAssumption
    <2>2. ~ (Range(s) \subseteq Canonical)
      BY <1>9, <2>1 DEF Range
    <2>3. out[1] \in Canonical
      BY <1>7, ElementOfSeq, LenProperties
    <2>4. out # s
      BY <1>9, <2>1, <2>3
    <2> QED BY <1>5, <1>6, <1>8, <2>2, <2>4
  <1>10. CASE ~signed
    <2>1. d = s
      BY <1>1, <1>10
    <2> QED BY <1>2, <1>4, <1>5, <1>6, <1>8, <2>1, WrittenCanonically
  <1> QED BY <1>9, <1>10

(* A separator between two texts, and what is around it. *)
LEMMA Joined ==
  ASSUME NEW x \in Seq(Tokens), NEW y \in Seq(Tokens), NEW t \in Tokens
  PROVE  LET u == x \o <<t>> \o y
             h == Len(x) + 1
         IN  /\ u \in Seq(Tokens) /\ h \in 1..Len(u) /\ u[h] = t
             /\ Before(u, h) = x /\ After(u, h) = y
  <1> DEFINE h == Len(x) + 1
  <1>1. PICK z, u : z = x \o <<t>> /\ u = z \o y
    OBVIOUS
  <1>2. Len(x) \in Nat /\ Len(y) \in Nat /\ <<t>> \in Seq(Tokens) /\ Len(<<t>>) = 1 /\ <<t>>[1] = t
    BY LenProperties
  <1>3. /\ z \in Seq(Tokens) /\ Len(z) = h
        /\ \A i \in 1..h : z[i] = IF i <= Len(x) THEN x[i] ELSE <<t>>[i - Len(x)]
    BY <1>1, <1>2, ConcatProperties
  <1>4. /\ u \in Seq(Tokens) /\ Len(u) = h + Len(y)
        /\ \A i \in 1 .. h + Len(y) : u[i] = IF i <= h THEN z[i] ELSE y[i - h]
    BY <1>1, <1>3, ConcatProperties
  <1>5. h \in 1..Len(u) /\ u[h] = t
    BY <1>2, <1>3, <1>4
  <1>6. Before(u, h) = x
    <2>1. /\ Before(u, h) \in Seq(Tokens) /\ Len(Before(u, h)) = h - 1
          /\ \A i \in 1 .. h - 1 : Before(u, h)[i] = u[i]
      BY <1>4, <1>5, FrontPart
    <2>2. h - 1 = Len(x)
      BY <1>2
    <2>3. ASSUME NEW i \in 1..Len(x) PROVE u[i] = x[i]
      BY <1>2, <1>3, <1>4
    <2> QED BY <2>1, <2>2, <2>3, SeqEqual
  <1>7. After(u, h) = y
    <2>1. /\ After(u, h) \in Seq(Tokens) /\ Len(After(u, h)) = Len(u) - h
          /\ \A i \in 1 .. Len(u) - h : After(u, h)[i] = u[h + i]
      BY <1>4, <1>5, Rest
    <2>2. Len(u) - h = Len(y)
      BY <1>2, <1>4
    <2>3. ASSUME NEW i \in 1..Len(y) PROVE u[h + i] = y[i]
      <3>1. h + i \in 1 .. h + Len(y) /\ ~ (h + i <= h) /\ (h + i) - h = i
        BY <1>2
      <3> QED BY <1>4, <3>1
    <2> QED BY <2>1, <2>2, <2>3, SeqEqual
  <1> QED BY <1>1, <1>4, <1>5, <1>6, <1>7

(* The name that a text stands for is written as a text that stands for    *)
(* the same name, in texts of every length and numbers of every width: the *)
(* pod id that is given to the kubelet leads back to its pod.              *)
THEOREM PodTexts == Spec => []NamesLeadBack
  <1>1. ASSUME NEW s \in Seq(Tokens), NEW p, p = pod(parse(s)), p # None
        PROVE  /\ pod(parse(fmt_pod(p))) = p
               /\ fmt_pod(p) = s <=>
                    /\ Range(parse(s).pod) \subseteq Canonical
                    /\ Len(parse(s).pod) > 1 => Digit[parse(s).pod[1]] # 0
    <2>1. PICK h \in 1..Len(s) : \E c \in ComponentReadings(Before(s, h)) :
            s[h] = POD_ID_SEPARATOR /\ from_str_radix(After(s, h)) # None
      BY <1>1, ParsedIsPodReading
    <2>2. PICK c \in ComponentReadings(Before(s, h)) :
            s[h] = POD_ID_SEPARATOR /\ from_str_radix(After(s, h)) # None
      BY <2>1
    <2>3. PICK x, y : x = Before(s, h) /\ y = After(s, h)
      OBVIOUS
    <2>4. /\ x \in Seq(Tokens) /\ y \in Seq(Tokens) /\ Len(s) \in Nat
          /\ Len(x) = h - 1 /\ POD_ID_SEPARATOR \in Tokens
      BY <2>3, FrontPart, Rest, LenProperties, SeparatorAssumption DEF Separators
    <2>5. PICK a, out : a = from_str_radix(y) /\ out = lower_hex(a)
      OBVIOUS
    <2>6. p = [component |-> c, pod |-> a] /\ parse(s).pod = y
      BY <1>1, <2>2, <2>3, <2>5, PodReadingIsParsed
    <2>7. /\ out \in Seq(Tokens) /\ from_str_radix(out) = a
          /\ out = y <=> Range(y) \subseteq Canonical /\ (Len(y) > 1 => Digit[y[1]] # 0)
      BY <2>2, <2>3, <2>4, <2>5, NumberTexts
    <2>8. PICK u : u = x \o <<POD_ID_SEPARATOR>> \o out
      OBVIOUS
    <2>9. fmt_pod(p) = u
      <3>1. p.component = c /\ p.pod = a
        BY <2>6
      <3>2. fmt_component(c) = x
        BY <2>2, <2>3, <2>4, ComponentWritten
      <3> QED BY <2>5, <2>8, <3>1, <3>2, Zenon DEF fmt_pod
    <2>10. /\ u \in Seq(Tokens) /\ h \in 1..Len(u) /\ u[h] = POD_ID_SEPARATOR
           /\ Before(u, h) = x /\ After(u, h) = out
      <3>1. Len(x) + 1 = h
        BY <2>4
      <3> QED BY <2>4, <2>7, <2>8, <3>1, Joined
    <2>11. pod(parse(u)) = p
      <3>1. c \in ComponentReadings(Before(u, h)) /\ from_str_radix(After(u, h)) # None
        BY <2>2, <2>3, <2>5, <2>7, <2>10
      <3>2. pod(parse(u)) = [component |-> c, pod |-> from_str_radix(After(u, h))]
        BY <2>10, <3>1, PodReadingIsParsed
      <3> QED BY <2>6, <2>7, <2>10, <3>2
    <2>12. u = s <=> out = y
      <3>1. ASSUME u = s PROVE out = y
        BY <2>3, <2>10, <3>1
      <3>2. ASSUME out = y PROVE u = s
        <4>1. SubSeq(s, 1, h - 1) \o <<s[h]>> = SubSeq(s, 1, h)
          <5>1. 1 \in 1..Len(s) /\ h \in 1..Len(s)
            BY <2>4
          <5> QED BY <5>1, SubSeqRecursiveSecond
        <4>2. SubSeq(s, 1, h) \o SubSeq(s, h + 1, Len(s)) = SubSeq(s, 1, Len(s))
          <5>1. 1 \in 1 .. Len(s) + 1 /\ h \in 1 - 1 .. Len(s) /\ Len(s) \in h..Len(s)
            BY <2>4
          <5> QED BY <5>1, ConcatAdjacentSubSeq
        <4>3. SubSeq(s, 1, Len(s)) = s
          BY SubSeqFull
        <4> QED BY <2>2, <2>3, <2>8, <3>2, <4>1, <4>2, <4>3, Zenon DEF Before, After
      <3> QED BY <3>1, <3>2
    <2> QED BY <2>6, <2>7, <2>9, <2>11, <2>12
  <1>2. ASSUME TextInv, ComponentsLeadBack PROVE NamesLeadBack
    <2>1. text \in Seq(Tokens)
      BY <1>2 DEF TextInv
    <2> QED BY <1>1, <1>2, <2>1, Zenon DEF NamesLeadBack
  <1>3. Spec => []TextInv
    BY TextStep, PTL DEF Spec
  <1> QED BY <1>2, <1>3, ComponentTexts, PTL

=============================================================================

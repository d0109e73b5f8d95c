------------------------ MODULE ContainerStoreFiles ------------------------
(***************************************************************************)
(* Files of the container store are never mixed or torn once pulled, and   *)
(* reads that take no lock still find whole images, for any components,    *)
(* images, handlers and faults.                                            *)
(***************************************************************************)
EXTENDS ContainerStore, SequenceTheorems, FiniteSetTheorems, TLAPS

-----------------------------------------------------------------------------
(* What is in a file *)

(* Everything that may be written. *)
AllUnits == [part : {"length", "component", "metadata", "spec"}, image : Images]

(* What pull writes for a part is a sequence of units of that part. *)
LEMMA UnitsAre ==
  ASSUME NEW g \in Images, NEW part \in {"length", "component", "metadata", "spec"}
  PROVE  /\ Units(part, g) \in Seq(AllUnits)
         /\ Len(Units(part, g)) = IF part = "component" THEN ComponentSize[g] ELSE 1
         /\ \A n \in 1..Len(Units(part, g)) : Units(part, g)[n] = Unit(part, g)
<1>1. Unit(part, g) \in AllUnits
  BY DEF Unit, AllUnits
<1>2. CASE part = "component"
  <2>1. ComponentSize[g] \in Nat
    BY StoreAssumption
  <2> QED
    BY <1>1, <1>2, <2>1 DEF Units
<1>3. CASE part # "component"
  BY <1>1, <1>3 DEF Units
<1> QED
  BY <1>2, <1>3

(* The layout of a container file: length header, component, metadata. *)
LEMMA SerializedIs ==
  ASSUME NEW g \in Images
  PROVE  /\ ComponentSize[g] \in Nat \ {0}
         /\ Serialized(g) \in Seq(AllUnits)
         /\ Len(Serialized(g)) = 2 + ComponentSize[g]
         /\ Serialized(g)[1] = Unit("length", g)
         /\ \A n \in 2..(1 + ComponentSize[g]) : Serialized(g)[n] = Unit("component", g)
         /\ Serialized(g)[2 + ComponentSize[g]] = Unit("metadata", g)
<1> DEFINE l == Units("length", g)
           c == Units("component", g)
           m == Units("metadata", g)
           z == ComponentSize[g]
<1>1. z \in Nat \ {0}
  BY StoreAssumption
<1>2. /\ l \in Seq(AllUnits) /\ Len(l) = 1 /\ l[1] = Unit("length", g)
      /\ c \in Seq(AllUnits) /\ Len(c) = z /\ \A n \in 1..z : c[n] = Unit("component", g)
      /\ m \in Seq(AllUnits) /\ Len(m) = 1 /\ m[1] = Unit("metadata", g)
  BY UnitsAre
<1>3. Serialized(g) = (l \o c) \o m
  BY DEF Serialized
<1> HIDE DEF l, c, m, z
<1> DEFINE lc == l \o c
<1>4. /\ lc \in Seq(AllUnits)
      /\ Len(lc) = 1 + z
      /\ \A n \in 1..(1 + z) : lc[n] = IF n <= 1 THEN l[n] ELSE c[n - 1]
  <2>1. /\ lc \in Seq(AllUnits)
        /\ Len(lc) = Len(l) + Len(c)
        /\ \A n \in 1..(Len(l) + Len(c)) :
             lc[n] = IF n <= Len(l) THEN l[n] ELSE c[n - Len(l)]
    BY <1>2, ConcatProperties, Zenon
  <2> QED
    BY <1>2, <2>1, Zenon
<1> HIDE DEF lc
<1>5. /\ lc[1] = Unit("length", g)
      /\ \A n \in 2..(1 + z) : lc[n] = Unit("component", g)
  <2>1. 1 \in 1..(1 + z) /\ \A n \in 2..(1 + z) : n \in 1..(1 + z) /\ n - 1 \in 1..z /\ ~ n <= 1
    BY <1>1
  <2> QED
    BY <1>2, <1>4, <2>1
<1> DEFINE s == lc \o m
<1>6. /\ s \in Seq(AllUnits)
      /\ Len(s) = 1 + z + 1
      /\ \A n \in 1..(1 + z + 1) : s[n] = IF n <= 1 + z THEN lc[n] ELSE m[n - (1 + z)]
  <2>1. /\ s \in Seq(AllUnits)
        /\ Len(s) = Len(lc) + Len(m)
        /\ \A n \in 1..(Len(lc) + Len(m)) :
             s[n] = IF n <= Len(lc) THEN lc[n] ELSE m[n - Len(lc)]
    BY <1>2, <1>4, ConcatProperties, Zenon
  <2> QED
    BY <1>2, <1>4, <2>1, Zenon
<1>7. s = Serialized(g)
  BY <1>3 DEF lc
<1> HIDE DEF s
<1>8. /\ s[1] = Unit("length", g)
      /\ \A n \in 2..(1 + z) : s[n] = Unit("component", g)
      /\ s[2 + z] = Unit("metadata", g)
  <2>1. /\ 1 \in 1..(1 + z + 1) /\ 1 <= 1 + z
        /\ \A n \in 2..(1 + z) : n \in 1..(1 + z + 1) /\ n <= 1 + z
        /\ 2 + z \in 1..(1 + z + 1) /\ ~ 2 + z <= 1 + z /\ (2 + z) - (1 + z) = 1
    BY <1>1
  <2>2. m[(2 + z) - (1 + z)] = Unit("metadata", g)
    BY <1>2, <2>1
  <2> QED
    BY <1>5, <1>6, <2>1, <2>2
<1>9. 1 + z + 1 = 2 + z
  BY <1>1
<1> QED
  BY <1>1, <1>6, <1>7, <1>8, <1>9 DEF z

(* A beginning of a sequence agrees with the sequence as far as it goes. *)
LEMMA Beginning ==
  ASSUME NEW S, NEW s \in Seq(S), NEW n \in 0..Len(s)
  PROVE  /\ SubSeq(s, 1, n) \in Seq(S)
         /\ Len(SubSeq(s, 1, n)) = n
         /\ \A j \in 1..n : SubSeq(s, 1, n)[j] = s[j]
<1>1. Len(s) \in Nat
  BY LenProperties
<1>2. \A j \in 1..n : s[j] \in S
  BY <1>1, ElementOfSeq
<1>3. /\ SubSeq(s, 1, n) \in Seq(S)
      /\ Len(SubSeq(s, 1, n)) = IF 1 <= n THEN n - 1 + 1 ELSE 0
      /\ \A j \in 1..(n - 1 + 1) : SubSeq(s, 1, n)[j] = s[1 + j - 1]
  <2>1. 1 \in Int /\ n \in Int
    BY <1>1
  <2> QED
    BY <1>1, <1>2, <2>1, SubSeqProperties
<1>4. (IF 1 <= n THEN n - 1 + 1 ELSE 0) = n /\ n - 1 + 1 = n /\ \A j \in 1..n : 1 + j - 1 = j
  BY <1>1
<1> QED
  BY <1>3, <1>4

(* Appending what comes next to a beginning gives a longer beginning. *)
LEMMA AddPiece ==
  ASSUME NEW S, NEW s \in Seq(S), NEW t \in Seq(S), NEW n \in 0..Len(s),
         n + Len(t) <= Len(s), \A j \in 1..Len(t) : t[j] = s[n + j],
         NEW k \in 0..Len(t)
  PROVE  SubSeq(s, 1, n) \o SubSeq(t, 1, k) = SubSeq(s, 1, n + k)
<1> DEFINE x == SubSeq(s, 1, n)
           y == SubSeq(t, 1, k)
           r == SubSeq(s, 1, n + k)
<1>0. Len(s) \in Nat /\ Len(t) \in Nat /\ n \in Nat /\ k \in Nat /\ n + k \in 0..Len(s)
  BY LenProperties
<1>1. x \in Seq(S) /\ Len(x) = n /\ \A j \in 1..n : x[j] = s[j]
  BY Beginning
<1>2. y \in Seq(S) /\ Len(y) = k /\ \A j \in 1..k : y[j] = t[j]
  BY Beginning
<1>3. r \in Seq(S) /\ Len(r) = n + k /\ \A j \in 1..(n + k) : r[j] = s[j]
  BY <1>0, Beginning
<1> HIDE DEF x, y, r
<1>4. /\ x \o y \in Seq(S)
      /\ Len(x \o y) = Len(x) + Len(y)
      /\ \A j \in 1..(Len(x) + Len(y)) : (x \o y)[j] = IF j <= Len(x) THEN x[j] ELSE y[j - Len(x)]
  <2>1. x \in Seq(S) /\ y \in Seq(S)
    BY <1>1, <1>2
  <2> QED
    BY <2>1, ConcatProperties, Zenon
<1> DEFINE xy == x \o y
<1> HIDE DEF xy
<1>5. \A j \in 1..Len(xy) : xy[j] = r[j]
  <2> SUFFICES ASSUME NEW j \in 1..(n + k)
               PROVE  xy[j] = r[j]
    BY <1>1, <1>2, <1>4 DEF xy
  <2>1. xy[j] = IF j <= n THEN x[j] ELSE y[j - n]
    BY <1>1, <1>2, <1>4 DEF xy
  <2>2. CASE j <= n
    BY <1>0, <1>1, <1>3, <2>1, <2>2
  <2>3. CASE ~ j <= n
    <3>1. j - n \in 1..k /\ j - n \in 1..Len(t) /\ n + (j - n) = j
      BY <1>0, <2>3
    <3>2. t[j - n] = s[n + (j - n)]
      BY <3>1
    <3> QED
      BY <1>2, <1>3, <2>1, <2>3, <3>1, <3>2
  <2> QED
    BY <2>2, <2>3
<1>6. xy \in Seq(S) /\ Len(xy) = Len(r)
  BY <1>1, <1>2, <1>3, <1>4 DEF xy
<1>7. xy = r
  BY <1>3, <1>5, <1>6, SeqEqual, Zenon
<1> QED
  BY <1>7 DEF xy, x, y, r

(* How much of image g is in the file when pull is about to write a part. *)
Offset(part, g) ==
  CASE part = "length" -> 0
    [] part = "component" -> 1
    [] part = "metadata" -> 1 + ComponentSize[g]
    [] part = "spec" -> 2 + ComponentSize[g]

(* What a file may hold that was begun for image g. *)
Beginnings(g) == {SubSeq(Serialized(g), 1, k) : k \in 0..Len(Serialized(g))}

(* The units of a part stand in the file right after the parts before it. *)
LEMMA PartPlaced ==
  ASSUME NEW g \in Images, NEW part \in {"length", "component", "metadata"}
  PROVE  /\ Offset(part, g) \in 0..Len(Serialized(g))
         /\ Offset(part, g) + Len(Units(part, g)) = Offset(NextPart(part), g)
         /\ Offset(NextPart(part), g) <= Len(Serialized(g))
         /\ \A j \in 1..Len(Units(part, g)) :
              Units(part, g)[j] = Serialized(g)[Offset(part, g) + j]
<1> DEFINE z == ComponentSize[g]
           s == Serialized(g)
           u == Units(part, g)
<1>1. /\ z \in Nat \ {0} /\ Len(s) = 2 + z
      /\ s[1] = Unit("length", g)
      /\ \A n \in 2..(1 + z) : s[n] = Unit("component", g)
      /\ s[2 + z] = Unit("metadata", g)
  BY SerializedIs
<1>2. /\ Len(u) = IF part = "component" THEN z ELSE 1
      /\ \A n \in 1..Len(u) : u[n] = Unit(part, g)
  BY UnitsAre
<1>3. /\ Offset("length", g) = 0 /\ Offset("component", g) = 1
      /\ Offset("metadata", g) = 1 + z /\ Offset("spec", g) = 2 + z
  BY DEF Offset
<1>4. NextPart("length") = "component" /\ NextPart("component") = "metadata" /\ NextPart("metadata") = "spec"
  BY DEF NextPart
<1> HIDE DEF z, s, u
<1>5. CASE part = "length"
  <2>1. \A j \in 1..1 : 0 + j = 1
    OBVIOUS
  <2> QED
    BY <1>1, <1>2, <1>3, <1>4, <1>5, <2>1 DEF u, s
<1>6. CASE part = "component"
  <2>1. Len(u) = z
    BY <1>2, <1>6
  <2>2. \A j \in 1..z : u[j] = s[1 + j]
    BY <1>1, <1>2, <1>6, <2>1
  <2> QED
    BY <1>1, <1>3, <1>4, <1>6, <2>1, <2>2 DEF u, s
<1>7. CASE part = "metadata"
  <2>1. Len(u) = 1
    BY <1>2, <1>7
  <2>2. \A j \in 1..1 : u[j] = s[(1 + z) + j]
    <3>1. \A j \in 1..1 : j = 1 /\ (1 + z) + j = 2 + z
      BY <1>1
    <3> QED
      BY <1>1, <1>2, <1>7, <2>1, <3>1
  <2>3. /\ 1 + z \in 0..Len(s) /\ (1 + z) + Len(u) = 2 + z /\ 2 + z <= Len(s)
        /\ \A j \in 1..Len(u) : u[j] = s[(1 + z) + j]
    BY <1>1, <2>1, <2>2
  <2>4. Offset(part, g) = 1 + z /\ Offset(NextPart(part), g) = 2 + z
    BY <1>3, <1>4, <1>7
  <2> QED
    BY <2>3, <2>4 DEF u, s
<1> QED
  BY <1>5, <1>6, <1>7

(* pull appends parts in order: whatever is written, in full or not, the   *)
(* file stays a beginning of the image.                                    *)
LEMMA PartWritten ==
  ASSUME NEW g \in Images, NEW part \in {"length", "component", "metadata"},
         NEW k \in 0..Len(Units(part, g))
  PROVE  /\ SubSeq(Serialized(g), 1, Offset(part, g)) \o SubSeq(Units(part, g), 1, k)
              \in Beginnings(g)
         /\ SubSeq(Serialized(g), 1, Offset(part, g)) \o Units(part, g)
              = SubSeq(Serialized(g), 1, Offset(NextPart(part), g))
<1> DEFINE s == Serialized(g)
           u == Units(part, g)
           n == Offset(part, g)
<1>1. s \in Seq(AllUnits) /\ u \in Seq(AllUnits) /\ Len(s) \in Nat /\ Len(u) \in Nat
  BY SerializedIs, UnitsAre, LenProperties
<1>2. /\ n \in 0..Len(s) /\ n + Len(u) = Offset(NextPart(part), g)
      /\ Offset(NextPart(part), g) <= Len(s)
      /\ \A j \in 1..Len(u) : u[j] = s[n + j]
  BY PartPlaced
<1>3. SubSeq(u, 1, Len(u)) = u
  BY <1>1, SubSeqFull
<1> DEFINE next == Offset(NextPart(part), g)
<1> HIDE DEF s, u, n, next
<1>4. n + Len(u) <= Len(s)
  BY <1>2 DEF next
<1>5. \A l \in 0..Len(u) : SubSeq(s, 1, n) \o SubSeq(u, 1, l) = SubSeq(s, 1, n + l)
  BY <1>1, <1>2, <1>4, AddPiece
<1>6. k \in 0..Len(u) /\ Len(u) \in 0..Len(u) /\ n + k \in 0..Len(s)
  BY <1>1, <1>2, <1>4 DEF u
<1> QED
  BY <1>2, <1>3, <1>5, <1>6 DEF s, u, n, Beginnings

(* Before the first part the file is empty, after the last it is whole. *)
LEMMA WholeFile ==
  ASSUME NEW g \in Images
  PROVE  /\ SubSeq(Serialized(g), 1, 0) = <<>>
         /\ SubSeq(Serialized(g), 1, Offset("length", g)) = <<>>
         /\ SubSeq(Serialized(g), 1, Offset("spec", g)) = Serialized(g)
         /\ <<>> \in Beginnings(g)
         /\ Serialized(g) \in Beginnings(g)
<1>1. Serialized(g) \in Seq(AllUnits) /\ Len(Serialized(g)) = 2 + ComponentSize[g] /\ ComponentSize[g] \in Nat
  BY SerializedIs
<1>2. Offset("length", g) = 0 /\ Offset("spec", g) = Len(Serialized(g))
  BY <1>1 DEF Offset
<1>3. SubSeq(Serialized(g), 1, 0) = <<>>
  BY SubSeqEmpty
<1>4. SubSeq(Serialized(g), 1, Len(Serialized(g))) = Serialized(g)
  BY <1>1, SubSeqFull
<1>5. 0 \in 0..Len(Serialized(g)) /\ Len(Serialized(g)) \in 0..Len(Serialized(g))
  BY <1>1
<1> QED
  BY <1>2, <1>3, <1>4, <1>5 DEF Beginnings

(* Beginnings are prefixes. *)
LEMMA BeginningsArePrefixes ==
  ASSUME NEW g \in Images, NEW s \in Beginnings(g)
  PROVE  IsPrefix(s, Serialized(g))
<1> DEFINE t == Serialized(g)
<1>1. t \in Seq(AllUnits)
  BY SerializedIs
<1>2. PICK k \in 0..Len(t) : s = SubSeq(t, 1, k)
  BY DEF Beginnings
<1> HIDE DEF t
<1>3. Len(t) \in Nat
  BY <1>1, LenProperties
<1>4. s \in Seq(AllUnits) /\ Len(s) = k
  BY <1>1, <1>2, Beginning
<1>5. SubSeq(s, 1, Len(s)) = s
  BY <1>4, SubSeqFull
<1> QED
  BY <1>2, <1>3, <1>4, <1>5 DEF IsPrefix, t

(* get takes a whole file apart into what pull put together. *)
LEMMA ReadBack ==
  ASSUME NEW g \in Images
  PROVE  /\ Serialized(g) # <<>>
         /\ Serialized(g)[1].image = g
         /\ ~ Len(Serialized(g)) < 1 + ComponentSize[g]
         /\ SubSeq(Serialized(g), 2, 1 + ComponentSize[g]) = Units("component", g)
         /\ deserialize(Units("component", g)) = g
         /\ decode(SubSeq(Serialized(g), 2 + ComponentSize[g], Len(Serialized(g)))) = g
<1> DEFINE z == ComponentSize[g]
           s == Serialized(g)
           c == Units("component", g)
           m == Units("metadata", g)
<1>1. /\ z \in Nat \ {0} /\ s \in Seq(AllUnits) /\ Len(s) = 2 + z
      /\ s[1] = Unit("length", g)
      /\ \A n \in 2..(1 + z) : s[n] = Unit("component", g)
      /\ s[2 + z] = Unit("metadata", g)
  BY SerializedIs
<1>2. /\ c \in Seq(AllUnits) /\ Len(c) = z
      /\ \A n \in 1..z : c[n] = Unit("component", g)
  BY UnitsAre
<1>3. m = <<Unit("metadata", g)>> /\ m # <<>> /\ m[1].image = g
  BY DEF Units, Unit
<1>4. s # <<>> /\ s[1].image = g /\ ~ Len(s) < 1 + z
  BY <1>1, EmptySeq DEF Unit
<1>5. SubSeq(s, 2, 1 + z) = c
  <2>1. /\ SubSeq(s, 2, 1 + z) \in Seq(AllUnits)
        /\ Len(SubSeq(s, 2, 1 + z)) = z
        /\ \A j \in 1..z : SubSeq(s, 2, 1 + z)[j] = s[2 + j - 1]
    <3> HIDE DEF s, z
    <3>1. \A j \in 2..(1 + z) : s[j] \in AllUnits
      BY <1>1, ElementOfSeq
    <3> QED
      BY <1>1, <3>1, SubSeqProperties
  <2>2. \A j \in 1..z : 2 + j - 1 \in 2..(1 + z)
    BY <1>1
  <2> DEFINE t == SubSeq(s, 2, 1 + z)
  <2>3. \A j \in 1..z : t[j] = c[j]
    BY <1>1, <1>2, <2>1, <2>2
  <2> HIDE DEF t, c
  <2>4. t = c
    BY <1>2, <2>1, <2>3, SeqEqual DEF t
  <2> QED
    BY <2>4 DEF t, c
<1>6. SubSeq(s, 2 + z, Len(s)) = m
  <2> HIDE DEF s, z, m
  <2>1. 2 + z \in 1..Len(s) /\ Len(s) \in (2 + z)..Len(s)
    BY <1>1
  <2>2. SubSeq(s, 2 + z, Len(s)) = <<s[2 + z]>> \o SubSeq(s, 2 + z + 1, Len(s))
    BY <1>1, <2>1, SubSeqRecursiveFirst
  <2>3. SubSeq(s, 2 + z + 1, Len(s)) = <<>>
    BY <1>1, SubSeqEmpty
  <2>4. m \in Seq(AllUnits)
    BY UnitsAre DEF m
  <2> QED
    BY <1>1, <1>3, <2>2, <2>3, <2>4, ConcatEmptySeq
<1>7. \A h \in Images : Units("component", h) = c => h = g
  <2> SUFFICES ASSUME NEW h \in Images, Units("component", h) = c
               PROVE  h = g
    OBVIOUS
  <2>1. \A n \in 1..Len(c) : Units("component", h)[n] = Unit("component", h)
    BY UnitsAre
  <2>2. 1 \in 1..Len(c) /\ 1 \in 1..z
    BY <1>1, <1>2
  <2>3. Unit("component", h) = Unit("component", g)
    BY <1>2, <2>1, <2>2
  <2> QED
    BY <2>3 DEF Unit
<1>8. deserialize(c) = g
  BY <1>7 DEF deserialize
<1>9. decode(m) = g
  BY <1>3 DEF decode
<1> QED
  BY <1>4, <1>5, <1>6, <1>8, <1>9

-----------------------------------------------------------------------------
(* The invariant *)

(* What makes up a handler. *)
IsCall(x) ==
  x = [pc |-> x.pc, name |-> x.name, image |-> x.image, removed |-> x.removed,
       component |-> x.component, quiet |-> x.quiet]

(* Steps of a pull that has fetched its image. *)
Pulling == {"pull", "create_container", "create_spec", "length", "component",
            "metadata", "spec", "sync"}

(* Files at any time: a beginning of an image, and all of it once pulled. *)
FileInv(c) ==
  /\ container[c] # None => \E g \in Images : container[c] \in Beginnings(g)
  /\ imageSpec[c] \in {None, <<>>} \cup {<<Unit("spec", g)>> : g \in Images}
  /\ pulled[c] # None => /\ container[c] = Serialized(pulled[c])
                         /\ imageSpec[c] = <<Unit("spec", pulled[c])>>

(* How far the files of c are when a pull of image g is at step pc. *)
Progress(pc, c, g) ==
  /\ pc \in Pulling => g \in Images
  /\ pc = "create_spec" => container[c] = <<>>
  /\ pc \in {"length", "component", "metadata", "spec"} =>
       /\ container[c] = SubSeq(Serialized(g), 1, Offset(pc, g))
       /\ imageSpec[c] = <<>>
  /\ pc = "sync" => /\ container[c] = Serialized(g)
                    /\ imageSpec[c] = <<Unit("spec", g)>>

(* A read of an image at rest: it has the file open that is there, and     *)
(* what it has read so far belongs to that image.                          *)
Undisturbed(x) ==
  /\ x.pc \in {"get_length", "get_component", "get_metadata", "get_image"}
  /\ x.name \in Components
  /\ x.removed = None
  /\ pulled[x.name] # None
  /\ x.pc \in {"get_component", "get_metadata"} => x.image = pulled[x.name]
  /\ x.pc = "get_metadata" => x.component = Units("component", pulled[x.name])

(* What holds of every handler. *)
CallInv(i) ==
  /\ IsCall(calls[i])
  /\ calls[i].pc \notin {"idle", "filesystem_usage"} => calls[i].name \in Components
  /\ calls[i].pc \in Changing => lock = i /\ pulled[calls[i].name] = None
  /\ Progress(calls[i].pc, calls[i].name, calls[i].image)
  /\ calls[i].quiet => Undisturbed(calls[i])

(* The inductive invariant.  The mutex holder alone is between the parts   *)
(* of a file, the component it works on is not at rest, and so no          *)
(* undisturbed read can meet a file that is being changed.                 *)
StoreInv ==
  /\ StoreTypeOK
  /\ calls = [i \in Calls |-> calls[i]]
  /\ container = [c \in Components |-> container[c]]
  /\ imageSpec = [c \in Components |-> imageSpec[c]]
  /\ \A c \in Components : FileInv(c)
  /\ \A i \in Calls : CallInv(i)
  /\ QuietReadsFindPulled

(* Counters stay words, whatever is added to them. *)
LEMMA CountTyped ==
  ASSUME usage \in [bytes : 0..(U64 - 1), inodes : 0..(U64 - 1)],
         NEW bytes \in Int, NEW inodes \in Int, Count(bytes, inodes)
  PROVE  usage' \in [bytes : 0..(U64 - 1), inodes : 0..(U64 - 1)]
<1>1. U64 \in Nat \ {0} /\ usage.bytes \in Int /\ usage.inodes \in Int
  BY StoreAssumption
<1>2. /\ (usage.bytes + bytes) % U64 \in 0..(U64 - 1)
      /\ (usage.inodes + inodes) % U64 \in 0..(U64 - 1)
  BY <1>1
<1> QED
  BY <1>2 DEF Count

(* The same, from the invariant. *)
LEMMA Counted ==
  ASSUME StoreInv, NEW bytes \in Int, NEW inodes \in Int, Count(bytes, inodes)
  PROVE  usage' \in [bytes : 0..(U64 - 1), inodes : 0..(U64 - 1)]
  BY CountTyped DEF StoreInv, StoreTypeOK

(* A step that changes nothing but one handler only has to account for     *)
(* that handler.                                                           *)
LEMMA OwnStep ==
  ASSUME StoreInv, NEW i \in Calls,
         UNCHANGED <<container, imageSpec, lock, pulled, usage>>,
         calls' = [calls EXCEPT ![i] = calls'[i]],
         CallInv(i)', QuietReadsFindPulled'
  PROVE  StoreInv'
<1>1. \A j \in Calls : j # i => calls'[j] = calls[j]
  BY DEF StoreInv
<1>2. calls' = [j \in Calls |-> calls'[j]]
  BY DEF StoreInv
<1>3. \A j \in Calls : CallInv(j)'
  <2> SUFFICES ASSUME NEW j \in Calls, j # i
               PROVE  CallInv(j)'
    OBVIOUS
  <2>1. calls'[j] = calls[j] /\ CallInv(j)
    BY <1>1 DEF StoreInv
  <2> QED
    BY <2>1 DEF CallInv, IsCall, Progress, Undisturbed
<1>4. StoreTypeOK'
  BY <1>3 DEF StoreInv, StoreTypeOK, CallInv
<1>5. \A c \in Components : FileInv(c)'
  BY DEF StoreInv, FileInv
<1>6. container' = [c \in Components |-> container'[c]] /\ imageSpec' = [c \in Components |-> imageSpec'[c]]
  BY DEF StoreInv
<1> QED
  BY <1>2, <1>3, <1>4, <1>5, <1>6 DEF StoreInv

(* A handler that another one has at most left with a removed file. *)
Kept(x, y) ==
  /\ IsCall(y)
  /\ y.pc = x.pc /\ y.name = x.name /\ y.image = x.image
  /\ y.component = x.component /\ y.quiet = x.quiet

(* A step of the handler that holds the mutex, which changes the files of  *)
(* one component: nobody else is changing files, and no read of this       *)
(* component counts as undisturbed.                                        *)
LEMMA HolderStep ==
  ASSUME StoreInv, NEW i \in Calls, NEW c \in Components,
         calls[i].pc \in Changing, calls[i].name = c,
         usage' \in [bytes : 0..(U64 - 1), inodes : 0..(U64 - 1)],
         lock' \in {i, None, Poisoned},
         container' = [container EXCEPT ![c] = container'[c]],
         imageSpec' = [imageSpec EXCEPT ![c] = imageSpec'[c]],
         pulled' = [pulled EXCEPT ![c] = pulled'[c]],
         pulled'[c] \in Images \cup {None},
         FileInv(c)',
         calls' = [j \in Calls |-> calls'[j]],
         \A j \in Calls : j # i => /\ Kept(calls[j], calls'[j])
                                   /\ calls[j].name # c => calls'[j] = calls[j],
         CallInv(i)', QuietReadsFindPulled'
  PROVE  StoreInv'
<1>1. lock = i /\ pulled[c] = None
  BY DEF StoreInv, CallInv
<1>2. \A d \in Components : d # c => container'[d] = container[d] /\ imageSpec'[d] = imageSpec[d]
                                     /\ pulled'[d] = pulled[d]
  BY DEF StoreInv, StoreTypeOK
<1>3. \A j \in Calls : CallInv(j)'
  <2> SUFFICES ASSUME NEW j \in Calls, j # i
               PROVE  CallInv(j)'
    OBVIOUS
  <2>1. CallInv(j) /\ Kept(calls[j], calls'[j]) /\ (calls[j].name # c => calls'[j] = calls[j])
    BY DEF StoreInv
  <2>2. calls'[j].pc \notin Changing
    BY <1>1, <2>1 DEF CallInv, Kept
  <2>3. Progress(calls[j].pc, calls[j].name, calls[j].image)'
    BY <2>1, <2>2 DEF CallInv, Progress, Kept, Changing, Pulling
  <2>4. calls'[j].quiet => Undisturbed(calls[j])'
    <3> SUFFICES ASSUME calls[j].quiet
                 PROVE  Undisturbed(calls[j])'
      BY <2>1 DEF Kept
    <3>1. Undisturbed(calls[j]) /\ calls[j].name \in Components /\ calls[j].name # c
      BY <1>1, <2>1 DEF CallInv, Undisturbed
    <3>2. calls'[j] = calls[j] /\ pulled'[calls[j].name] = pulled[calls[j].name]
      BY <1>2, <2>1, <3>1
    <3> QED
      BY <3>1, <3>2 DEF Undisturbed
  <2> QED
    BY <2>1, <2>2, <2>3, <2>4 DEF CallInv, Kept
<1>4. StoreTypeOK'
  BY <1>3 DEF StoreInv, StoreTypeOK, CallInv
<1>5. \A d \in Components : FileInv(d)'
  BY <1>2 DEF StoreInv, FileInv
<1>6. container' = [d \in Components |-> container'[d]] /\ imageSpec' = [d \in Components |-> imageSpec'[d]]
  BY DEF StoreInv
<1> QED
  BY <1>3, <1>4, <1>5, <1>6 DEF StoreInv

(* A handler after a step. *)
Changed(x, pc, image, removed, component, quiet) ==
  [pc |-> pc, name |-> x.name, image |-> image, removed |-> removed,
   component |-> component, quiet |-> quiet]

(* Fields of a handler are changed one at a time. *)
LEMMA CallFields ==
  ASSUME NEW x, IsCall(x), NEW v
  PROVE  /\ [x EXCEPT !.pc = v] = Changed(x, v, x.image, x.removed, x.component, x.quiet)
         /\ [x EXCEPT !.image = v] = Changed(x, x.pc, v, x.removed, x.component, x.quiet)
         /\ [x EXCEPT !.removed = v] = Changed(x, x.pc, x.image, v, x.component, x.quiet)
         /\ [x EXCEPT !.component = v] = Changed(x, x.pc, x.image, x.removed, v, x.quiet)
         /\ [x EXCEPT !.quiet = v] = Changed(x, x.pc, x.image, x.removed, x.component, v)
<1>1. [x EXCEPT !.pc = v] = Changed(x, v, x.image, x.removed, x.component, x.quiet)
  BY DEF IsCall, Changed
<1>2. [x EXCEPT !.image = v] = Changed(x, x.pc, v, x.removed, x.component, x.quiet)
  BY DEF IsCall, Changed
<1>3. [x EXCEPT !.removed = v] = Changed(x, x.pc, x.image, v, x.component, x.quiet)
  BY DEF IsCall, Changed
<1>4. [x EXCEPT !.component = v] = Changed(x, x.pc, x.image, x.removed, v, x.quiet)
  BY DEF IsCall, Changed
<1>5. [x EXCEPT !.quiet = v] = Changed(x, x.pc, x.image, x.removed, x.component, v)
  BY DEF IsCall, Changed
<1> QED
  BY <1>1, <1>2, <1>3, <1>4, <1>5

(* ... or two at a time. *)
LEMMA CallFieldPairs ==
  ASSUME NEW x, IsCall(x), NEW v, NEW w
  PROVE  /\ [x EXCEPT !.pc = v, !.image = w] = Changed(x, v, w, x.removed, x.component, x.quiet)
         /\ [x EXCEPT !.pc = v, !.component = w] = Changed(x, v, x.image, x.removed, w, x.quiet)
<1> DEFINE y == [x EXCEPT !.pc = v]
<1>1. /\ [x EXCEPT !.pc = v, !.image = w] = [y EXCEPT !.image = w]
      /\ [x EXCEPT !.pc = v, !.component = w] = [y EXCEPT !.component = w]
  OBVIOUS
<1>2. y = Changed(x, v, x.image, x.removed, x.component, x.quiet)
  BY CallFields
<1> HIDE DEF y
<1>3. IsCall(y) /\ y.pc = v /\ y.name = x.name /\ y.image = x.image /\ y.removed = x.removed
      /\ y.component = x.component /\ y.quiet = x.quiet
  BY <1>2 DEF Changed, IsCall
<1>4. /\ [y EXCEPT !.image = w] = Changed(y, y.pc, w, y.removed, y.component, y.quiet)
      /\ [y EXCEPT !.component = w] = Changed(y, y.pc, y.image, y.removed, w, y.quiet)
  BY <1>3, CallFields, Zenon
<1>5. /\ Changed(y, y.pc, w, y.removed, y.component, y.quiet)
           = Changed(x, v, w, x.removed, x.component, x.quiet)
      /\ Changed(y, y.pc, y.image, y.removed, w, y.quiet)
           = Changed(x, v, x.image, x.removed, w, x.quiet)
  BY <1>3 DEF Changed
<1> QED
  BY <1>1, <1>4, <1>5, Zenon

(* Taking the mutex to change a component ends the quiet of its reads. *)
LEMMA AcquireStep ==
  ASSUME StoreInv, NEW i \in Calls, NEW pc \in {"create_container", "remove_container"},
         Acquire(i, pc), calls[i].name \in Components,
         pc = "create_container" => calls[i].image \in Images,
         calls[i].pc \in {"pull", "remove"},
         UNCHANGED <<container, imageSpec, reply>>,
         usage' \in [bytes : 0..(U64 - 1), inodes : 0..(U64 - 1)]
  PROVE  StoreInv'
<1> DEFINE c == calls[i].name
<1>1. \A j \in Calls :
        /\ IsCall(calls'[j]) /\ calls'[j].pc = (IF j = i THEN pc ELSE calls[j].pc)
        /\ calls'[j].name = calls[j].name /\ calls'[j].image = calls[j].image
        /\ calls'[j].removed = calls[j].removed /\ calls'[j].component = calls[j].component
        /\ calls'[j].quiet => calls[j].quiet /\ (j = i \/ calls[j].name # c)
  <2> SUFFICES ASSUME NEW j \in Calls
               PROVE
        /\ IsCall(calls'[j]) /\ calls'[j].pc = (IF j = i THEN pc ELSE calls[j].pc)
        /\ calls'[j].name = calls[j].name /\ calls'[j].image = calls[j].image
        /\ calls'[j].removed = calls[j].removed /\ calls'[j].component = calls[j].component
        /\ calls'[j].quiet => calls[j].quiet /\ (j = i \/ calls[j].name # c)
    OBVIOUS
  <2> DEFINE x == calls[j]
             q == x.quiet /\ x.name # c
  <2>1. IsCall(x)
    BY DEF StoreInv, CallInv
  <2>2. CASE j = i
    <3>1. calls'[j] = [x EXCEPT !.pc = pc]
      BY <2>2, Zenon DEF Acquire
    <3>2. calls'[j] = Changed(x, pc, x.image, x.removed, x.component, x.quiet)
      BY <2>1, <3>1, CallFields, Zenon
    <3> QED
      BY <2>2, <3>2 DEF Changed, IsCall
  <2>3. CASE j # i
    <3>1. calls'[j] = [x EXCEPT !.quiet = q]
      BY <2>3, Zenon DEF Acquire
    <3> HIDE DEF q
    <3>2. calls'[j] = Changed(x, x.pc, x.image, x.removed, x.component, q)
      BY <2>1, <3>1, CallFields, Zenon
    <3>3. /\ IsCall(calls'[j]) /\ calls'[j].pc = calls[j].pc
          /\ calls'[j].name = calls[j].name /\ calls'[j].image = calls[j].image
          /\ calls'[j].removed = calls[j].removed /\ calls'[j].component = calls[j].component
          /\ calls'[j].quiet = q
      BY <3>2 DEF Changed, IsCall
    <3> QED
      BY <2>3, <3>3 DEF q
  <2> QED
    BY <2>2, <2>3
<1>2. lock = None /\ lock' = i /\ pulled' = [pulled EXCEPT ![c] = None]
  BY DEF Acquire
<1>3. pulled'[c] = None /\ \A d \in Components : d # c => pulled'[d] = pulled[d]
  BY <1>2 DEF StoreInv, StoreTypeOK
<1>4. pulled' \in [Components -> Images \cup {None}]
  BY <1>2 DEF StoreInv, StoreTypeOK
<1>5. \A j \in Calls : CallInv(j)'
  <2> SUFFICES ASSUME NEW j \in Calls
               PROVE  CallInv(j)'
    OBVIOUS
  <2>1. CallInv(j) /\ calls[j].pc \notin Changing
    BY <1>2, NoneAssumption DEF StoreInv, CallInv
  <2>2. /\ IsCall(calls'[j]) /\ calls'[j].pc = (IF j = i THEN pc ELSE calls[j].pc)
        /\ calls'[j].name = calls[j].name /\ calls'[j].image = calls[j].image
        /\ calls'[j].removed = calls[j].removed /\ calls'[j].component = calls[j].component
        /\ calls'[j].quiet => calls[j].quiet /\ (j = i \/ calls[j].name # c)
    BY <1>1
  <2>3. Progress(calls[j].pc, calls[j].name, calls[j].image)'
    BY <2>1, <2>2 DEF CallInv, Progress, Changing, Pulling
  <2>4. calls'[j].quiet => Undisturbed(calls[j])'
    BY <1>3, <2>1, <2>2 DEF CallInv, Undisturbed
  <2> QED
    BY <1>2, <1>3, <2>1, <2>2, <2>3, <2>4 DEF CallInv
<1>6. StoreTypeOK'
  BY <1>2, <1>4, <1>5 DEF StoreTypeOK, CallInv
<1>7. \A d \in Components : FileInv(d)'
  BY <1>3 DEF StoreInv, FileInv
<1>8. calls' = [j \in Calls |-> calls'[j]]
  BY Zenon DEF Acquire
<1> QED
  BY <1>5, <1>6, <1>7, <1>8 DEF StoreInv, QuietReadsFindPulled

(* What is in a file, or pulled, is something. *)
LEMMA NotNone ==
  ASSUME NEW g \in Images
  PROVE  /\ None # <<>> /\ None # Serialized(g) /\ None # g /\ None # <<Unit("spec", g)>>
         /\ \A s \in Beginnings(g) : None # s
  BY NoneAssumption, WholeFile DEF Beginnings

(* A handler that has just begun, or ended, promises nothing. *)
LEMMA FreshCall ==
  ASSUME NEW i \in Calls, NEW pc \in {"idle", "fetch", "remove", "filesystem_usage"}, NEW name,
         pc \in {"fetch", "remove"} => name \in Components,
         calls'[i] = Handler(pc, name, FALSE)
  PROVE  CallInv(i)'
<1>1. IsCall(calls'[i]) /\ calls'[i].pc = pc /\ calls'[i].name = name /\ ~ calls'[i].quiet
  BY DEF Handler, IsCall
<1> QED
  BY <1>1 DEF CallInv, Progress, Pulling, Changing

(* A handler that returns is over, and its answer is right if its read was *)
(* undisturbed.                                                            *)
LEMMA Returned ==
  ASSUME StoreInv, NEW i \in Calls, NEW result, Return(i, result),
         calls[i].quiet => /\ result.status = "ok"
                           /\ result.component = pulled[calls[i].name]
                           /\ result.metadata \in {pulled[calls[i].name], None}
  PROVE  /\ calls' = [calls EXCEPT ![i] = calls'[i]]
         /\ calls' = [j \in Calls |-> calls'[j]]
         /\ \A j \in Calls : j # i => calls'[j] = calls[j] /\ Kept(calls[j], calls'[j])
         /\ CallInv(i)'
         /\ QuietReadsFindPulled'
<1>1. calls' = [calls EXCEPT ![i] = Idle] /\ calls = [j \in Calls |-> calls[j]]
  BY DEF Return, StoreInv
<1> HIDE DEF Idle
<1>2. calls'[i] = Idle /\ \A j \in Calls : j # i => calls'[j] = calls[j]
  BY <1>1
<1>3. CallInv(i)'
  BY <1>2, FreshCall DEF Idle
<1>4. \A j \in Calls : IsCall(calls[j])
  BY DEF StoreInv, CallInv
<1>5. QuietReadsFindPulled'
  BY DEF Return, Reply, QuietReadsFindPulled
<1> QED
  BY <1>1, <1>2, <1>3, <1>4, <1>5 DEF Kept

(* Only reads can be undisturbed. *)
LEMMA OnlyReadsAreQuiet ==
  ASSUME StoreInv, NEW i \in Calls,
         calls[i].pc \notin {"get_length", "get_component", "get_metadata", "get_image"}
  PROVE  ~ calls[i].quiet
  BY DEF StoreInv, CallInv, Undisturbed

(* The other handlers stay what they are. *)
LEMMA FrameOf ==
  ASSUME StoreInv, NEW i \in Calls, NEW x, calls' = [calls EXCEPT ![i] = x]
  PROVE  /\ calls'[i] = x
         /\ calls' = [calls EXCEPT ![i] = calls'[i]]
         /\ calls' = [j \in Calls |-> calls'[j]]
         /\ \A j \in Calls : j # i => calls'[j] = calls[j] /\ Kept(calls[j], calls'[j])
<1>1. calls = [j \in Calls |-> calls[j]]
  BY DEF StoreInv
<1>2. \A j \in Calls : IsCall(calls[j])
  BY DEF StoreInv, CallInv
<1> QED
  BY <1>1, <1>2 DEF Kept

(* A request answered at once changes nothing but the reply. *)
LEMMA StillStep ==
  ASSUME StoreInv, UNCHANGED <<container, imageSpec, lock, pulled, usage, calls>>,
         QuietReadsFindPulled'
  PROVE  StoreInv'
<1>1. \A j \in Calls : CallInv(j)'
  BY DEF StoreInv, CallInv, Progress, Undisturbed, IsCall
<1>2. \A c \in Components : FileInv(c)'
  BY DEF StoreInv, FileInv
<1> QED
  BY <1>1, <1>2 DEF StoreInv, StoreTypeOK

(* A handler that begins and is not a read. *)
LEMMA StartStep ==
  ASSUME StoreInv, NEW i \in Calls, NEW pc \in {"fetch", "remove", "filesystem_usage"}, NEW name,
         pc \in {"fetch", "remove"} => name \in Components,
         UNCHANGED <<container, imageSpec, lock, pulled, usage, reply>>,
         calls' = [calls EXCEPT ![i] = Handler(pc, name, FALSE)]
  PROVE  StoreInv'
<1>1. calls'[i] = Handler(pc, name, FALSE) /\ calls' = [calls EXCEPT ![i] = calls'[i]]
  BY FrameOf
<1>2. CallInv(i)'
  BY <1>1, FreshCall
<1>3. QuietReadsFindPulled'
  BY DEF StoreInv, QuietReadsFindPulled
<1> QED
  BY <1>1, <1>2, <1>3, OwnStep

(* A read that begins is undisturbed if its image is at rest. *)
LEMMA ReadStartStep ==
  ASSUME StoreInv, NEW i \in Calls, NEW pc \in {"get_length", "get_image"}, NEW c \in Components,
         UNCHANGED <<container, imageSpec, lock, pulled, usage, reply>>, Start(i, pc, c)
  PROVE  StoreInv'
<1> DEFINE q == pulled[c] # None
           x == Handler(pc, c, q)
<1>1. calls' = [calls EXCEPT ![i] = x]
  BY DEF Start
<1> HIDE DEF x
<1>2. calls'[i] = x /\ calls' = [calls EXCEPT ![i] = calls'[i]]
  BY <1>1, FrameOf
<1> HIDE DEF q
<1>3. IsCall(calls'[i]) /\ calls'[i].pc = pc /\ calls'[i].name = c /\ calls'[i].removed = None
      /\ calls'[i].quiet = q
  BY <1>2 DEF x, Handler, IsCall
<1>4. CallInv(i)'
  BY <1>3 DEF q, CallInv, Progress, Pulling, Changing, Undisturbed
<1>5. QuietReadsFindPulled'
  BY DEF StoreInv, QuietReadsFindPulled
<1> QED
  BY <1>2, <1>4, <1>5, OwnStep

(* The requests that arrive. *)
LEMMA Starts ==
  ASSUME StoreInv, NEW i \in Calls,
         \/ pull_image(i) \/ remove_image(i) \/ get(i) \/ image_status(i)
         \/ list_images(i) \/ image_fs_info(i)
  PROVE  StoreInv'
<1>0. UNCHANGED <<container, imageSpec, lock, pulled, usage>>
  BY DEF pull_image, remove_image, get, image_status, list_images, image_fs_info, disk, history
<1>1. CASE pull_image(i)
  <2>1. PICK name, label \in Components :
          IF name # label
          THEN Reply(name, FALSE, Err) /\ UNCHANGED calls
          ELSE /\ calls' = [calls EXCEPT ![i] = Handler("fetch", name, FALSE)]
               /\ UNCHANGED reply
    BY <1>1 DEF pull_image
  <2>2. CASE name # label
    <3>1. reply' = [held |-> None, result |-> Err] /\ UNCHANGED calls
      BY <2>1, <2>2 DEF Reply
    <3>2. reply'.held = None
      BY <3>1
    <3>3. QuietReadsFindPulled'
      BY <3>2 DEF QuietReadsFindPulled
    <3> QED BY <1>0, <3>1, <3>3, StillStep
  <2>3. CASE name = label
    BY <1>0, <2>1, <2>3, StartStep
  <2> QED
    BY <2>2, <2>3
<1>2. CASE remove_image(i)
  <2>1. PICK c \in Components : calls' = [calls EXCEPT ![i] = Handler("remove", c, FALSE)]
    BY <1>2 DEF remove_image
  <2> QED
    BY <1>0, <1>2, <2>1, StartStep DEF remove_image
<1>3. ASSUME NEW c \in Components, container[c] = None
      PROVE  pulled[c] = None
  BY <1>3, NotNone DEF StoreInv, StoreTypeOK, FileInv
<1>4. CASE get(i)
  <2>1. PICK c \in Components :
          IF container[c] = None
          THEN Reply(c, pulled[c] # None, Err) /\ UNCHANGED calls
          ELSE Start(i, "get_length", c) /\ UNCHANGED reply
    BY <1>4 DEF get
  <2>2. CASE container[c] = None
    BY <1>0, <1>3, <2>1, <2>2, StillStep DEF Reply, QuietReadsFindPulled
  <2>3. CASE container[c] # None
    BY <1>0, <2>1, <2>3, ReadStartStep
  <2> QED
    BY <2>2, <2>3
<1>5. CASE image_status(i)
  <2>1. PICK c \in Components :
          IF container[c] = None
          THEN Reply(c, pulled[c] # None, NotFound) /\ UNCHANGED calls
          ELSE Start(i, "get_image", c) /\ UNCHANGED reply
    BY <1>5 DEF image_status
  <2>2. CASE container[c] = None
    BY <1>0, <1>3, <2>1, <2>2, StillStep DEF Reply, QuietReadsFindPulled
  <2>3. CASE container[c] # None
    BY <1>0, <2>1, <2>3, ReadStartStep
  <2> QED
    BY <2>2, <2>3
<1>6. CASE list_images(i)
  BY <1>0, <1>6, StillStep DEF list_images, Reply, QuietReadsFindPulled
<1>7. CASE image_fs_info(i)
  <2>1. CASE Reply(None, FALSE, Err) /\ UNCHANGED calls
    BY <1>0, <2>1, StillStep DEF Reply, QuietReadsFindPulled
  <2>2. CASE /\ calls' = [calls EXCEPT ![i] = Handler("filesystem_usage", None, FALSE)]
             /\ UNCHANGED reply
    BY <1>0, <2>2, StartStep
  <2> QED
    BY <1>7, <2>1, <2>2 DEF image_fs_info
<1> QED
  BY <1>1, <1>2, <1>4, <1>5, <1>6, <1>7

(* Handlers that end without having changed a file. *)
LEMMA Refusals ==
  ASSUME StoreInv, NEW i \in Calls,
         \/ lock_poisoned(i) \/ filesystem_usage(i) \/ pull_lock_fails(i) \/ cancel(i)
         \/ fetch(i) /\ Return(i, Err)
  PROVE  StoreInv'
<1>0. UNCHANGED <<container, imageSpec, lock, pulled, usage>>
  BY DEF lock_poisoned, filesystem_usage, pull_lock_fails, cancel, fetch, disk, history
<1>1. ~ calls[i].quiet
  BY OnlyReadsAreQuiet DEF lock_poisoned, filesystem_usage, pull_lock_fails, cancel, fetch, At
<1>2. CASE \E result : Return(i, result)
  BY <1>0, <1>1, <1>2, Returned, OwnStep
<1>3. CASE cancel(i)
  <2>1. calls' = [calls EXCEPT ![i] = Idle] /\ UNCHANGED reply
    BY <1>3 DEF cancel
  <2>2. calls'[i] = Idle /\ calls' = [calls EXCEPT ![i] = calls'[i]]
    BY <2>1, FrameOf
  <2>3. CallInv(i)'
    BY <2>2, FreshCall DEF Idle
  <2> QED
    BY <1>0, <2>1, <2>2, <2>3, OwnStep DEF StoreInv, QuietReadsFindPulled
<1> QED
  BY <1>2, <1>3 DEF lock_poisoned, filesystem_usage, pull_lock_fails

(* A fetched image is one of those that the registry has. *)
LEMMA Fetches ==
  ASSUME StoreInv, NEW i \in Calls, fetch(i)
  PROVE  StoreInv'
<1>1. CASE Return(i, Err)
  BY <1>1, Refusals
<1>2. CASE UNCHANGED reply /\ \E g \in Images :
             calls' = [calls EXCEPT ![i] = [@ EXCEPT !.pc = "pull", !.image = g]]
  <2>1. PICK g \in Images : calls' = [calls EXCEPT ![i] = [calls[i] EXCEPT !.pc = "pull", !.image = g]]
    BY <1>2, Zenon
  <2> DEFINE x == [calls[i] EXCEPT !.pc = "pull", !.image = g]
  <2>2. calls' = [calls EXCEPT ![i] = x]
    BY <2>1, Zenon
  <2>3. IsCall(calls[i]) /\ ~ calls[i].quiet /\ calls[i].name \in Components
    BY OnlyReadsAreQuiet DEF fetch, At, StoreInv, CallInv
  <2>4. x = Changed(calls[i], "pull", g, calls[i].removed, calls[i].component, calls[i].quiet)
    BY <2>3, CallFieldPairs, Zenon
  <2> HIDE DEF x
  <2>5. calls'[i] = x /\ calls' = [calls EXCEPT ![i] = calls'[i]]
    BY <2>2, FrameOf
  <2>6. IsCall(calls'[i]) /\ calls'[i].pc = "pull" /\ calls'[i].image = g
        /\ calls'[i].name = calls[i].name /\ calls'[i].quiet = calls[i].quiet
    BY <2>4, <2>5 DEF Changed, IsCall
  <2>7. CallInv(i)'
    BY <2>3, <2>6 DEF CallInv, Progress, Changing
  <2>8. UNCHANGED <<container, imageSpec, lock, pulled, usage>>
    BY DEF fetch, disk
  <2> QED
    BY <1>2, <2>5, <2>7, <2>8, OwnStep DEF StoreInv, QuietReadsFindPulled
<1> QED
  BY <1>1, <1>2, Zenon DEF fetch

(* What an undisturbed read finds, step by step, is the pulled image. *)
LEMMA QuietFile ==
  ASSUME StoreInv, NEW i \in Calls, calls[i].quiet
  PROVE  LET g == pulled[calls[i].name]
         IN  /\ calls[i].name \in Components /\ g \in Images
             /\ File(i) = Serialized(g)
             /\ imageSpec[calls[i].name] = <<Unit("spec", g)>>
             /\ calls[i].pc \in {"get_component", "get_metadata"} => calls[i].image = g
             /\ calls[i].pc = "get_metadata" => calls[i].component = Units("component", g)
<1>1. Undisturbed(calls[i])
  BY DEF StoreInv, CallInv
<1> QED
  BY <1>1 DEF Undisturbed, StoreInv, StoreTypeOK, FileInv, File

(* The steps of reads. *)
LEMMA Reads ==
  ASSUME StoreInv, NEW i \in Calls,
         get_length(i) \/ get_component(i) \/ get_metadata(i) \/ get_image(i)
  PROVE  StoreInv'
<1> DEFINE g == pulled[calls[i].name]
<1>0. UNCHANGED <<container, imageSpec, lock, pulled, usage>>
  BY DEF get_length, get_component, get_metadata, get_image, disk, history
<1>1. /\ IsCall(calls[i]) /\ calls[i].name \in Components
      /\ calls[i].quiet => Undisturbed(calls[i])
  BY DEF StoreInv, CallInv, get_length, get_component, get_metadata, get_image, At
<1>2. ASSUME NEW result, Return(i, result),
             calls[i].quiet => /\ result.status = "ok"
                               /\ result.component = g
                               /\ result.metadata \in {g, None}
      PROVE  StoreInv'
  BY <1>0, <1>2, Returned, OwnStep
<1>3. ASSUME NEW x, calls' = [calls EXCEPT ![i] = x], CallInv(i)', UNCHANGED reply
      PROVE  StoreInv'
  BY <1>0, <1>3, FrameOf, OwnStep DEF StoreInv, QuietReadsFindPulled
<1>4. calls[i].quiet => /\ g \in Images /\ File(i) = Serialized(g)
                        /\ imageSpec[calls[i].name] = <<Unit("spec", g)>>
                        /\ calls[i].pc \in {"get_component", "get_metadata"} => calls[i].image = g
                        /\ calls[i].pc = "get_metadata" => calls[i].component = Units("component", g)
  BY QuietFile
<1>5. CASE get_length(i)
  <2>1. CASE File(i) = <<>>
    <3>1. Return(i, Err) /\ ~ calls[i].quiet
      BY <1>4, <1>5, <2>1, ReadBack DEF get_length
    <3> QED
      BY <1>2, <3>1
  <2>2. CASE File(i) # <<>>
    <3> DEFINE h == File(i)[1].image
               x == [calls[i] EXCEPT !.pc = "get_component", !.image = h]
    <3>1. calls' = [calls EXCEPT ![i] = x] /\ UNCHANGED reply
      BY <1>5, <2>2, Zenon DEF get_length
    <3>2. x = Changed(calls[i], "get_component", h, calls[i].removed, calls[i].component, calls[i].quiet)
      BY <1>1, CallFieldPairs, Zenon
    <3>3. calls[i].quiet => h = g
      BY <1>4, ReadBack
    <3> HIDE DEF x, h
    <3>4. calls'[i] = x
      BY <3>1, FrameOf
    <3>5. IsCall(calls'[i]) /\ calls'[i].pc = "get_component" /\ calls'[i].image = h
          /\ calls'[i].name = calls[i].name /\ calls'[i].quiet = calls[i].quiet
          /\ calls'[i].removed = calls[i].removed
      BY <3>2, <3>4 DEF Changed, IsCall
    <3>6. CallInv(i)'
      BY <1>0, <1>1, <3>3, <3>5 DEF CallInv, Progress, Changing, Pulling, Undisturbed
    <3> QED
      BY <1>3, <3>1, <3>6
  <2> QED
    BY <2>1, <2>2
<1>6. CASE get_component(i)
  <2> DEFINE size == ComponentSize[calls[i].image]
  <2>1. CASE Len(File(i)) < 1 + size
    <3>1. Return(i, Err) /\ ~ calls[i].quiet
      BY <1>4, <1>6, <2>1, ReadBack DEF get_component, At
    <3> QED
      BY <1>2, <3>1
  <2>2. CASE ~ Len(File(i)) < 1 + size
    <3> DEFINE u == SubSeq(File(i), 2, 1 + size)
               x == [calls[i] EXCEPT !.pc = "get_metadata", !.component = u]
    <3>1. calls' = [calls EXCEPT ![i] = x] /\ UNCHANGED reply
      BY <1>6, <2>2, Zenon DEF get_component
    <3>2. x = Changed(calls[i], "get_metadata", calls[i].image, calls[i].removed, u, calls[i].quiet)
      BY <1>1, CallFieldPairs, Zenon
    <3>3. calls[i].quiet => u = Units("component", g) /\ calls[i].image = g
      BY <1>4, <1>6, ReadBack DEF get_component, At
    <3> HIDE DEF x, u
    <3>4. calls'[i] = x
      BY <3>1, FrameOf
    <3>5. IsCall(calls'[i]) /\ calls'[i].pc = "get_metadata" /\ calls'[i].component = u
          /\ calls'[i].name = calls[i].name /\ calls'[i].quiet = calls[i].quiet
          /\ calls'[i].removed = calls[i].removed /\ calls'[i].image = calls[i].image
      <4>1. x = [pc |-> "get_metadata", name |-> calls[i].name, image |-> calls[i].image,
                 removed |-> calls[i].removed, component |-> u, quiet |-> calls[i].quiet]
        BY <3>2 DEF Changed
      <4>2. IsCall(x) /\ x.pc = "get_metadata" /\ x.component = u /\ x.name = calls[i].name
        BY <4>1, Zenon DEF IsCall
      <4>3. x.quiet = calls[i].quiet /\ x.removed = calls[i].removed /\ x.image = calls[i].image
        BY <4>1, Zenon
      <4> QED
        BY <3>4, <4>2, <4>3, Zenon
    <3>6. CallInv(i)'
      BY <1>0, <1>1, <3>3, <3>5 DEF CallInv, Progress, Changing, Pulling, Undisturbed
    <3> QED
      BY <1>3, <3>1, <3>6
  <2> QED
    BY <2>1, <2>2
<1>7. CASE get_metadata(i)
  <2> DEFINE component == deserialize(calls[i].component)
             metadata == decode(SubSeq(File(i), 2 + ComponentSize[calls[i].image], Len(File(i))))
             result == IF component = None \/ metadata = None
                       THEN Err ELSE Result("ok", component, metadata)
  <2>1. Return(i, result)
    BY <1>7 DEF get_metadata
  <2>2. calls[i].quiet => component = g /\ metadata = g /\ g # None
    BY <1>4, <1>7, ReadBack, NotNone DEF get_metadata, At
  <2> HIDE DEF component, metadata
  <2>3. calls[i].quiet => /\ result.status = "ok"
                          /\ result.component = g
                          /\ result.metadata \in {g, None}
    BY <2>2 DEF Result
  <2> QED
    BY <1>2, <2>1, <2>3
<1>8. CASE get_image(i)
  <2> DEFINE spec == imageSpec[calls[i].name]
             result == IF spec = None THEN NotFound
                       ELSE Result("ok", IF spec = <<>> THEN "empty" ELSE spec[1].image, None)
  <2>1. Return(i, result)
    BY <1>8 DEF get_image
  <2>2. calls[i].quiet => spec # None /\ spec # <<>> /\ spec[1].image = g
    <3>1. calls[i].quiet => spec = <<Unit("spec", g)>> /\ spec # None
      BY <1>4, NotNone
    <3>2. <<Unit("spec", g)>> # <<>> /\ <<Unit("spec", g)>>[1].image = g
      BY DEF Unit
    <3> QED
      BY <3>1, <3>2
  <2>3. calls[i].quiet => /\ result.status = "ok"
                          /\ result.component = g
                          /\ result.metadata \in {g, None}
    BY <2>2 DEF Result
  <2> QED
    BY <1>2, <2>1, <2>3
<1> QED
  BY <1>5, <1>6, <1>7, <1>8

(* A component has finitely many directories. *)
LEMMA PathFinite ==
  ASSUME NEW name, NEW S \in SUBSET component_path(name)
  PROVE  IsFiniteSet(S) /\ Cardinality(S) \in Nat
<1>1. component_path(name) = ({SubSeq(name, 1, 1)} \cup {SubSeq(name, 1, 2)}) \cup {SubSeq(name, 1, 3)}
  <2>1. 1..3 = {1, 2, 3}
    OBVIOUS
  <2> QED
    BY <2>1, Zenon DEF component_path
<1>2. IsFiniteSet(component_path(name))
  <2>1. IsFiniteSet({SubSeq(name, 1, 1)})
    BY FS_Singleton
  <2>2. IsFiniteSet({SubSeq(name, 1, 1)} \cup {SubSeq(name, 1, 2)})
    BY <2>1, FS_AddElement
  <2> QED
    BY <1>1, <2>2, FS_AddElement
<1>3. IsFiniteSet(S)
  BY <1>2, FS_Subset
<1> QED
  BY <1>3, FS_CardinalityType

(* Pulls and removals take the mutex. *)
LEMMA Locks ==
  ASSUME StoreInv, NEW i \in Calls, pull_lock(i) \/ remove_lock(i)
  PROVE  StoreInv'
<1>1. CASE pull_lock(i)
  <2> DEFINE n == Cardinality(component_path(calls[i].name) \ dirs)
  <2>1. n \in Int
    BY PathFinite
  <2>2. /\ calls[i].pc = "pull" /\ Acquire(i, "create_container") /\ Count(0, n)
        /\ UNCHANGED <<container, imageSpec, reply>>
    BY <1>1 DEF pull_lock, At
  <2> HIDE DEF n
  <2>3. calls[i].name \in Components /\ calls[i].image \in Images
    BY <2>2 DEF StoreInv, CallInv, Progress, Pulling
  <2>4. usage' \in [bytes : 0..(U64 - 1), inodes : 0..(U64 - 1)]
    BY <2>1, <2>2, Counted
  <2> QED
    BY <2>2, <2>3, <2>4, AcquireStep
<1>2. CASE remove_lock(i)
  <2>1. /\ calls[i].pc = "remove" /\ Acquire(i, "remove_container")
        /\ UNCHANGED <<container, imageSpec, reply, usage>>
    BY <1>2 DEF remove_lock, At, disk
  <2>2. calls[i].name \in Components
    BY <2>1 DEF StoreInv, CallInv
  <2> QED
    BY <2>1, <2>2, AcquireStep DEF StoreInv, StoreTypeOK
<1> QED
  BY <1>1, <1>2

(* A pull or removal that ends, well or not, leaves files behind that are  *)
(* in order.                                                               *)
LEMMA ReleaseStep ==
  ASSUME StoreInv, NEW i \in Calls, NEW c \in Components, NEW result,
         calls[i].pc \in Changing, calls[i].name = c, Return(i, result),
         usage' \in [bytes : 0..(U64 - 1), inodes : 0..(U64 - 1)],
         lock' \in {None, Poisoned},
         container' = [container EXCEPT ![c] = container'[c]],
         imageSpec' = [imageSpec EXCEPT ![c] = imageSpec'[c]],
         pulled' = [pulled EXCEPT ![c] = pulled'[c]],
         pulled'[c] \in Images \cup {None},
         FileInv(c)'
  PROVE  StoreInv'
<1>1. ~ calls[i].quiet
  BY OnlyReadsAreQuiet DEF Changing
<1>2. /\ calls' = [j \in Calls |-> calls'[j]]
      /\ \A j \in Calls : j # i => calls'[j] = calls[j] /\ Kept(calls[j], calls'[j])
      /\ CallInv(i)'
      /\ QuietReadsFindPulled'
  BY <1>1, Returned
<1> QED
  BY <1>2, HolderStep

(* A pull or removal that goes on to its next step. *)
LEMMA GotoStep ==
  ASSUME StoreInv, NEW i \in Calls, NEW c \in Components, NEW g, NEW pc \in Changing,
         calls[i].pc \in Changing, calls[i].name = c, calls[i].image = g, Goto(i, pc),
         usage' \in [bytes : 0..(U64 - 1), inodes : 0..(U64 - 1)],
         UNCHANGED <<lock, pulled, reply>>,
         container' = [container EXCEPT ![c] = container'[c]],
         imageSpec' = [imageSpec EXCEPT ![c] = imageSpec'[c]],
         FileInv(c)', Progress(pc, c, g)'
  PROVE  StoreInv'
<1> DEFINE x == [calls[i] EXCEPT !.pc = pc]
<1>1. calls' = [calls EXCEPT ![i] = x]
  BY Zenon DEF Goto
<1>2. IsCall(calls[i]) /\ ~ calls[i].quiet /\ lock = i /\ pulled[c] = None
  BY OnlyReadsAreQuiet DEF StoreInv, CallInv, Changing
<1>3. x = Changed(calls[i], pc, calls[i].image, calls[i].removed, calls[i].component, calls[i].quiet)
  BY <1>2, CallFields, Zenon
<1> HIDE DEF x
<1>4. /\ calls'[i] = x
      /\ calls' = [j \in Calls |-> calls'[j]]
      /\ \A j \in Calls : j # i => calls'[j] = calls[j] /\ Kept(calls[j], calls'[j])
  BY <1>1, FrameOf
<1>5. IsCall(calls'[i]) /\ calls'[i].pc = pc /\ calls'[i].name = c /\ calls'[i].image = g
      /\ calls'[i].quiet = calls[i].quiet
  BY <1>3, <1>4 DEF Changed, IsCall
<1>6. Progress(calls[i].pc, calls[i].name, calls[i].image)'
  BY <1>5 DEF Progress
<1>7. CallInv(i)'
  BY <1>2, <1>5, <1>6 DEF CallInv
<1>8. QuietReadsFindPulled'
  BY DEF StoreInv, QuietReadsFindPulled
<1>9. pulled' = [pulled EXCEPT ![c] = pulled'[c]] /\ pulled'[c] \in Images \cup {None}
  BY DEF StoreInv, StoreTypeOK
<1> QED
  BY <1>2, <1>4, <1>7, <1>8, <1>9, HolderStep

(* What is known of the handler that pulls. *)
LEMMA Puller ==
  ASSUME StoreInv, NEW i \in Calls, calls[i].pc \in Pulling \ {"pull"}
  PROVE  \E c \in Components, g \in Images :
           /\ calls[i].name = c /\ calls[i].image = g /\ calls[i].pc \in Changing
           /\ pulled[c] = None /\ FileInv(c) /\ Progress(calls[i].pc, c, g)
           /\ container = [d \in Components |-> container[d]]
           /\ imageSpec = [d \in Components |-> imageSpec[d]]
           /\ pulled = [d \in Components |-> pulled[d]]
  BY DEF StoreInv, StoreTypeOK, CallInv, Progress, Changing, Pulling

(* Files are created empty. *)
LEMMA Creates ==
  ASSUME StoreInv, NEW i \in Calls, pull_create_container(i) \/ pull_create_spec(i)
  PROVE  StoreInv'
<1>1. calls[i].pc \in {"create_container", "create_spec"}
  BY DEF pull_create_container, pull_create_spec, At
<1>2. PICK c \in Components, g \in Images :
           /\ calls[i].name = c /\ calls[i].image = g /\ calls[i].pc \in Changing
           /\ pulled[c] = None /\ FileInv(c) /\ Progress(calls[i].pc, c, g)
           /\ container = [d \in Components |-> container[d]]
           /\ imageSpec = [d \in Components |-> imageSpec[d]]
  BY <1>1, Puller DEF Pulling
<1>3. ASSUME NEW n \in {0, 1}, Count(0, n)
      PROVE  usage' \in [bytes : 0..(U64 - 1), inodes : 0..(U64 - 1)]
  BY <1>3, Counted
<1>4. CASE pull_create_container(i)
  <2>1. /\ container' = [container EXCEPT ![c] = <<>>]
        /\ Goto(i, "create_spec")
        /\ Count(0, IF container[c] = None THEN 1 ELSE 0)
        /\ UNCHANGED <<imageSpec, lock, reply, pulled>>
    BY <1>2, <1>4 DEF pull_create_container
  <2>2. usage' \in [bytes : 0..(U64 - 1), inodes : 0..(U64 - 1)]
    BY <1>3, <2>1
  <2>3. /\ container' = [container EXCEPT ![c] = container'[c]]
        /\ imageSpec' = [imageSpec EXCEPT ![c] = imageSpec'[c]]
        /\ container'[c] = <<>>
    BY <1>2, <2>1
  <2>4. FileInv(c)'
    BY <1>2, <2>1, <2>3, WholeFile DEF FileInv
  <2>5. Progress("create_spec", c, g)'
    BY <2>3 DEF Progress
  <2> QED
    BY <1>2, <2>1, <2>2, <2>3, <2>4, <2>5, GotoStep DEF Changing
<1>5. CASE pull_create_spec(i)
  <2>1. /\ imageSpec' = [imageSpec EXCEPT ![c] = <<>>]
        /\ Goto(i, "length")
        /\ Count(0, IF imageSpec[c] = None THEN 1 ELSE 0)
        /\ UNCHANGED <<container, lock, reply, pulled>>
        /\ calls[i].pc = "create_spec"
    BY <1>2, <1>5 DEF pull_create_spec, At
  <2>2. usage' \in [bytes : 0..(U64 - 1), inodes : 0..(U64 - 1)]
    BY <1>3, <2>1
  <2>3. /\ container' = [container EXCEPT ![c] = container'[c]]
        /\ imageSpec' = [imageSpec EXCEPT ![c] = imageSpec'[c]]
        /\ container'[c] = <<>> /\ imageSpec'[c] = <<>>
    BY <1>2, <2>1 DEF Progress
  <2>4. FileInv(c)'
    BY <1>2, <2>1, <2>3 DEF FileInv
  <2>5. Progress("length", c, g)'
    BY <2>3, WholeFile DEF Progress
  <2> QED
    BY <1>2, <2>1, <2>2, <2>3, <2>4, <2>5, GotoStep DEF Changing
<1> QED
  BY <1>4, <1>5

(* Parts are written, or a write stops half way. *)
LEMMA Writes ==
  ASSUME StoreInv, NEW i \in Calls, pull_write(i) \/ pull_write_fails(i)
  PROVE  StoreInv'
<1>1. calls[i].pc \in {"length", "component", "metadata"}
  BY DEF pull_write, pull_write_fails
<1>2. PICK c \in Components, g \in Images :
           /\ calls[i].name = c /\ calls[i].image = g /\ calls[i].pc \in Changing
           /\ pulled[c] = None /\ FileInv(c) /\ Progress(calls[i].pc, c, g)
           /\ container = [d \in Components |-> container[d]]
           /\ imageSpec = [d \in Components |-> imageSpec[d]]
           /\ pulled = [d \in Components |-> pulled[d]]
  BY <1>1, Puller DEF Pulling
<1>3. PICK part \in {"length", "component", "metadata"} : calls[i].pc = part
  BY <1>1
<1> DEFINE units == Units(part, g)
<1>4. container[c] = SubSeq(Serialized(g), 1, Offset(part, g)) /\ imageSpec[c] = <<>>
  BY <1>2, <1>3 DEF Progress
<1>5. Len(units) \in Nat
  BY UnitsAre, LenProperties
<1>6. CASE pull_write(i)
  <2>1. /\ container' = [container EXCEPT ![c] = container[c] \o units]
        /\ Count(Len(units), 0)
        /\ Goto(i, NextPart(part))
        /\ UNCHANGED <<imageSpec, lock, reply, pulled>>
    BY <1>2, <1>3, <1>6 DEF pull_write, history
  <2>2. /\ container'[c] = SubSeq(Serialized(g), 1, Offset(NextPart(part), g))
        /\ container'[c] \in Beginnings(g)
    <3>0. 0 \in 0..Len(Units(part, g))
      BY <1>5
    <3>1. container[c] \o units = SubSeq(Serialized(g), 1, Offset(NextPart(part), g))
      BY <1>4, <3>0, PartWritten, Zenon
    <3>2. /\ Offset(NextPart(part), g) \in Int /\ 0 <= Offset(NextPart(part), g)
          /\ Offset(NextPart(part), g) <= Len(Serialized(g))
      <4>1. /\ Offset(part, g) \in 0..Len(Serialized(g))
            /\ Offset(part, g) + Len(units) = Offset(NextPart(part), g)
            /\ Offset(NextPart(part), g) <= Len(Serialized(g))
        BY PartPlaced
      <4> QED
        BY <1>5, <4>1
    <3>3. Len(Serialized(g)) \in Nat
      BY SerializedIs, LenProperties
    <3> QED
      BY <1>2, <2>1, <3>1, <3>2, <3>3 DEF Beginnings
  <2> HIDE DEF units
  <2>3. usage' \in [bytes : 0..(U64 - 1), inodes : 0..(U64 - 1)]
    <3> DEFINE n == Len(units)
    <3>1. n \in Int /\ 0 \in Int /\ Count(n, 0)
      BY <1>5, <2>1
    <3> HIDE DEF n
    <3> QED
      BY <3>1, Counted
  <2>4. /\ container' = [container EXCEPT ![c] = container'[c]]
        /\ imageSpec' = [imageSpec EXCEPT ![c] = imageSpec'[c]]
    BY <1>2, <2>1
  <2>5. FileInv(c)'
    BY <1>2, <2>1, <2>2 DEF FileInv
  <2>6. NextPart(part) \in {"component", "metadata", "spec"}
    BY DEF NextPart
  <2>7. Progress(NextPart(part), c, g)'
    BY <1>4, <2>1, <2>2, <2>6 DEF Progress
  <2>8. PICK next \in Changing : next = NextPart(part)
    BY <2>6 DEF Changing
  <2>9. Goto(i, next) /\ Progress(next, c, g)'
    BY <2>1, <2>7, <2>8
  <2> QED
    BY <1>2, <2>1, <2>3, <2>4, <2>5, <2>9, GotoStep
<1>7. CASE pull_write_fails(i)
  <2>1. /\ Return(i, Err) /\ lock' = None
        /\ UNCHANGED <<imageSpec, usage, pulled>>
    BY <1>7 DEF pull_write_fails, Release
  <2>2. PICK k \in 0..(Len(units) - 1) :
          container' = [container EXCEPT ![c] = container[c] \o SubSeq(units, 1, k)]
    BY <1>2, <1>3, <1>7 DEF pull_write_fails
  <2>3. container'[c] \in Beginnings(g)
    <3>1. k \in 0..Len(units)
      BY <1>5
    <3> QED
      BY <1>2, <1>4, <2>2, <3>1, PartWritten
  <2> HIDE DEF units
  <2>4. /\ container' = [container EXCEPT ![c] = container'[c]]
        /\ imageSpec' = [imageSpec EXCEPT ![c] = imageSpec'[c]]
        /\ pulled' = [pulled EXCEPT ![c] = pulled'[c]] /\ pulled'[c] = None
    BY <1>2, <2>1, <2>2
  <2>5. FileInv(c)'
    BY <1>2, <2>1, <2>3 DEF FileInv
  <2> QED
    BY <1>2, <2>1, <2>4, <2>5, ReleaseStep DEF StoreInv, StoreTypeOK
<1> QED
  BY <1>6, <1>7

(* The image spec, and the end of a pull. *)
LEMMA Finishes ==
  ASSUME StoreInv, NEW i \in Calls,
         \/ pull_write_spec(i) \/ pull_sync(i) \/ pull_create_fails(i) \/ pull_sync_fails(i)
  PROVE  StoreInv'
<1>1. calls[i].pc \in {"create_container", "create_spec", "spec", "sync"}
  BY DEF pull_write_spec, pull_sync, pull_create_fails, pull_sync_fails, At
<1>2. PICK c \in Components, g \in Images :
           /\ calls[i].name = c /\ calls[i].image = g /\ calls[i].pc \in Changing
           /\ pulled[c] = None /\ FileInv(c) /\ Progress(calls[i].pc, c, g)
           /\ container = [d \in Components |-> container[d]]
           /\ imageSpec = [d \in Components |-> imageSpec[d]]
           /\ pulled = [d \in Components |-> pulled[d]]
  BY <1>1, Puller DEF Pulling
<1>3. CASE pull_write_spec(i)
  <2>1. /\ imageSpec' = [imageSpec EXCEPT ![c] = imageSpec[c] \o <<Unit("spec", g)>>]
        /\ Count(1, 0)
        /\ Goto(i, "sync")
        /\ UNCHANGED <<container, lock, reply, pulled>>
        /\ calls[i].pc = "spec"
    BY <1>2, <1>3 DEF pull_write_spec, history, At
  <2>2. container[c] = Serialized(g) /\ imageSpec[c] = <<>>
    BY <1>2, <2>1, WholeFile DEF Progress
  <2>3. imageSpec[c] \o <<Unit("spec", g)>> = <<Unit("spec", g)>>
    <3>1. <<Unit("spec", g)>> \in Seq(AllUnits)
      BY DEF Unit, AllUnits
    <3> QED
      BY <2>2, <3>1, ConcatEmptySeq
  <2>4. usage' \in [bytes : 0..(U64 - 1), inodes : 0..(U64 - 1)]
    BY <2>1, Counted
  <2>5. /\ container' = [container EXCEPT ![c] = container'[c]]
        /\ imageSpec' = [imageSpec EXCEPT ![c] = imageSpec'[c]]
        /\ imageSpec'[c] = <<Unit("spec", g)>>
    BY <1>2, <2>1, <2>3
  <2>6. FileInv(c)'
    BY <1>2, <2>1, <2>5 DEF FileInv
  <2>7. Progress("sync", c, g)'
    BY <2>1, <2>2, <2>5 DEF Progress
  <2> QED
    BY <1>2, <2>1, <2>4, <2>5, <2>6, <2>7, GotoStep DEF Changing
<1>4. CASE pull_sync(i)
  <2>1. /\ pulled' = [pulled EXCEPT ![c] = g]
        /\ Return(i, Ok) /\ lock' = None
        /\ UNCHANGED <<container, imageSpec, usage>>
        /\ calls[i].pc = "sync"
    BY <1>2, <1>4 DEF pull_sync, Release, At, disk
  <2>2. container[c] = Serialized(g) /\ imageSpec[c] = <<Unit("spec", g)>>
    BY <1>2, <2>1 DEF Progress
  <2>3. /\ container' = [container EXCEPT ![c] = container'[c]]
        /\ imageSpec' = [imageSpec EXCEPT ![c] = imageSpec'[c]]
        /\ pulled' = [pulled EXCEPT ![c] = pulled'[c]] /\ pulled'[c] = g
    BY <1>2, <2>1
  <2>4. FileInv(c)'
    BY <1>2, <2>1, <2>2, <2>3 DEF FileInv
  <2> QED
    BY <1>2, <2>1, <2>3, <2>4, ReleaseStep DEF StoreInv, StoreTypeOK
<1>5. CASE pull_create_fails(i) \/ pull_sync_fails(i)
  <2>1. /\ Return(i, Err) /\ lock' = None
        /\ UNCHANGED <<container, imageSpec, usage, pulled>>
    BY <1>5 DEF pull_create_fails, pull_sync_fails, Release, disk, history
  <2>2. /\ container' = [container EXCEPT ![c] = container'[c]]
        /\ imageSpec' = [imageSpec EXCEPT ![c] = imageSpec'[c]]
        /\ pulled' = [pulled EXCEPT ![c] = pulled'[c]] /\ pulled'[c] = None
    BY <1>2, <2>1
  <2>3. FileInv(c)'
    BY <1>2, <2>1 DEF FileInv
  <2> QED
    BY <1>2, <2>1, <2>2, <2>3, ReleaseStep DEF StoreInv, StoreTypeOK
<1> QED
  BY <1>3, <1>4, <1>5

(* Every file has a size. *)
LEMMA Sizes ==
  ASSUME StoreInv, NEW c \in Components
  PROVE  Size(container[c]) \in Nat /\ Size(imageSpec[c]) \in Nat
<1>1. FileInv(c)
  BY DEF StoreInv
<1>2. Size(container[c]) \in Nat
  <2>1. CASE container[c] # None
    <3>1. PICK g \in Images : container[c] \in Beginnings(g)
      BY <1>1, <2>1 DEF FileInv
    <3>2. PICK k \in 0..Len(Serialized(g)) : container[c] = SubSeq(Serialized(g), 1, k)
      BY <3>1 DEF Beginnings
    <3>3. Len(container[c]) = k /\ k \in Nat
      BY <3>2, SerializedIs, Beginning
    <3> QED
      BY <2>1, <3>3 DEF Size
  <2>2. CASE container[c] = None
    BY <2>2 DEF Size
  <2> QED
    BY <2>1, <2>2
<1>3. Size(imageSpec[c]) \in Nat
  BY <1>1 DEF FileInv, Size
<1> QED
  BY <1>2, <1>3

(* Counters stay words even when a removal panics in between. *)
LEMMA CountedUntilPanic ==
  ASSUME StoreInv, NEW bytes \in Nat, CountUntilPanic(bytes)
  PROVE  usage' \in [bytes : 0..(U64 - 1), inodes : 0..(U64 - 1)]
<1>1. usage \in [bytes : 0..(U64 - 1), inodes : 0..(U64 - 1)] /\ U64 \in Nat
  BY StoreAssumption DEF StoreInv, StoreTypeOK
<1>2. (IF usage.bytes < bytes THEN usage.bytes ELSE usage.bytes - bytes) \in 0..(U64 - 1)
  BY <1>1
<1> QED
  BY <1>1, <1>2 DEF CountUntilPanic

(* A reader whose file is removed keeps all it knows. *)
LEMMA Detached ==
  ASSUME StoreInv, NEW c, NEW j \in Calls
  PROVE  /\ Kept(calls[j], Detach(c)[j])
         /\ calls[j].name # c => Detach(c)[j] = calls[j]
         /\ calls[j].pc \in Changing => Detach(c)[j] = calls[j]
<1> DEFINE x == calls[j]
           y == [x EXCEPT !.removed = container[c]]
<1>1. IsCall(x)
  BY DEF StoreInv, CallInv
<1>2. y = Changed(x, x.pc, x.image, container[c], x.component, x.quiet)
  BY <1>1, CallFields, Zenon
<1> HIDE DEF y
<1>3. Kept(x, y) /\ Kept(x, x)
  BY <1>1, <1>2 DEF Kept, Changed, IsCall
<1>4. Detach(c)[j] = IF x.name = c /\ x.pc \in {"get_length", "get_component", "get_metadata"}
                          /\ x.removed = None
                     THEN y ELSE x
  BY Zenon DEF Detach, y
<1> QED
  BY <1>3, <1>4 DEF Changing

(* What is known of the handler that removes. *)
LEMMA Remover ==
  ASSUME StoreInv, NEW i \in Calls,
         calls[i].pc \in {"remove_container", "remove_spec", "remove_dirs"}
  PROVE  \E c \in Components :
           /\ calls[i].name = c /\ calls[i].pc \in Changing /\ lock = i
           /\ pulled[c] = None /\ FileInv(c)
           /\ container = [d \in Components |-> container[d]]
           /\ imageSpec = [d \in Components |-> imageSpec[d]]
           /\ pulled = [d \in Components |-> pulled[d]]
  BY DEF StoreInv, StoreTypeOK, CallInv, Changing

(* The container file is removed, and counting it may panic. *)
LEMMA RemovesContainer ==
  ASSUME StoreInv, NEW i \in Calls, remove_container(i)
  PROVE  StoreInv'
<1>1. PICK c \in Components :
           /\ calls[i].name = c /\ calls[i].pc \in Changing /\ lock = i
           /\ pulled[c] = None /\ FileInv(c)
           /\ container = [d \in Components |-> container[d]]
           /\ imageSpec = [d \in Components |-> imageSpec[d]]
           /\ pulled = [d \in Components |-> pulled[d]]
  BY Remover DEF remove_container, At
<1> DEFINE size == Size(container[c])
           D == Detach(c)
<1>2. /\ container' = [container EXCEPT ![c] = None]
      /\ UNCHANGED <<imageSpec, pulled>>
  BY <1>1 DEF remove_container, history
<1>3. \/ /\ lock' = Poisoned /\ calls' = [D EXCEPT ![i] = Idle] /\ Reply(c, FALSE, Err)
         /\ CountUntilPanic(size)
      \/ /\ calls' = [D EXCEPT ![i].pc = "remove_spec"] /\ Count(- size, -1)
         /\ UNCHANGED <<lock, reply>>
  <2>1. IF Underflow(size, 1)
         THEN /\ lock' = Poisoned
              /\ calls' = [D EXCEPT ![i] = Idle]
              /\ Reply(c, FALSE, Err)
              /\ CountUntilPanic(size)
         ELSE /\ calls' = [D EXCEPT ![i].pc = "remove_spec"]
              /\ Count(- size, -1)
              /\ UNCHANGED <<lock, reply>>
    BY <1>1, Zenon DEF remove_container
  <2> QED
    BY <2>1, Zenon
<1>4. size \in Nat
  BY Sizes
<1>5. /\ D = [j \in Calls |-> D[j]] /\ D[i] = calls[i]
      /\ \A j \in Calls : Kept(calls[j], D[j]) /\ (calls[j].name # c => D[j] = calls[j])
  <2>1. D = [j \in Calls |-> D[j]]
    BY DEF Detach
  <2> QED
    BY <1>1, <2>1, Detached
<1> HIDE DEF size, D
<1>6. /\ container' = [container EXCEPT ![c] = container'[c]]
      /\ imageSpec' = [imageSpec EXCEPT ![c] = imageSpec'[c]]
      /\ pulled' = [pulled EXCEPT ![c] = pulled'[c]] /\ pulled'[c] = None
      /\ container'[c] = None
  BY <1>1, <1>2
<1>7. FileInv(c)'
  BY <1>1, <1>2, <1>6 DEF FileInv
<1>8. usage' \in [bytes : 0..(U64 - 1), inodes : 0..(U64 - 1)]
  <2>1. CASE CountUntilPanic(size)
    BY <1>4, <2>1, CountedUntilPanic
  <2>2. CASE Count(- size, -1)
    <3>1. PICK b \in Int : b = - size
      BY <1>4
    <3> QED
      BY <2>2, <3>1, Counted
  <2> QED
    BY <1>3, <2>1, <2>2
<1>9. CASE calls' = [D EXCEPT ![i] = Idle] /\ Reply(c, FALSE, Err) /\ lock' = Poisoned
  <2>1. calls'[i] = Idle /\ calls' = [j \in Calls |-> calls'[j]]
        /\ \A j \in Calls : j # i => calls'[j] = D[j]
    BY <1>5, <1>9
  <2>2. CallInv(i)'
    BY <2>1, FreshCall DEF Idle
  <2>3. QuietReadsFindPulled'
    BY <1>9 DEF Reply, QuietReadsFindPulled
  <2> QED
    BY <1>1, <1>5, <1>6, <1>7, <1>8, <1>9, <2>1, <2>2, <2>3, HolderStep
<1>10. CASE calls' = [D EXCEPT ![i].pc = "remove_spec"] /\ UNCHANGED <<lock, reply>>
  <2> DEFINE x == [calls[i] EXCEPT !.pc = "remove_spec"]
  <2>1. calls' = [D EXCEPT ![i] = x]
    BY <1>5, <1>10, Zenon
  <2>2. IsCall(calls[i]) /\ ~ calls[i].quiet
    BY <1>1, OnlyReadsAreQuiet DEF StoreInv, CallInv, Changing
  <2>3. x = Changed(calls[i], "remove_spec", calls[i].image, calls[i].removed, calls[i].component, calls[i].quiet)
    BY <2>2, CallFields, Zenon
  <2> HIDE DEF x
  <2>4. calls'[i] = x /\ calls' = [j \in Calls |-> calls'[j]]
        /\ \A j \in Calls : j # i => calls'[j] = D[j]
    BY <1>5, <2>1
  <2>5. IsCall(calls'[i]) /\ calls'[i].pc = "remove_spec" /\ calls'[i].name = c
        /\ calls'[i].quiet = calls[i].quiet
    BY <1>1, <2>3, <2>4 DEF Changed, IsCall
  <2>6. CallInv(i)'
    BY <1>1, <1>6, <1>10, <2>2, <2>5 DEF CallInv, Progress, Pulling
  <2>7. QuietReadsFindPulled'
    BY <1>10 DEF StoreInv, QuietReadsFindPulled
  <2> QED
    BY <1>1, <1>5, <1>6, <1>7, <1>8, <1>10, <2>4, <2>6, <2>7, HolderStep
<1> QED
  BY <1>3, <1>9, <1>10

(* The image spec and the empty directories are removed. *)
LEMMA RemovesRest ==
  ASSUME StoreInv, NEW i \in Calls, remove_spec(i) \/ remove_fails(i) \/ remove_dirs(i)
  PROVE  StoreInv'
<1>1. PICK c \in Components :
           /\ calls[i].name = c /\ calls[i].pc \in Changing /\ lock = i
           /\ pulled[c] = None /\ FileInv(c)
           /\ container = [d \in Components |-> container[d]]
           /\ imageSpec = [d \in Components |-> imageSpec[d]]
           /\ pulled = [d \in Components |-> pulled[d]]
  BY Remover DEF remove_spec, remove_fails, remove_dirs, At
<1>2. UNCHANGED <<container, pulled>>
  BY DEF remove_spec, remove_fails, remove_dirs, disk, history
<1>3. /\ container' = [container EXCEPT ![c] = container'[c]]
      /\ pulled' = [pulled EXCEPT ![c] = pulled'[c]] /\ pulled'[c] = None
  BY <1>1, <1>2
<1>4. CASE remove_spec(i)
  <2> DEFINE size == Size(imageSpec[c])
  <2>1. /\ imageSpec' = [imageSpec EXCEPT ![c] = None]
        /\ \/ lock' = Poisoned /\ Return(i, Err) /\ CountUntilPanic(size)
           \/ Count(- size, -1) /\ Goto(i, "remove_dirs") /\ UNCHANGED <<lock, reply>>
    BY <1>1, <1>4 DEF remove_spec, Panic
  <2>2. size \in Nat
    BY Sizes
  <2> HIDE DEF size
  <2>3. imageSpec' = [imageSpec EXCEPT ![c] = imageSpec'[c]] /\ imageSpec'[c] = None
    BY <1>1, <2>1
  <2>4. FileInv(c)'
    BY <1>1, <1>2, <2>3 DEF FileInv
  <2>5. CASE lock' = Poisoned /\ Return(i, Err) /\ CountUntilPanic(size)
    <3>1. usage' \in [bytes : 0..(U64 - 1), inodes : 0..(U64 - 1)]
      BY <2>2, <2>5, CountedUntilPanic
    <3> QED
      BY <1>1, <1>3, <2>3, <2>4, <2>5, <3>1, ReleaseStep
  <2>6. CASE Count(- size, -1) /\ Goto(i, "remove_dirs") /\ UNCHANGED <<lock, reply>>
    <3>1. PICK n \in Int : n = - size
      BY <2>2
    <3>2. usage' \in [bytes : 0..(U64 - 1), inodes : 0..(U64 - 1)]
      BY <2>6, <3>1, Counted
    <3>3. PICK g : calls[i].image = g
      OBVIOUS
    <3>4. Progress("remove_dirs", c, g)'
      BY DEF Progress, Pulling
    <3> QED
      BY <1>1, <1>2, <1>3, <2>3, <2>4, <2>6, <3>2, <3>3, <3>4, GotoStep DEF Changing
  <2> QED
    BY <2>1, <2>5, <2>6
<1>5. CASE remove_fails(i)
  <2>1. Return(i, Err) /\ lock' = None /\ UNCHANGED <<imageSpec, usage>>
    BY <1>5 DEF remove_fails, Release, disk
  <2>2. imageSpec' = [imageSpec EXCEPT ![c] = imageSpec'[c]] /\ FileInv(c)'
    BY <1>1, <1>2, <2>1 DEF FileInv
  <2> QED
    BY <1>1, <1>3, <2>1, <2>2, ReleaseStep DEF StoreInv, StoreTypeOK
<1>6. CASE remove_dirs(i)
  <2>1. PICK S \in SUBSET component_path(calls[i].name) :
          \/ lock' = Poisoned /\ Return(i, Err) /\ Count(0, - usage.inodes)
          \/ lock' = None /\ Return(i, Ok) /\ Count(0, - Cardinality(S))
    BY <1>6 DEF remove_dirs, Panic, Release, EmptyDirs
  <2>2. Cardinality(S) \in Nat
    BY PathFinite
  <2>3. usage.inodes \in Int
    BY StoreAssumption DEF StoreInv, StoreTypeOK
  <2>4. PICK n \in Int : Count(0, n)
    BY <2>1, <2>2, <2>3
  <2>5. usage' \in [bytes : 0..(U64 - 1), inodes : 0..(U64 - 1)]
    BY <2>4, Counted
  <2>6. imageSpec' = [imageSpec EXCEPT ![c] = imageSpec'[c]] /\ FileInv(c)'
    BY <1>1, <1>2, <1>6 DEF FileInv, remove_dirs
  <2> QED
    BY <1>1, <1>3, <2>1, <2>5, <2>6, ReleaseStep
<1> QED
  BY <1>4, <1>5, <1>6

(* After a restart the files are what they were, and nobody works on them. *)
LEMMA Restarts ==
  ASSUME StoreInv, restart
  PROVE  StoreInv'
<1>1. calls' = [i \in Calls |-> Idle] /\ lock' = None /\ reply' = None
      /\ usage' = [bytes |-> 0, inodes |-> 0] /\ UNCHANGED <<container, imageSpec, pulled>>
  BY DEF restart, disk
<1> HIDE DEF Idle
<1>2. calls' = [i \in Calls |-> calls'[i]] /\ \A i \in Calls : calls'[i] = Idle
  BY <1>1
<1>3. \A i \in Calls : CallInv(i)'
  BY <1>2, FreshCall DEF Idle
<1>4. usage' \in [bytes : 0..(U64 - 1), inodes : 0..(U64 - 1)]
  BY <1>1, StoreAssumption
<1>5. StoreTypeOK'
  BY <1>1, <1>3, <1>4 DEF StoreInv, StoreTypeOK, CallInv
<1>6. \A c \in Components : FileInv(c)'
  BY <1>1 DEF StoreInv, FileInv
<1> QED
  BY <1>1, <1>2, <1>3, <1>5, <1>6 DEF StoreInv, QuietReadsFindPulled

(* An empty store is in order. *)
LEMMA InitStore == Init => StoreInv
<1> SUFFICES ASSUME Init PROVE StoreInv
  OBVIOUS
<1>1. \A i \in Calls : CallInv(i)
  BY DEF Init, CallInv, IsCall, Idle, Handler, Progress, Pulling, Changing
<1>2. StoreTypeOK
  <2>1. usage \in [bytes : 0..U64 - 1, inodes : 0..U64 - 1]
    BY StoreAssumption DEF Init
  <2>2. lock = None /\ pulled \in [Components -> Images \cup {None}]
    BY DEF Init
  <2>3. \A i \in Calls : calls[i].pc = "idle"
    BY DEF Init, Idle, Handler
  <2> QED
    BY <2>1, <2>2, <2>3 DEF StoreTypeOK, Changing
<1>3. \A c \in Components : FileInv(c)
  BY DEF Init, FileInv
<1> QED
  BY <1>1, <1>2, <1>3 DEF Init, StoreInv, QuietReadsFindPulled

(* Every step of every handler keeps the store in order. *)
LEMMA NextStore == StoreInv /\ [Next]_vars => StoreInv'
<1> SUFFICES ASSUME StoreInv, [Next]_vars PROVE StoreInv'
  OBVIOUS
<1>1. CASE UNCHANGED vars
  BY <1>1, StillStep DEF vars, disk, history, StoreInv, QuietReadsFindPulled
<1>2. CASE restart
  BY <1>2, Restarts
<1>3. CASE \E i \in Calls :
       \/ pull_image(i) \/ fetch(i) \/ pull_lock(i) \/ pull_create_container(i)
       \/ pull_create_spec(i) \/ pull_write(i) \/ pull_write_spec(i)
       \/ pull_sync(i) \/ pull_lock_fails(i) \/ pull_create_fails(i)
       \/ pull_write_fails(i) \/ pull_sync_fails(i)
       \/ remove_image(i) \/ remove_lock(i) \/ remove_container(i)
       \/ remove_spec(i) \/ remove_fails(i) \/ remove_dirs(i)
       \/ get(i) \/ get_length(i) \/ get_component(i) \/ get_metadata(i)
       \/ image_status(i) \/ get_image(i) \/ list_images(i)
       \/ image_fs_info(i) \/ filesystem_usage(i)
       \/ lock_poisoned(i) \/ cancel(i)
  BY <1>3, Starts, Fetches, Locks, Creates, Writes, Finishes, Refusals, RemovesContainer,
     RemovesRest, Reads
<1> QED
  BY <1>1, <1>2, <1>3 DEF Next

(* The inductive invariant of the store. *)
LEMMA StoreCorrect == Spec => []StoreInv
  BY InitStore, NextStore, PTL DEF Spec

(* The counters of FilesystemUsage stay words, and whoever changes files   *)
(* holds the usage mutex, for any number of handlers and images and all    *)
(* faults.                                                                 *)
THEOREM StoreTypes == Spec => []StoreTypeOK
<1>1. StoreInv => StoreTypeOK
  BY DEF StoreInv
<1> QED
  BY <1>1, StoreCorrect, PTL

(* However pulls, removals, failed writes and restarts interleave, a       *)
(* container file is a beginning of one image, and after a successful pull *)
(* the whole of it until the next pull or removal.                         *)
THEOREM OneImage == Spec => []FilesHoldOneImage
<1>1. StoreInv => FilesHoldOneImage
  <2> SUFFICES ASSUME StoreInv, NEW c \in Components
               PROVE  /\ container[c] # None => \E g \in Images : IsPrefix(container[c], Serialized(g))
                      /\ pulled[c] # None => container[c] = Serialized(pulled[c])
    BY DEF FilesHoldOneImage
  <2>1. FileInv(c)
    BY DEF StoreInv
  <2> QED
    BY <2>1, BeginningsArePrefixes DEF FileInv
<1> QED
  BY <1>1, StoreCorrect, PTL

(* get and image_status take no lock; still, a read that no pull or        *)
(* removal of its image overlaps finds exactly what the last successful    *)
(* pull stored.                                                            *)
THEOREM QuietReads == Spec => []QuietReadsFindPulled
<1>1. StoreInv => QuietReadsFindPulled
  BY DEF StoreInv
<1> QED
  BY <1>1, StoreCorrect, PTL
=============================================================================

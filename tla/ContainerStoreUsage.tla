------------------------ MODULE ContainerStoreUsage ------------------------
(***************************************************************************)
(* Why FilesystemUsage counts what is on disk until something happens that *)
(* it cannot follow: every step that changes a file or a directory changes *)
(* a counter by the same amount, whatever else is on the disk.             *)
(***************************************************************************)
EXTENDS ContainerStoreFiles

-----------------------------------------------------------------------------
(* Arithmetic of words *)

(* Division with remainder. *)
LEMMA DivMod ==
  ASSUME NEW a \in Int, NEW u \in Nat \ {0}
  PROVE  a % u \in 0..(u - 1) /\ a \div u \in Int /\ a = u * (a \div u) + (a % u)
  OBVIOUS

(* The remainder is the only one. *)
LEMMA ModUnique ==
  ASSUME NEW a \in Int, NEW u \in Nat \ {0}, NEW q \in Int, NEW r \in 0..(u - 1),
         a = u * q + r
  PROVE  a % u = r
<1>1. PICK p \in Int, s \in 0..(u - 1) : a = u * p + s /\ s = a % u
  BY DivMod
<1>2. u * (q - p) = s - r
  BY <1>1
<1>3. q - p >= 1 => u * (q - p) >= u
  OBVIOUS
<1>4. q - p <= -1 => u * (q - p) <= -u
  OBVIOUS
<1>5. q = p
  BY <1>2, <1>3, <1>4
<1>6. s = r
  BY <1>2, <1>5
<1> QED
  BY <1>1, <1>6

(* Words may be reduced before they are added to. *)
LEMMA ModAdd ==
  ASSUME NEW x \in Int, NEW k \in Int, NEW u \in Nat \ {0}
  PROVE  ((x % u) + k) % u = (x + k) % u
<1>1. PICK p \in Int, s \in 0..(u - 1) : x = u * p + s /\ s = x % u
  BY DivMod
<1>2. PICK q \in Int, r \in 0..(u - 1) : s + k = u * q + r /\ r = (s + k) % u
  <2>1. s + k \in Int
    BY <1>1
  <2> QED
    BY <2>1, DivMod
<1>3. x + k = u * (p + q) + r
  <2>1. u * (p + q) = u * p + u * q
    OBVIOUS
  <2> QED
    BY <1>1, <1>2, <2>1
<1>4. (x + k) % u = r
  <2>1. x + k \in Int /\ p + q \in Int
    OBVIOUS
  <2> QED
    BY <1>3, <2>1, ModUnique
<1> QED
  BY <1>1, <1>2, <1>4

(* A number that fits a word is its own remainder. *)
LEMMA ModSmall ==
  ASSUME NEW x \in Nat, NEW u \in Nat \ {0}, x < u
  PROVE  x % u = x
<1>1. x = u * 0 + x /\ x \in 0..(u - 1) /\ x \in Int
  OBVIOUS
<1> QED
  BY <1>1, ModUnique

-----------------------------------------------------------------------------
(* Counting what is on disk *)

(* The bytes of one file. *)
LEMMA OneFile ==
  ASSUME NEW c, NEW n \in Nat
  PROVE  IsFiniteSet({c} \X (1..n)) /\ Cardinality({c} \X (1..n)) = n
<1>1. IsFiniteSet({c}) /\ Cardinality({c}) = 1
  BY FS_Singleton
<1>2. IsFiniteSet(1..n) /\ Cardinality(1..n) = n
  BY FS_Interval
<1>3. IsFiniteSet({c} \X (1..n)) /\ Cardinality({c} \X (1..n)) = Cardinality({c}) * Cardinality(1..n)
  BY <1>1, <1>2, FS_Product
<1>4. Cardinality({c} \X (1..n)) = 1 * n
  BY <1>1, <1>2, <1>3, Zenon
<1> QED
  BY <1>3, <1>4

(* Two disjoint sets are counted one after the other. *)
LEMMA DisjointUnion ==
  ASSUME NEW S, NEW T, IsFiniteSet(S), IsFiniteSet(T), S \cap T = {}
  PROVE  /\ IsFiniteSet(S \cup T)
         /\ Cardinality(S \cup T) = Cardinality(S) + Cardinality(T)
         /\ Cardinality(S) \in Nat /\ Cardinality(T) \in Nat
<1>1. /\ IsFiniteSet(S \cup T)
      /\ Cardinality(S \cup T) = Cardinality(S) + Cardinality(T) - Cardinality(S \cap T)
  BY FS_Union
<1>2. Cardinality(S \cap T) = 0
  BY FS_EmptySet, Zenon
<1>3. Cardinality(S) \in Nat /\ Cardinality(T) \in Nat
  BY FS_CardinalityType
<1> QED
  BY <1>1, <1>2, <1>3

(* Changing one file changes the bytes on disk by the difference of its    *)
(* sizes.                                                                  *)
LEMMA Resize ==
  ASSUME NEW f, NEW g, NEW c \in Components, IsFiniteSet(Bytes(f)),
         Size(f[c]) \in Nat, Size(g[c]) \in Nat,
         \A d \in Components : d # c => g[d] = f[d]
  PROVE  /\ IsFiniteSet(Bytes(g))
         /\ Cardinality(Bytes(g)) = Cardinality(Bytes(f)) - Size(f[c]) + Size(g[c])
         /\ Cardinality(Bytes(f)) \in Nat /\ Size(f[c]) <= Cardinality(Bytes(f))
<1> DEFINE F == {c} \X (1..Size(f[c]))
           G == {c} \X (1..Size(g[c]))
           R == UNION {{d} \X (1..Size(f[d])) : d \in Components \ {c}}
<1>1. Bytes(f) = R \cup F /\ R \cap F = {}
  BY DEF Bytes
<1>2. Bytes(g) = R \cup G /\ R \cap G = {}
  <2>1. R = UNION {{d} \X (1..Size(g[d])) : d \in Components \ {c}}
    OBVIOUS
  <2>2. R \cap G = {}
    OBVIOUS
  <2> HIDE DEF R
  <2> QED
    BY <2>1, <2>2 DEF Bytes
<1>3. IsFiniteSet(F) /\ Cardinality(F) = Size(f[c]) /\ IsFiniteSet(G) /\ Cardinality(G) = Size(g[c])
  BY OneFile
<1> HIDE DEF F, G, R
<1>4. IsFiniteSet(R)
  <2>1. R \in SUBSET Bytes(f)
    BY <1>1
  <2> QED
    BY <2>1, FS_Subset
<1>5. /\ IsFiniteSet(Bytes(f)) /\ Cardinality(Bytes(f)) = Cardinality(R) + Cardinality(F)
      /\ Cardinality(R) \in Nat
  BY <1>1, <1>3, <1>4, DisjointUnion, Zenon
<1>6. IsFiniteSet(Bytes(g)) /\ Cardinality(Bytes(g)) = Cardinality(R) + Cardinality(G)
  BY <1>2, <1>3, <1>4, DisjointUnion, Zenon
<1> QED
  BY <1>3, <1>5, <1>6

(* 1 for a file that is there. *)
One(contents) == IF contents = None THEN 0 ELSE 1

(* Creating or removing one file changes the number of files by one. *)
LEMMA Refile ==
  ASSUME NEW f, NEW g, NEW c \in Components, IsFiniteSet(Files(f)),
         \A d \in Components : d # c => g[d] = f[d]
  PROVE  /\ IsFiniteSet(Files(g))
         /\ Cardinality(Files(g)) = Cardinality(Files(f)) - One(f[c]) + One(g[c])
         /\ Cardinality(Files(f)) \in Nat /\ One(f[c]) <= Cardinality(Files(f))
<1> DEFINE R == Files(f) \ {c}
<1>1. /\ IsFiniteSet(R)
      /\ Cardinality(R) = IF c \in Files(f) THEN Cardinality(Files(f)) - 1 ELSE Cardinality(Files(f))
  BY FS_RemoveElement
<1>2. c \in Files(f) <=> f[c] # None
  BY DEF Files
<1>3. Files(g) = IF g[c] = None THEN R ELSE R \cup {c}
  BY DEF Files
<1>4. c \notin R
  OBVIOUS
<1> HIDE DEF R
<1>5. IsFiniteSet(R \cup {c}) /\ Cardinality(R \cup {c}) = Cardinality(R) + 1
  BY <1>1, <1>4, FS_AddElement
<1>6. Cardinality(R) \in Nat /\ Cardinality(Files(f)) \in Nat
  BY <1>1, FS_CardinalityType
<1>7. IsFiniteSet(Files(g)) /\ Cardinality(Files(g)) = Cardinality(R) + One(g[c])
  <2>1. CASE g[c] = None
    BY <1>1, <1>3, <1>6, <2>1 DEF One
  <2>2. CASE g[c] # None
    BY <1>3, <1>5, <2>2 DEF One
  <2> QED
    BY <2>1, <2>2
<1>8. Cardinality(R) = Cardinality(Files(f)) - One(f[c])
  BY <1>1, <1>2, <1>6 DEF One
<1>9. One(f[c]) \in {0, 1} /\ One(g[c]) \in {0, 1}
  BY DEF One
<1> HIDE DEF One
<1> QED
  BY <1>6, <1>7, <1>8, <1>9

-----------------------------------------------------------------------------
(* Paths *)

(* A component's path ends in the component itself, and holds no other     *)
(* component.                                                              *)
LEMMA PathEnds ==
  ASSUME NEW c \in Components
  PROVE  /\ c \in component_path(c)
         /\ \A p \in component_path(c) : IsPrefix(p, c)
         /\ \A d \in Components : d \in component_path(c) => d = c
<1>1. c = <<c[1], c[2], c[3]>> /\ \A d \in Components : d = <<d[1], d[2], d[3]>>
  BY StoreAssumption
<1>2. /\ SubSeq(c, 1, 1) = <<c[1]>> /\ SubSeq(c, 1, 2) = <<c[1], c[2]>>
      /\ SubSeq(c, 1, 3) = <<c[1], c[2], c[3]>>
  <2>1. PICK x, y, z : x = c[1] /\ y = c[2] /\ z = c[3]
    OBVIOUS
  <2>2. c = <<x, y, z>>
    BY <1>1, <2>1
  <2> DEFINE s == <<x, y, z>>
             S == {x, y, z}
  <2>3. s \in Seq(S) /\ Len(s) = 3 /\ s[1] = x /\ s[2] = y /\ s[3] = z
    OBVIOUS
  <2>4. /\ <<x>> \in Seq(S) /\ Len(<<x>>) = 1 /\ <<x>>[1] = x
        /\ <<x, y>> \in Seq(S) /\ Len(<<x, y>>) = 2 /\ <<x, y>>[1] = x /\ <<x, y>>[2] = y
    OBVIOUS
  <2> HIDE DEF s, S
  <2>5. \A k \in {1, 2, 3} : /\ SubSeq(s, 1, k) \in Seq(S) /\ Len(SubSeq(s, 1, k)) = k
                             /\ \A j \in 1..k : SubSeq(s, 1, k)[j] = s[j]
    <3>1. \A k \in {1, 2, 3} : k \in 0..Len(s)
      BY <2>3
    <3> QED
      BY <2>3, <3>1, Beginning
  <2>6. SubSeq(s, 1, 1) = <<x>>
    <3>1. \A j \in 1..1 : SubSeq(s, 1, 1)[j] = <<x>>[j]
      BY <2>3, <2>4, <2>5
    <3> QED
      BY <2>4, <2>5, <3>1, SeqEqual
  <2>7. SubSeq(s, 1, 2) = <<x, y>>
    <3>1. \A j \in 1..2 : SubSeq(s, 1, 2)[j] = <<x, y>>[j]
      BY <2>3, <2>4, <2>5
    <3> QED
      BY <2>4, <2>5, <3>1, SeqEqual
  <2>8. SubSeq(s, 1, 3) = s
    <3>1. \A j \in 1..3 : SubSeq(s, 1, 3)[j] = s[j]
      BY <2>5
    <3> QED
      BY <2>3, <2>5, <3>1, SeqEqual
  <2> QED
    BY <2>1, <2>2, <2>6, <2>7, <2>8, Zenon DEF s
<1>3. component_path(c) = {<<c[1]>>, <<c[1], c[2]>>, <<c[1], c[2], c[3]>>}
  <2>1. 1..3 = {1, 2, 3}
    OBVIOUS
  <2> QED
    BY <1>2, <2>1, Zenon DEF component_path
<1>4. c \in component_path(c)
  BY <1>1, <1>3
<1>5. \A d \in Components : d \in component_path(c) => d = c
  BY <1>1, <1>3
<1>6. \A p \in component_path(c) : IsPrefix(p, c)
  BY <1>1, <1>3 DEF IsPrefix
<1> QED
  BY <1>4, <1>5, <1>6

-----------------------------------------------------------------------------
(* The invariant *)

(* The disk holds fewer bytes and inodes than the counters can count, or   *)
(* counters that wrap go unnoticed.                                        *)
Fits == OverflowChecks => DiskBytes < U64 /\ DiskInodes < U64

(* There is a last byte and a last inode. *)
Countable ==
  /\ IsFiniteSet(dirs)
  /\ IsFiniteSet(Files(container)) /\ IsFiniteSet(Files(imageSpec))
  /\ IsFiniteSet(Bytes(container)) /\ IsFiniteSet(Bytes(imageSpec))

(* Files are in the directories of their component. *)
Housed(c) ==
  container[c] # None \/ imageSpec[c] # None => component_path(c) \subseteq dirs

(* So are the files that a handler is about to create, and a removal has   *)
(* removed what it has passed.                                             *)
CallTree(i) ==
  /\ calls[i].pc \in Changing \ {"remove_container"} => component_path(calls[i].name) \subseteq dirs
  /\ calls[i].pc \in {"remove_spec", "remove_dirs"} => container[calls[i].name] = None
  /\ calls[i].pc = "remove_dirs" => imageSpec[calls[i].name] = None

TreeInv ==
  /\ \A c \in Components : Housed(c)
  /\ \A i \in Calls : CallTree(i)

(* The inductive invariant, beside StoreInv. *)
UsageInv == Countable /\ TreeInv /\ UsageExactUntilDrift

(* The amounts on disk are numbers. *)
LEMMA Amounts ==
  ASSUME Countable
  PROVE  /\ DiskBytes \in Nat /\ DiskInodes \in Nat
         /\ Cardinality(dirs) \in Nat
         /\ Cardinality(Files(container)) \in Nat /\ Cardinality(Files(imageSpec)) \in Nat
         /\ Cardinality(Bytes(container)) \in Nat /\ Cardinality(Bytes(imageSpec)) \in Nat
<1>1. /\ Cardinality(dirs) \in Nat
      /\ Cardinality(Files(container)) \in Nat /\ Cardinality(Files(imageSpec)) \in Nat
      /\ Cardinality(Bytes(container)) \in Nat /\ Cardinality(Bytes(imageSpec)) \in Nat
  BY FS_CardinalityType DEF Countable
<1> QED
  BY <1>1 DEF DiskBytes, DiskInodes

(* Files have sizes before and after a step. *)
LEMMA SizesAlways ==
  StoreInv => \A c \in Components : Size(container[c]) \in Nat /\ Size(imageSpec[c]) \in Nat
  BY Sizes
LEMMA SizesNext ==
  StoreInv' => (\A c \in Components : Size(container[c]) \in Nat /\ Size(imageSpec[c]) \in Nat)'
  BY SizesAlways, PTL

(* A step that counts what it changes keeps the counters exact. *)
LEMMA CountedStep ==
  ASSUME StoreInv, UsageInv, NEW b \in Int, NEW n \in Int, Count(b, n),
         ~ drifted' => /\ ~ drifted
                       /\ DiskBytes' = DiskBytes + b /\ DiskInodes' = DiskInodes + n
                       /\ lock' # Poisoned
  PROVE  UsageExactUntilDrift'
<1> SUFFICES ASSUME ~ drifted'
             PROVE  /\ usage'.bytes = DiskBytes' % U64
                    /\ usage'.inodes = DiskInodes' % U64
                    /\ lock' # Poisoned
  BY DEF UsageExactUntilDrift
<1>1. DiskBytes \in Int /\ DiskInodes \in Int /\ U64 \in Nat \ {0}
  BY Amounts, StoreAssumption DEF UsageInv
<1>2. usage.bytes = DiskBytes % U64 /\ usage.inodes = DiskInodes % U64
  BY DEF UsageInv, UsageExactUntilDrift
<1>3. usage'.bytes = (usage.bytes + b) % U64 /\ usage'.inodes = (usage.inodes + n) % U64
  BY DEF Count
<1>4. usage'.bytes = (DiskBytes + b) % U64
  <2>1. ((DiskBytes % U64) + b) % U64 = (DiskBytes + b) % U64
    BY <1>1, ModAdd
  <2> QED
    BY <1>2, <1>3, <2>1, Zenon
<1>5. usage'.inodes = (DiskInodes + n) % U64
  <2>1. ((DiskInodes % U64) + n) % U64 = (DiskInodes + n) % U64
    BY <1>1, ModAdd
  <2> QED
    BY <1>2, <1>3, <2>1, Zenon
<1> QED
  BY <1>4, <1>5

(* While the counters are exact and the disk fits them, what is on disk    *)
(* can be taken off them.                                                  *)
LEMMA NoUnderflow ==
  ASSUME UsageInv, Fits, ~ drifted, NEW b \in Nat, NEW n \in Nat,
         b <= DiskBytes, n <= DiskInodes
  PROVE  ~ Underflow(b, n)
<1> SUFFICES ASSUME OverflowChecks
             PROVE  ~ (usage.bytes < b \/ usage.inodes < n)
  BY DEF Underflow
<1>1. DiskBytes \in Nat /\ DiskInodes \in Nat /\ U64 \in Nat \ {0}
  BY Amounts, StoreAssumption DEF UsageInv
<1>2. DiskBytes < U64 /\ DiskInodes < U64
  BY DEF Fits
<1>3. DiskBytes % U64 = DiskBytes /\ DiskInodes % U64 = DiskInodes
  BY <1>1, <1>2, ModSmall
<1>4. usage.bytes = DiskBytes /\ usage.inodes = DiskInodes
  BY <1>3 DEF UsageInv, UsageExactUntilDrift
<1> QED
  BY <1>1, <1>4

(* What a step that changes a container file does to the amounts. *)
LEMMA ContainerStep ==
  ASSUME StoreInv, StoreInv', UsageInv, NEW c \in Components,
         \A d \in Components : d # c => container'[d] = container[d],
         UNCHANGED <<dirs, imageSpec>>
  PROVE  /\ Countable'
         /\ DiskBytes' = DiskBytes - Size(container[c]) + Size(container'[c])
         /\ DiskInodes' = DiskInodes - One(container[c]) + One(container'[c])
         /\ Size(container[c]) <= DiskBytes /\ One(container[c]) <= DiskInodes
<1>1. Size(container[c]) \in Nat /\ Size(container'[c]) \in Nat
  BY Sizes, SizesNext
<1>2. Countable
  BY DEF UsageInv
<1>3. /\ IsFiniteSet(Bytes(container'))
      /\ Cardinality(Bytes(container')) = Cardinality(Bytes(container)) - Size(container[c]) + Size(container'[c])
      /\ Size(container[c]) <= Cardinality(Bytes(container))
  BY <1>1, <1>2, Resize DEF Countable
<1>4. /\ IsFiniteSet(Files(container'))
      /\ Cardinality(Files(container')) = Cardinality(Files(container)) - One(container[c]) + One(container'[c])
      /\ One(container[c]) <= Cardinality(Files(container))
  BY <1>2, Refile DEF Countable
<1>5. Bytes(imageSpec') = Bytes(imageSpec) /\ Files(imageSpec') = Files(imageSpec)
  OBVIOUS
<1>6. Countable'
  BY <1>2, <1>3, <1>4, <1>5 DEF Countable
<1>7. /\ DiskBytes = Cardinality(Bytes(container)) + Cardinality(Bytes(imageSpec))
      /\ DiskBytes' = Cardinality(Bytes(container')) + Cardinality(Bytes(imageSpec))
      /\ DiskInodes = Cardinality(dirs) + Cardinality(Files(container)) + Cardinality(Files(imageSpec))
      /\ DiskInodes' = Cardinality(dirs) + Cardinality(Files(container')) + Cardinality(Files(imageSpec))
  BY DEF DiskBytes, DiskInodes
<1>8. One(container[c]) \in {0, 1} /\ One(container'[c]) \in {0, 1}
  BY DEF One
<1>9. /\ Cardinality(dirs) \in Nat
      /\ Cardinality(Files(container)) \in Nat /\ Cardinality(Files(imageSpec)) \in Nat
      /\ Cardinality(Bytes(container)) \in Nat /\ Cardinality(Bytes(imageSpec)) \in Nat
  BY <1>2, Amounts
<1>10. /\ DiskBytes' = DiskBytes - Size(container[c]) + Size(container'[c])
       /\ Size(container[c]) <= DiskBytes
  BY <1>1, <1>3, <1>7, <1>9
<1>11. /\ DiskInodes' = DiskInodes - One(container[c]) + One(container'[c])
       /\ One(container[c]) <= DiskInodes
  BY <1>4, <1>7, <1>8, <1>9
<1> QED
  BY <1>6, <1>10, <1>11

(* What a step that changes an image spec does to the amounts. *)
LEMMA SpecStep ==
  ASSUME StoreInv, StoreInv', UsageInv, NEW c \in Components,
         \A d \in Components : d # c => imageSpec'[d] = imageSpec[d],
         UNCHANGED <<dirs, container>>
  PROVE  /\ Countable'
         /\ DiskBytes' = DiskBytes - Size(imageSpec[c]) + Size(imageSpec'[c])
         /\ DiskInodes' = DiskInodes - One(imageSpec[c]) + One(imageSpec'[c])
         /\ Size(imageSpec[c]) <= DiskBytes /\ One(imageSpec[c]) <= DiskInodes
<1>1. Size(imageSpec[c]) \in Nat /\ Size(imageSpec'[c]) \in Nat
  BY Sizes, SizesNext
<1>2. Countable
  BY DEF UsageInv
<1>3. /\ IsFiniteSet(Bytes(imageSpec'))
      /\ Cardinality(Bytes(imageSpec')) = Cardinality(Bytes(imageSpec)) - Size(imageSpec[c]) + Size(imageSpec'[c])
      /\ Size(imageSpec[c]) <= Cardinality(Bytes(imageSpec))
  BY <1>1, <1>2, Resize DEF Countable
<1>4. /\ IsFiniteSet(Files(imageSpec'))
      /\ Cardinality(Files(imageSpec')) = Cardinality(Files(imageSpec)) - One(imageSpec[c]) + One(imageSpec'[c])
      /\ One(imageSpec[c]) <= Cardinality(Files(imageSpec))
  BY <1>2, Refile DEF Countable
<1>5. Bytes(container') = Bytes(container) /\ Files(container') = Files(container)
  OBVIOUS
<1>6. Countable'
  BY <1>2, <1>3, <1>4, <1>5 DEF Countable
<1>7. /\ DiskBytes = Cardinality(Bytes(container)) + Cardinality(Bytes(imageSpec))
      /\ DiskBytes' = Cardinality(Bytes(container)) + Cardinality(Bytes(imageSpec'))
      /\ DiskInodes = Cardinality(dirs) + Cardinality(Files(container)) + Cardinality(Files(imageSpec))
      /\ DiskInodes' = Cardinality(dirs) + Cardinality(Files(container)) + Cardinality(Files(imageSpec'))
  BY DEF DiskBytes, DiskInodes
<1>8. One(imageSpec[c]) \in {0, 1} /\ One(imageSpec'[c]) \in {0, 1}
  BY DEF One
<1>9. /\ Cardinality(dirs) \in Nat
      /\ Cardinality(Files(imageSpec)) \in Nat /\ Cardinality(Files(container)) \in Nat
      /\ Cardinality(Bytes(imageSpec)) \in Nat /\ Cardinality(Bytes(container)) \in Nat
  BY <1>2, Amounts
<1>10. /\ DiskBytes' = DiskBytes - Size(imageSpec[c]) + Size(imageSpec'[c])
       /\ Size(imageSpec[c]) <= DiskBytes
  BY <1>1, <1>3, <1>7, <1>9
<1>11. /\ DiskInodes' = DiskInodes - One(imageSpec[c]) + One(imageSpec'[c])
       /\ One(imageSpec[c]) <= DiskInodes
  BY <1>4, <1>7, <1>8, <1>9
<1> QED
  BY <1>6, <1>10, <1>11

-----------------------------------------------------------------------------
(* Steps *)

(* A handler that does not hold the mutex is not among those that change   *)
(* files.                                                                  *)
LEMMA HolderAlone ==
  ASSUME StoreInv', NEW i \in Calls, lock' # i
  PROVE  CallTree(i)'
<1>1. calls'[i].pc \notin Changing
  BY DEF StoreInv, StoreTypeOK
<1> QED
  BY <1>1 DEF CallTree, Changing

(* A step of the handler that holds the mutex leaves the tree in order, if *)
(* its component has its directories.                                      *)
LEMMA HolderTree ==
  ASSUME StoreInv', UsageInv, NEW i \in Calls, NEW c \in Components,
         component_path(c) \subseteq dirs, UNCHANGED dirs,
         \A d \in Components : d # c => container'[d] = container[d] /\ imageSpec'[d] = imageSpec[d],
         lock' = i => /\ calls'[i].name = c
                      /\ calls'[i].pc \in {"remove_spec", "remove_dirs"} => container'[c] = None
                      /\ calls'[i].pc = "remove_dirs" => imageSpec'[c] = None,
         lock' \in {i, None, Poisoned}
  PROVE  TreeInv'
<1>1. \A d \in Components : Housed(d)'
  BY DEF UsageInv, TreeInv, Housed
<1>2. ASSUME NEW j \in Calls
      PROVE  CallTree(j)'
  <2>1. CASE lock' # j
    BY <2>1, HolderAlone
  <2>2. CASE lock' = j
    <3>1. j = i
      BY <2>2, NoneAssumption
    <3> QED
      BY <2>2, <3>1 DEF CallTree
  <2> QED
    BY <2>1, <2>2
<1> QED
  BY <1>1, <1>2 DEF TreeInv

(* When the mutex is free nobody is between two changes. *)
LEMMA ReleasedTree ==
  ASSUME StoreInv', UsageInv, UNCHANGED <<container, imageSpec>>, dirs \subseteq dirs',
         lock' \in {None, Poisoned}
  PROVE  TreeInv'
<1>1. \A c \in Components : Housed(c)'
  BY DEF UsageInv, TreeInv, Housed
<1>2. \A j \in Calls : CallTree(j)'
  BY HolderAlone, NoneAssumption
<1> QED
  BY <1>1, <1>2 DEF TreeInv

(* A step of a handler that changes no file leaves the tree in order. *)
LEMMA OtherTree ==
  ASSUME UsageInv, NEW i \in Calls,
         UNCHANGED <<container, imageSpec>>, dirs \subseteq dirs',
         \A j \in Calls : j # i => calls'[j] = calls[j],
         calls'[i] = calls[i] \/ calls'[i].pc \notin Changing \ {"remove_container"}
  PROVE  TreeInv'
<1>1. \A c \in Components : Housed(c)'
  BY DEF UsageInv, TreeInv, Housed
<1>2. ASSUME NEW j \in Calls
      PROVE  CallTree(j)'
  <2>1. CASE calls'[j] = calls[j]
    BY <2>1 DEF UsageInv, TreeInv, CallTree
  <2>2. CASE calls'[j].pc \notin Changing \ {"remove_container"}
    BY <2>2 DEF CallTree, Changing
  <2> QED
    BY <2>1, <2>2
<1> QED
  BY <1>1, <1>2 DEF TreeInv

(* With the disk and the counters, the amounts stay as they are. *)
LEMMA SameAmounts ==
  ASSUME UsageInv, UNCHANGED <<dirs, container, imageSpec>>
  PROVE  Countable' /\ DiskBytes' = DiskBytes /\ DiskInodes' = DiskInodes
  BY DEF UsageInv, Countable, Files, Bytes, DiskBytes, DiskInodes

(* A step that changes neither the disk nor the counters. *)
LEMMA IdleStep ==
  ASSUME UsageInv, UNCHANGED <<dirs, container, imageSpec, usage, drifted>>,
         lock' = lock \/ lock' # Poisoned, TreeInv'
  PROVE  UsageInv'
<1>1. Countable' /\ DiskBytes' = DiskBytes /\ DiskInodes' = DiskInodes
  BY SameAmounts
<1>2. UsageExactUntilDrift'
  BY <1>1 DEF UsageInv, UsageExactUntilDrift
<1> QED
  BY <1>1, <1>2 DEF UsageInv

(* A handler goes on. *)
LEMMA GoneOn ==
  ASSUME StoreInv, NEW i \in Calls, NEW pc, Goto(i, pc)
  PROVE  calls'[i].pc = pc /\ calls'[i].name = calls[i].name
<1> DEFINE x == [calls[i] EXCEPT !.pc = pc]
<1>1. calls' = [calls EXCEPT ![i] = x]
  BY Zenon DEF Goto
<1>2. IsCall(calls[i])
  BY DEF StoreInv, CallInv
<1>3. x = Changed(calls[i], pc, calls[i].image, calls[i].removed, calls[i].component, calls[i].quiet)
  BY <1>2, CallFields, Zenon
<1> HIDE DEF x
<1>4. calls'[i] = x
  BY <1>1, FrameOf
<1> QED
  BY <1>3, <1>4 DEF Changed

(* Requests, fetches and reads change neither files nor counters, and none *)
(* of them enters a change.                                                *)
LEMMA OtherCalls ==
  ASSUME StoreInv, NEW i \in Calls,
         \/ pull_image(i) \/ fetch(i) \/ remove_image(i) \/ get(i) \/ get_length(i)
         \/ get_component(i) \/ get_metadata(i) \/ image_status(i) \/ get_image(i)
         \/ list_images(i) \/ image_fs_info(i) \/ filesystem_usage(i) \/ lock_poisoned(i)
         \/ cancel(i) \/ pull_lock_fails(i)
  PROVE  /\ \A j \in Calls : j # i => calls'[j] = calls[j]
         /\ calls'[i] = calls[i] \/ calls'[i].pc \notin Changing
<1>1. CASE UNCHANGED calls
  BY <1>1
<1>2. ASSUME NEW pc, pc \notin Changing, NEW name, NEW quiet,
             calls' = [calls EXCEPT ![i] = Handler(pc, name, quiet)]
      PROVE  /\ \A j \in Calls : j # i => calls'[j] = calls[j]
             /\ calls'[i].pc \notin Changing
  <2>1. calls'[i] = Handler(pc, name, quiet) /\ \A j \in Calls : j # i => calls'[j] = calls[j]
    BY <1>2, FrameOf
  <2>2. calls'[i].pc = pc
    BY <2>1 DEF Handler
  <2> QED
    BY <1>2, <2>1, <2>2
<1>3. CASE calls' = [calls EXCEPT ![i] = Idle]
  BY <1>2, <1>3 DEF Idle, Changing
<1>4. ASSUME NEW pc, pc \notin Changing, NEW v,
             \/ calls' = [calls EXCEPT ![i] = [calls[i] EXCEPT !.pc = pc, !.image = v]]
             \/ calls' = [calls EXCEPT ![i] = [calls[i] EXCEPT !.pc = pc, !.component = v]]
      PROVE  /\ \A j \in Calls : j # i => calls'[j] = calls[j]
             /\ calls'[i].pc \notin Changing
  <2> DEFINE x == [calls[i] EXCEPT !.pc = pc, !.image = v]
             y == [calls[i] EXCEPT !.pc = pc, !.component = v]
  <2>1. IsCall(calls[i])
    BY DEF StoreInv, CallInv
  <2>2. /\ x = Changed(calls[i], pc, v, calls[i].removed, calls[i].component, calls[i].quiet)
        /\ y = Changed(calls[i], pc, calls[i].image, calls[i].removed, v, calls[i].quiet)
    BY <2>1, CallFieldPairs, Zenon
  <2>3. calls' = [calls EXCEPT ![i] = x] \/ calls' = [calls EXCEPT ![i] = y]
    BY <1>4, Zenon
  <2> HIDE DEF x, y
  <2>4. x.pc = pc /\ y.pc = pc
    BY <2>2 DEF Changed
  <2>5. calls'[i] \in {x, y} /\ \A j \in Calls : j # i => calls'[j] = calls[j]
    BY <2>3, FrameOf
  <2> QED
    BY <1>4, <2>4, <2>5
<1>5. CASE pull_image(i) \/ remove_image(i) \/ image_fs_info(i)
  <2>1. UNCHANGED calls \/ \E name : \E pc \in {"fetch", "remove", "filesystem_usage"} :
          calls' = [calls EXCEPT ![i] = Handler(pc, name, FALSE)]
    BY <1>5 DEF pull_image, remove_image, image_fs_info
  <2> QED
    BY <1>1, <1>2, <2>1 DEF Changing
<1>6. CASE get(i) \/ image_status(i)
  <2>1. UNCHANGED calls \/ \E name : \E pc \in {"get_length", "get_image"} : Start(i, pc, name)
    BY <1>6 DEF get, image_status
  <2> QED
    BY <1>1, <1>2, <2>1 DEF Changing, Start
<1>7. CASE fetch(i)
  <2>1. calls' = [calls EXCEPT ![i] = Idle] \/ \E g \in Images :
          calls' = [calls EXCEPT ![i] = [calls[i] EXCEPT !.pc = "pull", !.image = g]]
    BY <1>7, Zenon DEF fetch, Return
  <2>2. "pull" \notin Changing
    BY DEF Changing
  <2> QED
    BY <1>3, <1>4, <2>1, <2>2, Zenon
<1>8. CASE get_length(i)
  <2>1. calls' = [calls EXCEPT ![i] = Idle] \/ \E g :
          calls' = [calls EXCEPT ![i] = [calls[i] EXCEPT !.pc = "get_component", !.image = g]]
    BY <1>8, Zenon DEF get_length, Return
  <2>2. "get_component" \notin Changing
    BY DEF Changing
  <2> QED
    BY <1>3, <1>4, <2>1, <2>2, Zenon
<1>9. CASE get_component(i)
  <2>1. calls' = [calls EXCEPT ![i] = Idle] \/ \E s :
          calls' = [calls EXCEPT ![i] = [calls[i] EXCEPT !.pc = "get_metadata", !.component = s]]
    BY <1>9, Zenon DEF get_component, Return
  <2>2. "get_metadata" \notin Changing
    BY DEF Changing
  <2> QED
    BY <1>3, <1>4, <2>1, <2>2, Zenon
<1>10. CASE list_images(i)
  BY <1>1, <1>10 DEF list_images
<1>11. CASE get_metadata(i) \/ get_image(i) \/ filesystem_usage(i) \/ lock_poisoned(i)
            \/ cancel(i) \/ pull_lock_fails(i)
  <2>1. calls' = [calls EXCEPT ![i] = Idle]
    BY <1>11, Zenon DEF get_metadata, get_image, filesystem_usage, lock_poisoned, cancel,
       pull_lock_fails, Return
  <2> QED
    BY <1>3, <2>1
<1> QED
  BY <1>5, <1>6, <1>7, <1>8, <1>9, <1>10, <1>11

(* Steps of handlers outside the mutex. *)
LEMMA UsageOthers ==
  ASSUME StoreInv, UsageInv, NEW i \in Calls,
         \/ pull_image(i) \/ fetch(i) \/ remove_image(i) \/ get(i) \/ get_length(i)
         \/ get_component(i) \/ get_metadata(i) \/ image_status(i) \/ get_image(i)
         \/ list_images(i) \/ image_fs_info(i) \/ filesystem_usage(i) \/ lock_poisoned(i)
         \/ cancel(i)
  PROVE  UsageInv'
<1>1. UNCHANGED <<dirs, container, imageSpec, usage, drifted, lock>>
  BY DEF pull_image, fetch, remove_image, get, get_length, get_component, get_metadata,
     image_status, get_image, list_images, image_fs_info, filesystem_usage, lock_poisoned,
     cancel, disk, history
<1>2. /\ \A j \in Calls : j # i => calls'[j] = calls[j]
      /\ calls'[i] = calls[i] \/ calls'[i].pc \notin Changing
  BY OtherCalls
<1>3. TreeInv'
  BY <1>1, <1>2, OtherTree
<1> QED
  BY <1>1, <1>3, IdleStep

(* Steps that give the mutex back and leave files alone. *)
LEMMA UsageReleases ==
  ASSUME StoreInv', UsageInv, NEW i \in Calls,
         \/ pull_sync(i) \/ pull_create_fails(i) \/ pull_sync_fails(i) \/ remove_fails(i)
  PROVE  UsageInv'
<1>1. UNCHANGED <<dirs, container, imageSpec, usage, drifted>> /\ lock' = None
  BY DEF pull_sync, pull_create_fails, pull_sync_fails, remove_fails, Release, disk, history
<1>2. TreeInv'
  BY <1>1, ReleasedTree
<1> QED
  BY <1>1, <1>2, IdleStep, NoneAssumption

(* A handler takes the mutex. *)
LEMMA Acquired ==
  ASSUME StoreInv, NEW i \in Calls, NEW pc, Acquire(i, pc)
  PROVE  calls'[i].pc = pc /\ calls'[i].name = calls[i].name /\ lock' = i
<1> DEFINE x == [calls[i] EXCEPT !.pc = pc]
<1>1. calls'[i] = x /\ lock' = i
  BY DEF Acquire
<1>2. IsCall(calls[i])
  BY DEF StoreInv, CallInv
<1>3. x = Changed(calls[i], pc, calls[i].image, calls[i].removed, calls[i].component, calls[i].quiet)
  BY <1>2, CallFields, Zenon
<1> HIDE DEF x
<1> QED
  BY <1>1, <1>3 DEF Changed

(* More directories are more inodes. *)
LEMMA MoreDirs ==
  ASSUME UsageInv, NEW c, NEW S \in SUBSET component_path(c), dirs' = dirs \cup S,
         UNCHANGED <<container, imageSpec>>
  PROVE  /\ Countable' /\ DiskBytes' = DiskBytes
         /\ DiskInodes' = DiskInodes + Cardinality(S \ dirs) /\ Cardinality(S \ dirs) \in Nat
<1> DEFINE M == S \ dirs
<1>1. IsFiniteSet(M) /\ Cardinality(M) \in Nat
  BY PathFinite
<1>2. dirs' = dirs \cup M /\ dirs \cap M = {}
  OBVIOUS
<1>3. Countable
  BY DEF UsageInv
<1> HIDE DEF M
<1>4. IsFiniteSet(dirs') /\ Cardinality(dirs') = Cardinality(dirs) + Cardinality(M)
  BY <1>1, <1>2, <1>3, DisjointUnion, Zenon DEF Countable
<1>5. Countable' /\ DiskBytes' = DiskBytes
  BY <1>3, <1>4 DEF Countable, Files, Bytes, DiskBytes
<1>6. /\ Cardinality(dirs) \in Nat
      /\ Cardinality(Files(container)) \in Nat /\ Cardinality(Files(imageSpec)) \in Nat
  BY <1>3, Amounts
<1>7. /\ DiskInodes = Cardinality(dirs) + Cardinality(Files(container)) + Cardinality(Files(imageSpec))
      /\ DiskInodes' = Cardinality(dirs') + Cardinality(Files(container)) + Cardinality(Files(imageSpec))
  BY DEF DiskInodes, Files
<1>8. DiskInodes' = DiskInodes + Cardinality(M)
  BY <1>1, <1>4, <1>6, <1>7
<1> QED
  BY <1>1, <1>5, <1>8 DEF M

(* A pull counts the directories that it creates. *)
LEMMA UsageLocks ==
  ASSUME StoreInv, StoreInv', UsageInv, NEW i \in Calls, pull_lock(i)
  PROVE  UsageInv'
<1>1. PICK c \in Components : calls[i].name = c
  BY DEF pull_lock, At, StoreInv, CallInv
<1> DEFINE n == Cardinality(component_path(c) \ dirs)
<1>2. /\ Acquire(i, "create_container") /\ dirs' = dirs \cup component_path(c) /\ Count(0, n)
      /\ UNCHANGED <<container, imageSpec, drifted>>
  BY <1>1 DEF pull_lock
<1>3. Countable' /\ DiskBytes' = DiskBytes /\ DiskInodes' = DiskInodes + n /\ n \in Nat
  BY <1>2, MoreDirs
<1> HIDE DEF n
<1>4. calls'[i].pc = "create_container" /\ calls'[i].name = c /\ lock' = i
  BY <1>1, <1>2, Acquired
<1>5. UsageExactUntilDrift'
  <2>1. DiskBytes' = DiskBytes + 0 /\ n \in Int
    BY <1>3, Amounts DEF UsageInv
  <2>2. ~ drifted' => ~ drifted
    BY <1>2
  <2> QED
    BY <1>2, <1>3, <1>4, <2>1, <2>2, CountedStep, NoneAssumption
<1>6. \A d \in Components : Housed(d)'
  BY <1>2 DEF UsageInv, TreeInv, Housed
<1>7. CallTree(i)'
  BY <1>2, <1>4 DEF CallTree
<1>8. \A j \in Calls : CallTree(j)'
  BY <1>4, <1>7, HolderAlone
<1> QED
  BY <1>3, <1>5, <1>6, <1>8 DEF UsageInv, TreeInv

(* A removal takes the mutex before it looks at anything. *)
LEMMA UsageRemoveLocks ==
  ASSUME StoreInv, StoreInv', UsageInv, NEW i \in Calls, remove_lock(i)
  PROVE  UsageInv'
<1>1. Acquire(i, "remove_container") /\ UNCHANGED <<dirs, container, imageSpec, usage, drifted>>
  BY DEF remove_lock, disk
<1>2. calls'[i].pc = "remove_container" /\ lock' = i
  BY <1>1, Acquired
<1>3. CallTree(i)'
  BY <1>2 DEF CallTree
<1>4. \A j \in Calls : CallTree(j)'
  BY <1>2, <1>3, HolderAlone
<1>5. TreeInv'
  BY <1>1, <1>4 DEF UsageInv, TreeInv, Housed
<1> QED
  BY <1>1, <1>2, <1>5, IdleStep, NoneAssumption

(* Directories created by a pull that then fails are not counted. *)
LEMMA UsageLockFails ==
  ASSUME StoreInv, UsageInv, NEW i \in Calls, pull_lock_fails(i)
  PROVE  UsageInv'
<1>1. PICK k \in 0..2 : dirs' = dirs \cup {SubSeq(calls[i].name, 1, j) : j \in 1..k}
  BY DEF pull_lock_fails
<1>2. /\ drifted' = (drifted \/ dirs' # dirs)
      /\ UNCHANGED <<container, imageSpec, usage, lock>>
  BY DEF pull_lock_fails
<1> DEFINE S == {SubSeq(calls[i].name, 1, j) : j \in 1..k}
<1>3. S \in SUBSET component_path(calls[i].name)
  <2>1. \A j \in 1..k : j \in 1..3
    OBVIOUS
  <2> QED
    BY <2>1, Zenon DEF component_path
<1>4. Countable'
  BY <1>1, <1>2, <1>3, MoreDirs
<1>5. UsageExactUntilDrift'
  <2>1. CASE dirs' = dirs
    <3>1. DiskBytes' = DiskBytes /\ DiskInodes' = DiskInodes
      BY <1>2, <2>1, SameAmounts
    <3> QED
      BY <1>2, <3>1 DEF UsageInv, UsageExactUntilDrift
  <2>2. CASE dirs' # dirs
    BY <1>2, <2>2 DEF UsageExactUntilDrift
  <2> QED
    BY <2>1, <2>2
<1>6. TreeInv'
  <2>1. /\ \A j \in Calls : j # i => calls'[j] = calls[j]
        /\ calls'[i] = calls[i] \/ calls'[i].pc \notin Changing
    BY OtherCalls
  <2>2. dirs \subseteq dirs'
    BY <1>1
  <2> QED
    BY <1>2, <2>1, <2>2, OtherTree
<1> QED
  BY <1>4, <1>5, <1>6 DEF UsageInv

(* What is known of the files a pull has at hand. *)
LEMMA PullTree ==
  ASSUME StoreInv, UsageInv, NEW i \in Calls, calls[i].pc \in Pulling \ {"pull"}
  PROVE  component_path(calls[i].name) \subseteq dirs
<1>1. calls[i].pc \in Changing \ {"remove_container"}
  BY DEF Pulling, Changing
<1> QED
  BY <1>1 DEF UsageInv, TreeInv, CallTree

(* Creating a file counts its inode unless it was there, and loses its     *)
(* bytes from view only if it had some.                                    *)
LEMMA UsageCreates ==
  ASSUME StoreInv, StoreInv', UsageInv, NEW i \in Calls,
         pull_create_container(i) \/ pull_create_spec(i)
  PROVE  UsageInv'
<1>1. calls[i].pc \in {"create_container", "create_spec"}
  BY DEF pull_create_container, pull_create_spec, At
<1>2. PICK c \in Components, g \in Images :
           /\ calls[i].name = c /\ calls[i].pc \in Changing
           /\ container = [d \in Components |-> container[d]]
           /\ imageSpec = [d \in Components |-> imageSpec[d]]
  BY <1>1, Puller DEF Pulling
<1>3. component_path(c) \subseteq dirs /\ lock = i
  BY <1>1, <1>2, PullTree DEF Pulling, StoreInv, StoreTypeOK
<1>4. Size(<<>>) = 0 /\ One(<<>>) = 1
  BY NotNone DEF Size, One
<1>5. DiskBytes \in Nat /\ DiskInodes \in Nat
  BY Amounts DEF UsageInv
<1>6. Size(container[c]) \in Nat /\ Size(imageSpec[c]) \in Nat
  BY Sizes
<1>7. CASE pull_create_container(i)
  <2> DEFINE n == IF container[c] = None THEN 1 ELSE 0
  <2>1. /\ container' = [container EXCEPT ![c] = <<>>] /\ Count(0, n)
        /\ drifted' = (drifted \/ Size(container[c]) > 0) /\ Goto(i, "create_spec")
        /\ UNCHANGED <<dirs, imageSpec, lock>>
    BY <1>2, <1>7 DEF pull_create_container
  <2>2. container'[c] = <<>> /\ \A d \in Components : d # c => container'[d] = container[d]
    BY <1>2, <2>1
  <2>3. /\ Countable'
        /\ DiskBytes' = DiskBytes - Size(container[c]) + Size(container'[c])
        /\ DiskInodes' = DiskInodes - One(container[c]) + One(container'[c])
    BY <2>1, <2>2, ContainerStep
  <2>4. n = 1 - One(container[c]) /\ One(container[c]) \in {0, 1} /\ n \in Int
    BY DEF One
  <2> HIDE DEF n
  <2>5. DiskInodes' = DiskInodes + n
    BY <1>4, <1>5, <2>2, <2>3, <2>4
  <2>6. ~ drifted' => ~ drifted /\ Size(container[c]) = 0
    <3>1. ~ drifted' => ~ drifted /\ ~ (Size(container[c]) > 0)
      BY <2>1, Zenon
    <3> QED
      BY <1>6, <3>1
  <2>7. ~ drifted' => DiskBytes' = DiskBytes + 0
    BY <1>4, <1>5, <2>2, <2>3, <2>6
  <2>8. UsageExactUntilDrift'
    BY <1>3, <2>1, <2>4, <2>5, <2>6, <2>7, CountedStep, NoneAssumption
  <2>9. TreeInv'
    <3>1. calls'[i].pc = "create_spec" /\ calls'[i].name = c
      BY <1>2, <2>1, GoneOn
    <3> QED
      BY <1>3, <2>1, <2>2, <3>1, HolderTree
  <2> QED
    BY <2>3, <2>8, <2>9 DEF UsageInv
<1>8. CASE pull_create_spec(i)
  <2> DEFINE n == IF imageSpec[c] = None THEN 1 ELSE 0
  <2>1. /\ imageSpec' = [imageSpec EXCEPT ![c] = <<>>] /\ Count(0, n)
        /\ drifted' = (drifted \/ Size(imageSpec[c]) > 0) /\ Goto(i, "length")
        /\ UNCHANGED <<dirs, container, lock>>
    BY <1>2, <1>8 DEF pull_create_spec
  <2>2. imageSpec'[c] = <<>> /\ \A d \in Components : d # c => imageSpec'[d] = imageSpec[d]
    BY <1>2, <2>1
  <2>3. /\ Countable'
        /\ DiskBytes' = DiskBytes - Size(imageSpec[c]) + Size(imageSpec'[c])
        /\ DiskInodes' = DiskInodes - One(imageSpec[c]) + One(imageSpec'[c])
    BY <2>1, <2>2, SpecStep
  <2>4. n = 1 - One(imageSpec[c]) /\ One(imageSpec[c]) \in {0, 1} /\ n \in Int
    BY DEF One
  <2> HIDE DEF n
  <2>5. DiskInodes' = DiskInodes + n
    BY <1>4, <1>5, <2>2, <2>3, <2>4
  <2>6. ~ drifted' => ~ drifted /\ Size(imageSpec[c]) = 0
    <3>1. ~ drifted' => ~ drifted /\ ~ (Size(imageSpec[c]) > 0)
      BY <2>1, Zenon
    <3> QED
      BY <1>6, <3>1
  <2>7. ~ drifted' => DiskBytes' = DiskBytes + 0
    BY <1>4, <1>5, <2>2, <2>3, <2>6
  <2>8. UsageExactUntilDrift'
    BY <1>3, <2>1, <2>4, <2>5, <2>6, <2>7, CountedStep, NoneAssumption
  <2>9. TreeInv'
    <3>1. calls'[i].pc = "length" /\ calls'[i].name = c
      BY <1>2, <2>1, GoneOn
    <3> QED
      BY <1>3, <2>1, <2>2, <3>1, HolderTree
  <2> QED
    BY <2>3, <2>8, <2>9 DEF UsageInv
<1> QED
  BY <1>7, <1>8

(* Every unit written to a container file is counted, unless the write     *)
(* stops half way.                                                         *)
LEMMA UsageWrites ==
  ASSUME StoreInv, StoreInv', UsageInv, NEW i \in Calls, pull_write(i) \/ pull_write_fails(i)
  PROVE  UsageInv'
<1>1. calls[i].pc \in {"length", "component", "metadata"}
  BY DEF pull_write, pull_write_fails
<1>2. PICK c \in Components, g \in Images :
           /\ calls[i].name = c /\ calls[i].image = g /\ calls[i].pc \in Changing
           /\ Progress(calls[i].pc, c, g)
           /\ container = [d \in Components |-> container[d]]
  BY <1>1, Puller DEF Pulling
<1>3. PICK part \in {"length", "component", "metadata"} : calls[i].pc = part
  BY <1>1
<1>4. component_path(c) \subseteq dirs /\ lock = i
  BY <1>1, <1>2, PullTree DEF Pulling, StoreInv, StoreTypeOK
<1>5. DiskBytes \in Nat /\ DiskInodes \in Nat
  BY Amounts DEF UsageInv
<1> DEFINE units == Units(part, g)
           old == SubSeq(Serialized(g), 1, Offset(part, g))
<1>6. container[c] = old
  BY <1>2, <1>3 DEF Progress
<1>7. /\ units \in Seq(AllUnits) /\ old \in Seq(AllUnits)
      /\ Len(units) \in Nat /\ Len(old) \in Nat
  <2>1. Serialized(g) \in Seq(AllUnits) /\ Offset(part, g) \in 0..Len(Serialized(g))
    BY SerializedIs, PartPlaced
  <2> QED
    BY <2>1, UnitsAre, Beginning, LenProperties
<1>8. None # old
  <2>1. Offset(part, g) \in 0..Len(Serialized(g))
    BY PartPlaced
  <2> QED
    BY <2>1, NotNone DEF Beginnings
<1>9. CASE pull_write(i)
  <2>1. /\ container' = [container EXCEPT ![c] = container[c] \o units]
        /\ Count(Len(units), 0) /\ Goto(i, NextPart(part))
        /\ UNCHANGED <<dirs, imageSpec, lock, drifted>>
    BY <1>2, <1>3, <1>9 DEF pull_write, history
  <2>2. None # old \o units
    <3>1. old \o units = SubSeq(Serialized(g), 1, Offset(NextPart(part), g))
      <4>1. 0 \in 0..Len(Units(part, g))
        BY <1>7
      <4> QED
        BY <4>1, PartWritten, Zenon
    <3>2. Offset(NextPart(part), g) \in 0..Len(Serialized(g))
      <4>1. /\ Offset(part, g) \in 0..Len(Serialized(g))
            /\ Offset(part, g) + Len(units) = Offset(NextPart(part), g)
            /\ Offset(NextPart(part), g) <= Len(Serialized(g))
        BY PartPlaced
      <4>2. Len(Serialized(g)) \in Nat
        BY SerializedIs, LenProperties
      <4> QED
        BY <1>7, <4>1, <4>2
    <3> QED
      BY <3>1, <3>2, NotNone DEF Beginnings
  <2> HIDE DEF units, old
  <2>3. container'[c] = old \o units /\ \A d \in Components : d # c => container'[d] = container[d]
    BY <1>2, <1>6, <2>1
  <2>4. Len(old \o units) = Len(old) + Len(units)
    BY <1>7, ConcatProperties
  <2>5. /\ Size(container'[c]) = Size(container[c]) + Len(units) /\ Size(container[c]) \in Nat
        /\ One(container[c]) = 1 /\ One(container'[c]) = 1
    BY <1>6, <1>7, <1>8, <2>2, <2>3, <2>4 DEF Size, One
  <2>6. /\ Countable'
        /\ DiskBytes' = DiskBytes - Size(container[c]) + Size(container'[c])
        /\ DiskInodes' = DiskInodes - One(container[c]) + One(container'[c])
    BY <2>1, <2>3, ContainerStep
  <2>7. PICK n \in Int : n = Len(units)
    BY <1>7
  <2>8. DiskBytes' = DiskBytes + n /\ DiskInodes' = DiskInodes + 0
    BY <1>5, <2>5, <2>6, <2>7
  <2>9. Count(n, 0) /\ (~ drifted' => ~ drifted) /\ lock' # Poisoned
    BY <1>4, <2>1, <2>7, NoneAssumption
  <2>10. UsageExactUntilDrift'
    BY <2>8, <2>9, CountedStep
  <2>11. TreeInv'
    <3>1. NextPart(part) \in {"component", "metadata", "spec"}
      BY DEF NextPart
    <3>2. calls'[i].pc = NextPart(part) /\ calls'[i].name = c
      BY <1>2, <2>1, GoneOn
    <3>3. calls'[i].pc \notin {"remove_spec", "remove_dirs"}
      BY <3>1, <3>2
    <3> QED
      BY <1>4, <2>1, <2>3, <3>2, <3>3, HolderTree
  <2> QED
    BY <2>6, <2>10, <2>11 DEF UsageInv
<1>10. CASE pull_write_fails(i)
  <2>1. /\ lock' = None /\ UNCHANGED <<dirs, imageSpec, usage>>
        /\ drifted' = (drifted \/ container' # container)
    BY <1>10 DEF pull_write_fails, Release
  <2>2. PICK s : container' = [container EXCEPT ![c] = s]
    BY <1>2, <1>10 DEF pull_write_fails
  <2>3. \A d \in Components : d # c => container'[d] = container[d]
    BY <1>2, <2>2
  <2>4. Countable'
    BY <2>1, <2>3, ContainerStep
  <2>5. UsageExactUntilDrift'
    <3>1. CASE container' = container
      <4>1. DiskBytes' = DiskBytes /\ DiskInodes' = DiskInodes
        BY <2>1, <3>1, SameAmounts
      <4>2. ~ drifted' => ~ drifted
        BY <2>1, Zenon
      <4> QED
        BY <2>1, <4>1, <4>2, NoneAssumption DEF UsageInv, UsageExactUntilDrift
    <3>2. CASE container' # container
      BY <2>1, <3>2 DEF UsageExactUntilDrift
    <3> QED
      BY <3>1, <3>2
  <2>6. TreeInv'
    BY <1>4, <2>1, <2>3, HolderTree, NoneAssumption
  <2> QED
    BY <2>4, <2>5, <2>6 DEF UsageInv
<1> QED
  BY <1>9, <1>10

(* The image spec is written into an empty file. *)
LEMMA UsageWritesSpec ==
  ASSUME StoreInv, StoreInv', UsageInv, NEW i \in Calls, pull_write_spec(i)
  PROVE  UsageInv'
<1>1. calls[i].pc = "spec"
  BY DEF pull_write_spec, At
<1>2. PICK c \in Components, g \in Images :
           /\ calls[i].name = c /\ calls[i].image = g /\ calls[i].pc \in Changing
           /\ Progress(calls[i].pc, c, g)
           /\ imageSpec = [d \in Components |-> imageSpec[d]]
  BY <1>1, Puller DEF Pulling
<1>3. component_path(c) \subseteq dirs /\ lock = i
  BY <1>1, <1>2, PullTree DEF Pulling, StoreInv, StoreTypeOK
<1>4. imageSpec[c] = <<>>
  BY <1>1, <1>2 DEF Progress
<1>5. /\ imageSpec' = [imageSpec EXCEPT ![c] = <<>> \o <<Unit("spec", g)>>]
      /\ Count(1, 0) /\ Goto(i, "sync") /\ UNCHANGED <<dirs, container, lock, drifted>>
  BY <1>2, <1>4 DEF pull_write_spec, history
<1>6. imageSpec'[c] = <<Unit("spec", g)>> /\ \A d \in Components : d # c => imageSpec'[d] = imageSpec[d]
  BY <1>2, <1>5
<1>7. /\ Size(imageSpec[c]) = 0 /\ One(imageSpec[c]) = 1
      /\ Size(imageSpec'[c]) = 1 /\ One(imageSpec'[c]) = 1
  BY <1>4, <1>6, NotNone DEF Size, One
<1>8. /\ Countable'
      /\ DiskBytes' = DiskBytes - Size(imageSpec[c]) + Size(imageSpec'[c])
      /\ DiskInodes' = DiskInodes - One(imageSpec[c]) + One(imageSpec'[c])
  BY <1>5, <1>6, SpecStep
<1>9. DiskBytes' = DiskBytes + 1 /\ DiskInodes' = DiskInodes + 0
  BY <1>7, <1>8, Amounts DEF UsageInv
<1>10. (~ drifted' => ~ drifted) /\ lock' # Poisoned
  BY <1>3, <1>5, NoneAssumption
<1>11. UsageExactUntilDrift'
  BY <1>5, <1>9, <1>10, CountedStep
<1>12. TreeInv'
  <2>1. calls'[i].pc = "sync" /\ calls'[i].name = c
    BY <1>2, <1>5, GoneOn
  <2> QED
    BY <1>3, <1>5, <1>6, <2>1, HolderTree
<1> QED
  BY <1>8, <1>11, <1>12 DEF UsageInv

(* A removed container file is taken off the counters, and while they are  *)
(* exact nothing panics.                                                   *)
LEMMA UsageRemovesContainer ==
  ASSUME StoreInv, StoreInv', UsageInv, Fits, NEW i \in Calls, remove_container(i)
  PROVE  UsageInv'
<1>1. PICK c \in Components :
           /\ calls[i].name = c /\ calls[i].pc \in Changing /\ lock = i
           /\ container = [d \in Components |-> container[d]]
  BY Remover DEF remove_container, At
<1> DEFINE size == Size(container[c])
           D == Detach(c)
<1>2. /\ container[c] # None /\ container' = [container EXCEPT ![c] = None]
      /\ UNCHANGED <<dirs, imageSpec, drifted>>
  BY <1>1 DEF remove_container, history
<1>3. IF Underflow(size, 1)
      THEN lock' = Poisoned
      ELSE /\ calls' = [D EXCEPT ![i].pc = "remove_spec"] /\ Count(- size, -1)
           /\ UNCHANGED lock
  BY <1>1, Zenon DEF remove_container
<1>4. D = [j \in Calls |-> D[j]] /\ D[i] = calls[i] /\ IsCall(calls[i])
  <2>1. D = [j \in Calls |-> D[j]]
    BY DEF Detach
  <2>2. D[i] = calls[i]
    BY <1>1, Detached
  <2> QED
    BY <2>1, <2>2 DEF StoreInv, CallInv
<1>5. size \in Nat
  BY Sizes
<1>6. container'[c] = None /\ \A d \in Components : d # c => container'[d] = container[d]
  BY <1>1, <1>2
<1>7. Size(container'[c]) = 0 /\ One(container'[c]) = 0 /\ One(container[c]) = 1
  BY <1>2, <1>6 DEF Size, One
<1>8. /\ Countable'
      /\ DiskBytes' = DiskBytes - size + Size(container'[c])
      /\ DiskInodes' = DiskInodes - One(container[c]) + One(container'[c])
      /\ size <= DiskBytes /\ One(container[c]) <= DiskInodes
  BY <1>2, <1>6, ContainerStep
<1> HIDE DEF size, D
<1>9. PICK b \in Int : b = - size
  BY <1>5
<1>10. DiskBytes' = DiskBytes + b /\ DiskInodes' = DiskInodes + (-1)
  BY <1>5, <1>7, <1>8, <1>9, Amounts DEF UsageInv
<1>11. UsageExactUntilDrift'
  <2>1. CASE drifted
    BY <1>2, <2>1 DEF UsageExactUntilDrift
  <2>2. CASE ~ drifted
    <3>1. ~ Underflow(size, 1)
      BY <1>5, <1>7, <1>8, <2>2, NoUnderflow
    <3>2. Count(b, -1) /\ lock' # Poisoned
      BY <1>1, <1>3, <1>9, <3>1, NoneAssumption
    <3> QED
      BY <1>10, <2>2, <3>2, CountedStep
  <2> QED
    BY <2>1, <2>2
<1>12. TreeInv'
  <2>1. component_path(c) \subseteq dirs
    BY <1>2 DEF UsageInv, TreeInv, Housed
  <2>2. lock' \in {i, Poisoned}
    BY <1>1, <1>3
  <2>3. lock' = i => calls'[i].pc = "remove_spec" /\ calls'[i].name = c
    <3> SUFFICES ASSUME lock' = i
                 PROVE  calls'[i].pc = "remove_spec" /\ calls'[i].name = c
      OBVIOUS
    <3>1. calls' = [D EXCEPT ![i].pc = "remove_spec"]
      BY <1>3, NoneAssumption
    <3> DEFINE x == [calls[i] EXCEPT !.pc = "remove_spec"]
    <3>2. calls'[i] = x
      BY <1>4, <3>1
    <3>3. x = Changed(calls[i], "remove_spec", calls[i].image, calls[i].removed,
                      calls[i].component, calls[i].quiet)
      BY <1>4, CallFields, Zenon
    <3> HIDE DEF x
    <3> QED
      BY <1>1, <3>2, <3>3 DEF Changed
  <2> QED
    BY <1>2, <1>6, <2>1, <2>2, <2>3, HolderTree
<1> QED
  BY <1>8, <1>11, <1>12 DEF UsageInv

(* So is a removed image spec. *)
LEMMA UsageRemovesSpec ==
  ASSUME StoreInv, StoreInv', UsageInv, Fits, NEW i \in Calls, remove_spec(i)
  PROVE  UsageInv'
<1>1. PICK c \in Components :
           /\ calls[i].name = c /\ calls[i].pc \in Changing /\ lock = i
           /\ imageSpec = [d \in Components |-> imageSpec[d]]
  BY Remover DEF remove_spec, At
<1> DEFINE size == Size(imageSpec[c])
<1>2. /\ calls[i].pc = "remove_spec" /\ imageSpec[c] # None
      /\ imageSpec' = [imageSpec EXCEPT ![c] = None]
      /\ UNCHANGED <<dirs, container, drifted>>
  BY <1>1 DEF remove_spec, At, history
<1>3. IF Underflow(size, 1)
      THEN lock' = Poisoned
      ELSE Count(- size, -1) /\ Goto(i, "remove_dirs") /\ UNCHANGED lock
  BY <1>1, Zenon DEF remove_spec, Panic
<1>4. component_path(c) \subseteq dirs /\ container[c] = None
  BY <1>1, <1>2 DEF UsageInv, TreeInv, CallTree, Changing
<1>5. size \in Nat
  BY Sizes
<1>6. imageSpec'[c] = None /\ \A d \in Components : d # c => imageSpec'[d] = imageSpec[d]
  BY <1>1, <1>2
<1>7. Size(imageSpec'[c]) = 0 /\ One(imageSpec'[c]) = 0 /\ One(imageSpec[c]) = 1
  BY <1>2, <1>6 DEF Size, One
<1>8. /\ Countable'
      /\ DiskBytes' = DiskBytes - size + Size(imageSpec'[c])
      /\ DiskInodes' = DiskInodes - One(imageSpec[c]) + One(imageSpec'[c])
      /\ size <= DiskBytes /\ One(imageSpec[c]) <= DiskInodes
  BY <1>2, <1>6, SpecStep
<1> HIDE DEF size
<1>9. PICK b \in Int : b = - size
  BY <1>5
<1>10. DiskBytes' = DiskBytes + b /\ DiskInodes' = DiskInodes + (-1)
  BY <1>5, <1>7, <1>8, <1>9, Amounts DEF UsageInv
<1>11. UsageExactUntilDrift'
  <2>1. CASE drifted
    BY <1>2, <2>1 DEF UsageExactUntilDrift
  <2>2. CASE ~ drifted
    <3>1. ~ Underflow(size, 1)
      BY <1>5, <1>7, <1>8, <2>2, NoUnderflow
    <3>2. Count(b, -1) /\ lock' # Poisoned
      BY <1>1, <1>3, <1>9, <3>1, NoneAssumption
    <3> QED
      BY <1>10, <2>2, <3>2, CountedStep
  <2> QED
    BY <2>1, <2>2
<1>12. TreeInv'
  <2>1. lock' \in {i, Poisoned}
    BY <1>1, <1>3
  <2>2. lock' = i => calls'[i].name = c
    BY <1>1, <1>3, GoneOn, NoneAssumption
  <2>3. container'[c] = None /\ \A d \in Components : container'[d] = container[d]
    BY <1>2, <1>4
  <2> QED
    BY <1>2, <1>4, <1>6, <2>1, <2>2, <2>3, HolderTree
<1> QED
  BY <1>8, <1>11, <1>12 DEF UsageInv

(* A directory that is removed as empty holds no other component.          *)
LEMMA OthersHoused ==
  ASSUME UsageInv, NEW c \in Components, NEW S \in SUBSET EmptyDirs(c),
         container[c] = None, imageSpec[c] = None, dirs' = dirs \ S,
         UNCHANGED <<container, imageSpec>>, NEW d \in Components
  PROVE  Housed(d)'
<1> SUFFICES ASSUME container[d] # None \/ imageSpec[d] # None, NEW p \in component_path(d)
             PROVE  p \in dirs \ S
  BY DEF Housed
<1>1. d # c
  OBVIOUS
<1>2. component_path(d) \subseteq dirs
  BY DEF UsageInv, TreeInv, Housed
<1>3. d \in dirs /\ IsPrefix(p, d)
  BY <1>2, PathEnds
<1>4. d \notin component_path(c)
  BY <1>1, PathEnds
<1>5. p \notin EmptyDirs(c)
  BY <1>3, <1>4, Zenon DEF EmptyDirs
<1> QED
  BY <1>2, <1>5

(* Removed directories are taken off the counters. *)
LEMMA UsageRemovesDirs ==
  ASSUME StoreInv, StoreInv', UsageInv, Fits, NEW i \in Calls, remove_dirs(i)
  PROVE  UsageInv'
<1>1. PICK c \in Components :
           /\ calls[i].name = c /\ calls[i].pc \in Changing /\ lock = i
  BY Remover DEF remove_dirs, At
<1>2. PICK empty : empty = EmptyDirs(c)
  OBVIOUS
<1>3. PICK panics \in BOOLEAN : panics = Underflow(0, Cardinality(empty))
  BY DEF Underflow
<1>4. PICK S : S = {p \in empty : panics => 3 - Len(p) <= usage.inodes}
  OBVIOUS
<1>5. /\ calls[i].pc = "remove_dirs" /\ dirs' = dirs \ S
      /\ IF panics THEN lock' = Poisoned ELSE lock' = None /\ Count(0, - Cardinality(S))
      /\ UNCHANGED <<container, imageSpec, drifted>>
  BY <1>1, <1>2, <1>3, <1>4, Zenon DEF remove_dirs, At, Panic, Release, history
<1>6. component_path(c) \subseteq dirs /\ container[c] = None /\ imageSpec[c] = None
  BY <1>1, <1>5 DEF UsageInv, TreeInv, CallTree, Changing
<1>7. empty \subseteq component_path(c) /\ S \subseteq empty /\ (~ panics => S = empty)
  BY <1>2, <1>4 DEF EmptyDirs
<1>8. Countable /\ DiskBytes \in Nat /\ DiskInodes \in Nat /\ Cardinality(dirs) \in Nat
      /\ Cardinality(Files(container)) \in Nat /\ Cardinality(Files(imageSpec)) \in Nat
  BY Amounts DEF UsageInv
<1>9. /\ IsFiniteSet(S) /\ Cardinality(S) \in Nat
      /\ IsFiniteSet(empty) /\ Cardinality(empty) \in Nat
  BY <1>7, PathFinite
<1>10. /\ IsFiniteSet(dirs') /\ Cardinality(dirs) = Cardinality(dirs') + Cardinality(S)
       /\ Cardinality(dirs') \in Nat
  <2>1. dirs = dirs' \cup S /\ dirs' \cap S = {}
    BY <1>5, <1>6, <1>7
  <2>2. IsFiniteSet(dirs')
    BY <1>5, <1>8, FS_Difference DEF Countable
  <2> QED
    BY <1>9, <2>1, <2>2, DisjointUnion, Zenon
<1>11. Countable' /\ DiskBytes' = DiskBytes
  BY <1>5, <1>8, <1>10 DEF Countable, DiskBytes, Files, Bytes
<1>12. /\ DiskInodes = Cardinality(dirs) + Cardinality(Files(container)) + Cardinality(Files(imageSpec))
       /\ DiskInodes' = Cardinality(dirs') + Cardinality(Files(container)) + Cardinality(Files(imageSpec))
  BY <1>5 DEF DiskInodes, Files
<1>13. PICK n \in Int : n = - Cardinality(S)
  BY <1>9
<1>14. DiskInodes' = DiskInodes + n /\ DiskBytes' = DiskBytes + 0
  BY <1>8, <1>9, <1>10, <1>11, <1>12, <1>13
<1>15. Cardinality(empty) <= DiskInodes
  <2>1. empty \in SUBSET dirs
    BY <1>6, <1>7
  <2>2. Cardinality(empty) <= Cardinality(dirs)
    BY <1>8, <2>1, FS_Subset DEF Countable
  <2> QED
    BY <1>8, <1>9, <1>12, <2>2
<1>16. UsageExactUntilDrift'
  <2>1. CASE drifted
    BY <1>5, <2>1 DEF UsageExactUntilDrift
  <2>2. CASE ~ drifted
    <3>1. ~ panics
      BY <1>3, <1>8, <1>9, <1>15, <2>2, NoUnderflow
    <3>2. Count(0, n) /\ lock' # Poisoned
      BY <1>5, <1>13, <3>1, NoneAssumption
    <3> QED
      BY <1>14, <2>2, <3>2, CountedStep
  <2> QED
    BY <2>1, <2>2
<1>17. TreeInv'
  <2>1. \A d \in Components : Housed(d)'
    BY <1>2, <1>5, <1>6, <1>7, OthersHoused
  <2>2. lock' \notin Calls
    BY <1>5, NoneAssumption
  <2> QED
    BY <2>1, <2>2, HolderAlone DEF TreeInv
<1> QED
  BY <1>11, <1>16, <1>17 DEF UsageInv

(* Without directories there are no files. *)
LEMMA NothingThere ==
  ASSUME UsageInv, dirs = {}
  PROVE  DiskBytes = 0 /\ DiskInodes = 0
<1>1. \A c \in Components : container[c] = None /\ imageSpec[c] = None
  BY PathEnds DEF UsageInv, TreeInv, Housed
<1>2. Files(container) = {} /\ Files(imageSpec) = {}
  BY <1>1 DEF Files
<1>3. \A c \in Components : Size(container[c]) = 0 /\ Size(imageSpec[c]) = 0
  BY <1>1 DEF Size
<1>4. Bytes(container) = {} /\ Bytes(imageSpec) = {}
  BY <1>3 DEF Bytes
<1>5. Cardinality({}) = 0
  BY FS_EmptySet
<1> QED
  BY <1>2, <1>4, <1>5 DEF DiskBytes, DiskInodes

(* A process that starts on an empty store starts with exact counters. *)
LEMMA UsageRestarts ==
  ASSUME StoreInv', UsageInv, restart
  PROVE  UsageInv'
<1>1. /\ lock' = None /\ usage' = [bytes |-> 0, inodes |-> 0]
      /\ drifted' = (drifted \/ dirs # {}) /\ UNCHANGED <<dirs, container, imageSpec>>
  BY DEF restart, disk
<1>2. Countable' /\ DiskBytes' = DiskBytes /\ DiskInodes' = DiskInodes
  BY <1>1, SameAmounts
<1>3. UsageExactUntilDrift'
  <2>1. CASE dirs = {}
    <3>1. DiskBytes' = 0 /\ DiskInodes' = 0
      BY <1>2, <2>1, NothingThere
    <3>2. 0 % U64 = 0
      BY StoreAssumption, ModSmall
    <3> QED
      BY <1>1, <3>1, <3>2, NoneAssumption DEF UsageExactUntilDrift
  <2>2. CASE dirs # {}
    BY <1>1, <2>2 DEF UsageExactUntilDrift
  <2> QED
    BY <2>1, <2>2
<1>4. TreeInv'
  BY <1>1, ReleasedTree
<1> QED
  BY <1>2, <1>3, <1>4 DEF UsageInv

(* An empty store is counted exactly. *)
LEMMA InitUsage == Init => UsageInv
<1> SUFFICES ASSUME Init PROVE UsageInv
  OBVIOUS
<1>1. /\ dirs = {} /\ ~ drifted /\ lock = None /\ usage = [bytes |-> 0, inodes |-> 0]
      /\ \A c \in Components : container[c] = None /\ imageSpec[c] = None
      /\ \A i \in Calls : calls[i].pc = "idle"
  BY DEF Init, Idle, Handler
<1>2. Files(container) = {} /\ Files(imageSpec) = {}
  BY <1>1 DEF Files
<1>3. \A c \in Components : Size(container[c]) = 0 /\ Size(imageSpec[c]) = 0
  BY <1>1 DEF Size
<1>4. Bytes(container) = {} /\ Bytes(imageSpec) = {}
  BY <1>3 DEF Bytes
<1>5. IsFiniteSet({}) /\ Cardinality({}) = 0
  BY FS_EmptySet
<1>6. Countable
  BY <1>1, <1>2, <1>4, <1>5 DEF Countable
<1>7. DiskBytes = 0 /\ DiskInodes = 0
  BY <1>1, <1>2, <1>4, <1>5 DEF DiskBytes, DiskInodes
<1>8. 0 % U64 = 0
  BY StoreAssumption, ModSmall
<1>9. UsageExactUntilDrift
  BY <1>1, <1>7, <1>8, NoneAssumption DEF UsageExactUntilDrift
<1>10. TreeInv
  BY <1>1 DEF TreeInv, Housed, CallTree, Changing
<1> QED
  BY <1>6, <1>9, <1>10 DEF UsageInv

(* Every step keeps the counters exact or lets them drift. *)
LEMMA NextUsage == StoreInv /\ StoreInv' /\ UsageInv /\ Fits /\ [Next]_vars => UsageInv'
<1> SUFFICES ASSUME StoreInv, StoreInv', UsageInv, Fits, [Next]_vars PROVE UsageInv'
  OBVIOUS
<1>1. CASE UNCHANGED vars
  <2>1. UNCHANGED <<dirs, container, imageSpec, usage, drifted, lock, calls>>
    BY <1>1 DEF vars, disk, history
  <2>2. TreeInv'
    BY <2>1 DEF UsageInv, TreeInv, Housed, CallTree
  <2> QED
    BY <2>1, <2>2, IdleStep
<1>2. CASE restart
  BY <1>2, UsageRestarts
<1>3. CASE \E i \in Calls :
       \/ pull_image(i) \/ fetch(i) \/ pull_lock(i) \/ pull_create_container(i)
       \/ pull_create_spec(i) \/ pull_write(i) \/ pull_write_spec(i)
       \/ pull_sync(i) \/ pull_lock_fails(i) \/ pull_create_fails(i)
       \/ pull_write_fails(i) \/ pull_sync_fails(i)
       \/ remove_image(i) \/ remove_lock(i) \/ remove_container(i)
       \/ remove_spec(i) \/ remove_fails(i) \/ remove_dirs(i)
       \/ get(i) \/ get_length(i) \/ get_component(i) \/ get_metadata(i)
       \/ image_status(i) \/ get_image(i) \/ list_images(i)
       \/ image_fs_info(i) \/ filesystem_usage(i)
       \/ lock_poisoned(i) \/ cancel(i)
  BY <1>3, UsageOthers, UsageReleases, UsageLocks, UsageRemoveLocks, UsageLockFails, UsageCreates,
     UsageWrites, UsageWritesSpec, UsageRemovesContainer, UsageRemovesSpec, UsageRemovesDirs
<1> QED
  BY <1>1, <1>2, <1>3 DEF Next

(* On a disk that its counters can count, FilesystemUsage is exactly what  *)
(* is on disk until an image is pulled over an old one, a write or mkdir   *)
(* stops half way or the process starts on a store that is not empty, and  *)
(* until then no removal panics and poisons the mutex: for any number of   *)
(* handlers, components and images, and all faults.                        *)
THEOREM UsageExact == Spec /\ []Fits => []UsageExactUntilDrift
<1>1. UsageInv => UsageExactUntilDrift
  BY DEF UsageInv
<1> QED
  BY <1>1, InitUsage, NextUsage, StoreCorrect, PTL DEF Spec
=============================================================================

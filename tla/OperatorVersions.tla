-------------------------- MODULE OperatorVersions --------------------------
(***************************************************************************)
(* The operator leaves the replicas of deployments alone, for any objects, *)
(* users, faults and bounds.                                               *)
(*                                                                         *)
(* It updates a deployment with the number of replicas in its cache, so    *)
(* this rests on what versions are for: a copy with the latest version is  *)
(* the latest object, wherever the copy is.                                *)
(***************************************************************************)
EXTENDS Operator, SequenceTheorems, TLAPS

(* A copy of object o that, if it has the version of o, is the same.       *)
IsCopy(o, copy) ==
  /\ IsObject(copy)
  /\ copy.rv = api[o].rv => copy = api[o]

(* What versions promise about the cache and the events on their way to    *)
(* it.                                                                     *)
VersionInv ==
  /\ api = [o \in Objects |-> api[o]]
  /\ cache = [o \in Objects |-> cache[o]]
  /\ watch = [k \in Kinds |-> watch[k]]
  /\ \A o \in Objects : IsObject(api[o]) /\ IsCopy(o, cache[o])
  /\ \A k \in Kinds :
       /\ \E S : watch[k] \in Seq(S)
       /\ \A i \in 1..Len(watch[k]) :
            watch[k][i][1] \in Objects =>
              Kind(watch[k][i][1]) = k /\ IsCopy(watch[k][i][1], watch[k][i][2])

(* An event that is added to a stream comes after the others. *)
LEMMA Appended ==
  ASSUME NEW s, NEW S, s \in Seq(S), NEW x
  PROVE  /\ \E T : Append(s, x) \in Seq(T)
         /\ Len(Append(s, x)) = Len(s) + 1
         /\ \A i \in 1..Len(s) : Append(s, x)[i] = s[i]
         /\ Append(s, x)[Len(s) + 1] = x
<1>1. s \in Seq(S \cup {x})
  OBVIOUS
<1>2. Append(s, x) \in Seq(S \cup {x})
  BY <1>1
<1> QED
  BY <1>1, <1>2

(* What remains of a stream when its first event is taken. *)
LEMMA Dropped ==
  ASSUME NEW s, NEW S, s \in Seq(S), s # <<>>
  PROVE  /\ \E T : Tail(s) \in Seq(T)
         /\ 1 \in 1..Len(s) /\ Head(s) = s[1]
         /\ \A i \in 1..Len(Tail(s)) : i + 1 \in 1..Len(s) /\ Tail(s)[i] = s[i + 1]
<1>1. Tail(s) \in Seq(S) /\ Len(Tail(s)) = Len(s) - 1 /\ Len(s) \in Nat \ {0}
  BY HeadTailProperties, EmptySeq, LenProperties
<1> QED
  BY <1>1, HeadTailProperties

(* Fields of objects are changed one at a time. *)
LEMMA ObjectFields ==
  ASSUME NEW x, IsObject(x), NEW v
  PROVE  /\ IsObject([x EXCEPT !.spec = v])
         /\ IsObject([x EXCEPT !.status = v])
         /\ IsObject([x EXCEPT !.owner = v])
         /\ IsObject([x EXCEPT !.uid = v])
         /\ IsObject([x EXCEPT !.exists = v])
         /\ IsObject([x EXCEPT !.spec.replicas = v])
         /\ v \in Int => /\ IsObject([x EXCEPT !.rv = v])
                         /\ [x EXCEPT !.rv = v].rv = v
                         /\ [x EXCEPT !.rv = v].spec = x.spec
         /\ [x EXCEPT !.spec = v].rv = x.rv
         /\ [x EXCEPT !.spec = v].spec = v
  BY DEF IsObject

(* The object that a worker sends differs from the one it read in the spec. *)
LEMMA SpecChanged ==
  ASSUME NEW x, IsObject(x), NEW v, NEW y, y = [x EXCEPT !.spec = v]
  PROVE  IsObject(y) /\ y.rv = x.rv /\ y.spec = v
<1>1. IsObject([x EXCEPT !.spec = v])
  BY ObjectFields, Zenon
<1>2. [x EXCEPT !.spec = v].rv = x.rv /\ [x EXCEPT !.spec = v].spec = v
  BY ObjectFields, Zenon
<1> QED
  BY <1>1, <1>2, Zenon

(* What is deleted, created by users, or created by the operator, is an object. *)
LEMMA AbsentObject == IsObject(Absent)
  BY DEF IsObject, Absent

(* A new object has the spec it was made with. *)
LEMMA NewObject ==
  ASSUME NEW uid, NEW spec, NEW owner
  PROVE  IsObject(New(uid, spec, owner)) /\ New(uid, spec, owner).spec = spec
  BY DEF IsObject, New

(* So has a resource that the operator creates. *)
LEMMA ExpectedObject ==
  ASSUME NEW c, NEW actual
  PROVE  /\ IsObject(Expected(c, actual))
         /\ Expected(c, actual).spec = ExpectedSpec(c, actual)
  BY NewObject DEF Expected

(* A stream may be empty. *)
LEMMA EmptyStream == (\E S : <<>> \in Seq(S)) /\ 1..Len(<<>>) = {}
<1>1. <<>> \in Seq({}) /\ Len(<<>>) = 0 /\ 1..0 = {}
  OBVIOUS
<1>2. \E S : <<>> \in Seq(S)
  BY <1>1
<1> QED
  BY <1>1, <1>2

(* The cache and the events on their way hold versions in use. *)
LEMMA HeldVersions ==
  ASSUME VersionInv, NEW o \in Objects
  PROVE  /\ cache[o].rv \in InUse(o)
         /\ \A k \in Kinds : \A i \in 1..Len(watch[k]) :
              watch[k][i][1] = o => watch[k][i][2].rv \in InUse(o)
<1>1. cache[o].rv \in InUse(o)
  BY DEF InUse
<1>2. ASSUME NEW k \in Kinds, NEW i \in 1..Len(watch[k]), watch[k][i][1] = o
      PROVE  watch[k][i][2].rv \in InUse(o)
  <2>1. Kind(o) = k
    BY <1>2 DEF VersionInv
  <2>2. PICK S : watch[k] \in Seq(S)
    BY DEF VersionInv
  <2>3. i \in DOMAIN watch[k]
    BY <2>2
  <2> QED
    BY <1>2, <2>1, <2>3 DEF InUse
<1> QED
  BY <1>1, <1>2

(* A write changes nothing, or makes a version that nobody has. *)
LEMMA StoreEffect ==
  ASSUME NEW o, NEW object, Store(o, object)
  PROVE  \/ UNCHANGED <<api, watch>>
         \/ \E rv \in Int \ InUse(o) :
              /\ api' = [api EXCEPT ![o] = [object EXCEPT !.rv = rv]]
              /\ watch' = [watch EXCEPT ![Kind(o)] = Append(@, <<o, [object EXCEPT !.rv = rv]>>)]
<1>1. \A rv \in Versions : rv \in Int
  BY VersionsAssumption
<1>2. \A rv \in Versions \ InUse(o) : rv \in Int \ InUse(o)
  BY <1>1
<1> QED
  BY <1>2, Zenon DEF Store

(* So no copy of what was there before is taken for what was written. *)
LEMMA StoreStep ==
  ASSUME VersionInv, NEW o, NEW object, o \in Objects => IsObject(object),
         Store(o, object), UNCHANGED cache
  PROVE  VersionInv'
<1>1. CASE UNCHANGED <<api, watch>>
  BY <1>1 DEF VersionInv, IsCopy
<1>2. ASSUME NEW rv \in Int \ InUse(o),
             api' = [api EXCEPT ![o] = [object EXCEPT !.rv = rv]],
             watch' = [watch EXCEPT ![Kind(o)] = Append(@, <<o, [object EXCEPT !.rv = rv]>>)]
      PROVE  VersionInv'
  <2> DEFINE stored == [object EXCEPT !.rv = rv]
             StaysCopy(p, copy) == /\ IsObject(copy)
                                   /\ copy.rv = api'[p].rv => copy = api'[p]
  <2>1. \A p \in Objects : IsObject(api[p])
    BY DEF VersionInv
  <2>2. o \in Objects => IsObject(stored) /\ stored.rv = rv
    <3> SUFFICES ASSUME IsObject(object), rv \in Int
                 PROVE  IsObject([object EXCEPT !.rv = rv]) /\ [object EXCEPT !.rv = rv].rv = rv
      OBVIOUS
    <3> QED
      BY DEF IsObject
  <2>3. api' = [api EXCEPT ![o] = stored]
    BY <1>2
  <2>4. \A k \in Kinds : /\ k # Kind(o) => watch'[k] = watch[k]
                         /\ k = Kind(o) => watch'[k] = Append(watch[k], <<o, stored>>)
    BY <1>2 DEF VersionInv
  <2>5. watch' = [k \in Kinds |-> watch'[k]]
    BY <1>2 DEF VersionInv
  <2> HIDE DEF stored
  <2>6. \A p \in Objects : /\ p # o => api'[p] = api[p]
                           /\ p = o => api'[p] = stored
    BY <2>3 DEF VersionInv
  <2>7. \A p \in Objects : IsObject(api'[p])
    BY <2>1, <2>2, <2>6
  <2>8. \A p \in Objects : \A copy :
          IsCopy(p, copy) /\ (p = o => copy.rv # rv) => StaysCopy(p, copy)
    BY <2>2, <2>6 DEF IsCopy
  <2>9. o \in Objects => StaysCopy(o, stored)
    BY <2>2, <2>6
  <2>10. \A p \in Objects : StaysCopy(p, cache'[p])
    <3> SUFFICES ASSUME NEW p \in Objects PROVE StaysCopy(p, cache[p])
      OBVIOUS
    <3>1. IsCopy(p, cache[p])
      BY DEF VersionInv
    <3>2. p = o => cache[p].rv # rv
      BY <1>2, HeldVersions
    <3> HIDE DEF StaysCopy
    <3> QED
      BY <2>8, <3>1, <3>2
  <2>11. ASSUME NEW k \in Kinds, NEW i \in 1..Len(watch[k]), watch[k][i][1] \in Objects
         PROVE  Kind(watch[k][i][1]) = k /\ StaysCopy(watch[k][i][1], watch[k][i][2])
    <3>1. Kind(watch[k][i][1]) = k /\ IsCopy(watch[k][i][1], watch[k][i][2])
      BY <2>11 DEF VersionInv
    <3>2. watch[k][i][1] = o => watch[k][i][2].rv # rv
      BY <1>2, <2>11, HeldVersions
    <3> HIDE DEF StaysCopy
    <3> QED
      BY <2>8, <2>11, <3>1, <3>2
  <2>12. ASSUME NEW k \in Kinds
         PROVE  /\ \E S : watch'[k] \in Seq(S)
                /\ \A i \in 1..Len(watch'[k]) :
                     watch'[k][i][1] \in Objects =>
                       Kind(watch'[k][i][1]) = k /\ StaysCopy(watch'[k][i][1], watch'[k][i][2])
    <3> HIDE DEF StaysCopy
    <3>1. CASE k # Kind(o)
      <4>1. watch'[k] = watch[k]
        BY <2>4, <3>1
      <4>2. \E S : watch[k] \in Seq(S)
        BY DEF VersionInv
      <4> QED
        BY <2>11, <4>1, <4>2
    <3>2. CASE k = Kind(o)
      <4> DEFINE s == watch[k]
                 e == <<o, stored>>
      <4>1. PICK S : s \in Seq(S)
        BY DEF VersionInv
      <4>2. watch'[k] = Append(s, e)
        BY <2>4, <3>2
      <4>3. e[1] = o /\ e[2] = stored
        OBVIOUS
      <4> HIDE DEF e
      <4>4. /\ \E T : Append(s, e) \in Seq(T)
            /\ Len(Append(s, e)) = Len(s) + 1
            /\ \A i \in 1..Len(s) : Append(s, e)[i] = s[i]
            /\ Append(s, e)[Len(s) + 1] = e
        BY <4>1, Appended
      <4>5. \A i \in 1..Len(s) :
              s[i][1] \in Objects => Kind(s[i][1]) = k /\ StaysCopy(s[i][1], s[i][2])
        BY <2>11
      <4>6. e[1] \in Objects => Kind(e[1]) = k /\ StaysCopy(e[1], e[2])
        BY <2>9, <3>2, <4>3
      <4>7. Len(s) \in Nat
        BY <4>1
      <4> HIDE DEF s
      <4> QED
        BY <4>2, <4>4, <4>5, <4>6, <4>7
    <3> QED
      BY <3>1, <3>2
  <2>13. /\ api' = [p \in Objects |-> api'[p]]
         /\ cache' = [p \in Objects |-> cache'[p]]
    BY <2>3 DEF VersionInv
  <2> QED
    BY <2>5, <2>7, <2>10, <2>12, <2>13 DEF VersionInv, IsCopy
<1> QED
  BY <1>1, <1>2, StoreEffect

(* A call that writes does so with an object, or not at all. *)
LEMMA WriteStep ==
  ASSUME VersionInv, NEW o, NEW object, NEW allowed, NEW ok,
         o \in Objects => IsObject(object),
         Write(o, object, allowed, ok), UNCHANGED cache
  PROVE  VersionInv'
<1>1. CASE Store(o, object)
  BY <1>1, StoreStep
<1>2. CASE UNCHANGED <<api, watch>>
  BY <1>2 DEF VersionInv, IsCopy
<1> QED
  BY <1>1, <1>2 DEF Write

(* An event takes a copy from its stream to the cache. *)
LEMMA ObserveStep ==
  ASSUME VersionInv, NEW kind \in Kinds, Observe(kind)
  PROVE  VersionInv'
<1> DEFINE s == watch[kind]
<1>1. PICK S : s \in Seq(S)
  BY DEF VersionInv
<1>2. s # <<>> /\ api' = api
  BY DEF Observe
<1>3. /\ \E T : Tail(s) \in Seq(T)
      /\ 1 \in 1..Len(s) /\ Head(s) = s[1]
      /\ \A i \in 1..Len(Tail(s)) : i + 1 \in 1..Len(s) /\ Tail(s)[i] = s[i + 1]
  BY <1>1, <1>2, Dropped
<1>4. \A p, copy : IsCopy(p, copy)' <=> IsCopy(p, copy)
  BY <1>2 DEF IsCopy
<1>5. /\ cache' = [o \in Objects |-> cache'[o]]
      /\ \A o \in Objects : cache'[o] = IF o = s[1][1] THEN s[1][2] ELSE cache[o]
  BY <1>3 DEF Observe, VersionInv
<1>6. /\ watch' = [k \in Kinds |-> watch'[k]]
      /\ \A k \in Kinds : watch'[k] = IF k = kind THEN Tail(s) ELSE watch[k]
  BY DEF Observe, VersionInv
<1>7. \A i \in 1..Len(s) :
        s[i][1] \in Objects => Kind(s[i][1]) = kind /\ IsCopy(s[i][1], s[i][2])
  BY DEF VersionInv
<1>8. \A o \in Objects : IsObject(api[o]) /\ IsCopy(o, cache'[o])
  BY <1>3, <1>5, <1>7 DEF VersionInv
<1>9. ASSUME NEW k \in Kinds
      PROVE  /\ \E T : watch'[k] \in Seq(T)
             /\ \A i \in 1..Len(watch'[k]) :
                  watch'[k][i][1] \in Objects =>
                    Kind(watch'[k][i][1]) = k /\ IsCopy(watch'[k][i][1], watch'[k][i][2])
  <2>1. CASE k # kind
    BY <1>6, <2>1 DEF VersionInv
  <2>2. CASE k = kind
    <3>1. watch'[k] = Tail(s)
      BY <1>6, <2>2
    <3> HIDE DEF s
    <3> QED
      BY <1>3, <1>7, <2>2, <3>1
  <2> QED
    BY <2>1, <2>2
<1> QED
  BY <1>2, <1>5, <1>6, <1>8, <1>9 DEF VersionInv, IsCopy

(* A new process copies everything. *)
LEMMA SynchronizeStep ==
  ASSUME VersionInv, Synchronize, UNCHANGED api
  PROVE  VersionInv'
<1>1. \A o \in Objects : IsObject(api[o])
  BY DEF VersionInv
<1>2. /\ api' = api /\ cache' = api
      /\ watch' = [k \in Kinds |-> <<>>]
  BY DEF Synchronize
<1>3. /\ api' = [o \in Objects |-> api'[o]]
      /\ cache' = [o \in Objects |-> cache'[o]]
      /\ watch' = [k \in Kinds |-> watch'[k]]
      /\ \A k \in Kinds : watch'[k] = <<>>
  BY <1>2 DEF VersionInv
<1>4. \A k \in Kinds : /\ \E S : watch'[k] \in Seq(S)
                       /\ 1..Len(watch'[k]) = {}
  BY <1>3, EmptyStream
<1> QED
  BY <1>1, <1>2, <1>3, <1>4 DEF VersionInv, IsCopy

(* The first copies are exact. *)
LEMMA InitVersions == Init => VersionInv
<1> SUFFICES ASSUME Init PROVE VersionInv
  OBVIOUS
<1>1. PICK world \in Worlds :
        api = [o \in Objects |-> IF o \in DOMAIN world.objects THEN world.objects[o] ELSE Absent]
  BY DEF Init
<1>2. \A o \in Objects : IsObject(api[o])
  BY <1>1, WorldsAssumption, AbsentObject
<1>3. /\ api = [o \in Objects |-> api[o]]
      /\ cache = api
      /\ watch = [k \in Kinds |-> <<>>]
  BY <1>1 DEF Init
<1>4. \A o \in Objects : IsCopy(o, cache[o])
  BY <1>2, <1>3 DEF IsCopy
<1>5. \A k \in Kinds : watch[k] = <<>>
  BY <1>3
<1>6. \A k \in Kinds : (\E S : watch[k] \in Seq(S)) /\ 1..Len(watch[k]) = {}
  BY <1>5, EmptyStream
<1> QED
  BY <1>2, <1>3, <1>4, <1>6 DEF VersionInv

(* Every step keeps what versions promise: those of reconcilers with a    *)
(* report,                                                                 *)
LEMMA StatusVersions ==
  ASSUME VersionInv, NEW c, NEW status, NEW ok, updateAvailabilityStatus(c, status, ok)
  PROVE  VersionInv'
<1> DEFINE o == Own(c)
           object == [api[o] EXCEPT !.status = status]
           allowed == api[o].exists /\ api[o].rv = worker[c].copy.rv
<1>1. Write(o, object, allowed, ok) /\ UNCHANGED cache
  BY DEF updateAvailabilityStatus, UpdateStatus
<1> HIDE DEF o, allowed
<1>2. o \in Objects => IsObject(object)
  BY ObjectFields DEF VersionInv
<1> HIDE DEF object
<1> QED
  BY <1>1, <1>2, WriteStep

(* with creations, updates and deletions of resources, *)
LEMMA ResourceVersions ==
  ASSUME VersionInv, NEW c, NEW o, NEW ok, UNCHANGED cache,
         \/ Create(o, Expected(c, cache[o]), ok)
         \/ \E spec : Update(o, [cache[o] EXCEPT !.spec = spec], ok)
         \/ Delete(o, ok)
  PROVE  VersionInv'
<1>1. CASE Create(o, Expected(c, cache[o]), ok)
  <2> DEFINE object == Expected(c, cache[o])
             allowed == ~ api[o].exists
  <2>1. Write(o, object, allowed, ok)
    BY <1>1 DEF Create
  <2>2. IsObject(object)
    BY ExpectedObject
  <2> HIDE DEF object, allowed
  <2> QED
    BY <2>1, <2>2, WriteStep
<1>2. CASE \E spec : Update(o, [cache[o] EXCEPT !.spec = spec], ok)
  <2>1. PICK spec : Update(o, [cache[o] EXCEPT !.spec = spec], ok)
    BY <1>2
  <2> DEFINE object == [cache[o] EXCEPT !.spec = spec]
             allowed == api[o].exists /\ api[o].rv = object.rv
  <2>2. Write(o, object, allowed, ok)
    BY <2>1 DEF Update
  <2>3. o \in Objects => IsObject(object)
    BY ObjectFields DEF VersionInv, IsCopy
  <2> HIDE DEF object, allowed
  <2> QED
    BY <2>2, <2>3, WriteStep
<1>3. CASE Delete(o, ok)
  <2> DEFINE allowed == api[o].exists
  <2>1. Write(o, Absent, allowed, ok)
    BY <1>3 DEF Delete
  <2> HIDE DEF allowed
  <2> QED
    BY <2>1, AbsentObject, WriteStep
<1> QED
  BY <1>1, <1>2, <1>3

(* in each of their steps, *)
LEMMA ControllerVersions ==
  ASSUME VersionInv, NEW c \in Controllers, step(c) \/ read_fails(c)
  PROVE  VersionInv'
<1>1. CASE UNCHANGED <<api, cache, watch>>
  BY <1>1 DEF VersionInv, IsCopy
<1>2. CASE Reconcile(c) \/ list_domains(c) \/ list_servers(c) \/ read_fails(c)
  BY <1>1, <1>2 DEF Reconcile, list_domains, list_servers, list, read_fails, kubernetesVars
<1>3. CASE status_unknown(c) \/ status_false(c) \/ status_true(c)
  BY <1>3, StatusVersions DEF status_unknown, status_false, status_true
<1>4. CASE ensureClusterResourceExists(c)
  BY <1>1, <1>4, ResourceVersions DEF ensureClusterResourceExists
<1>5. CASE ensureResourceHasSpecAndLabels(c)
  BY <1>1, <1>5, ResourceVersions DEF ensureResourceHasSpecAndLabels
<1>6. CASE ensureResourceDeleted(c)
  BY <1>1, <1>6, ResourceVersions DEF ensureResourceDeleted
<1> QED
  BY <1>2, <1>3, <1>4, <1>5, <1>6 DEF step

(* and those of users and others. *)
LEMMA ChangeVersions ==
  ASSUME VersionInv, NEW o \in Objects,
         \/ user_creates(o) \/ user_updates(o) \/ user_deletes(o)
         \/ tamper(o) \/ autoscale(o) \/ collect(o)
  PROVE  VersionInv'
<1>1. \A object : Change(o, object) /\ IsObject(object) => VersionInv'
  BY StoreStep DEF Change
<1>2. IsObject(api[o])
  BY DEF VersionInv
<1>3. \A v : IsObject([api[o] EXCEPT !.spec = v])
  BY <1>2, ObjectFields
<1>4. \A v : IsObject([api[o] EXCEPT !.spec.replicas = v])
  BY <1>2, ObjectFields
<1>5. CASE user_creates(o)
  BY <1>1, <1>5, NewObject DEF user_creates
<1>6. CASE user_updates(o)
  BY <1>1, <1>3, <1>6 DEF user_updates
<1>7. CASE user_deletes(o)
  BY <1>1, <1>7, AbsentObject DEF user_deletes
<1>8. CASE tamper(o)
  BY <1>1, <1>3, <1>8, AbsentObject DEF tamper
<1>9. CASE autoscale(o)
  BY <1>1, <1>4, <1>9 DEF autoscale
<1>10. CASE collect(o)
  BY <1>10, StoreStep, AbsentObject DEF collect, Collect
<1> QED
  BY <1>5, <1>6, <1>7, <1>8, <1>9, <1>10

(* No step of the operator, its surroundings or its users breaks it. *)
LEMMA NextVersions == VersionInv /\ [Next]_vars => VersionInv'
<1> SUFFICES ASSUME VersionInv, [Next]_vars PROVE VersionInv'
  OBVIOUS
<1>1. CASE UNCHANGED vars
  BY <1>1 DEF vars, kubernetesVars, VersionInv, IsCopy
<1>2. CASE \E c \in Controllers : step(c) \/ read_fails(c)
  BY <1>2, ControllerVersions
<1>3. CASE \E kind \in Kinds : deliver(kind) \/ mapping_fails(kind)
  BY <1>3, ObserveStep DEF deliver, mapping_fails
<1>4. CASE \E o \in Objects : \/ user_creates(o) \/ user_updates(o) \/ user_deletes(o)
                              \/ tamper(o) \/ autoscale(o) \/ collect(o)
  BY <1>4, ChangeVersions
<1>5. CASE restart
  BY <1>5, SynchronizeStep DEF restart
<1> QED
  BY <1>1, <1>2, <1>3, <1>4, <1>5 DEF Next

(* A resource is written with the kind that its step is named after, and a *)
(* write changes one object.                                               *)
LEMMA TargetKind == ASSUME NEW c PROVE Kind(Target(c)) = worker[c].pc
  BY DEF Kind, Target

(* Neither another object nor a refused write changes an object. *)
LEMMA WriteElsewhere ==
  ASSUME VersionInv, NEW o \in Objects, NEW p, NEW object, NEW allowed, NEW ok,
         Write(p, object, allowed, ok), p # o \/ ~ allowed
  PROVE  api'[o] = api[o]
<1>1. CASE UNCHANGED <<api, watch>>
  BY <1>1
<1>2. CASE Store(p, object) /\ p # o
  <2>1. ASSUME NEW stored, api' = [api EXCEPT ![p] = stored]
        PROVE  api'[o] = api[o]
    BY <1>2, <2>1 DEF VersionInv
  <2> QED
    BY <1>1, <1>2, <2>1, StoreEffect
<1> QED
  BY <1>1, <1>2 DEF Write

(* What is stored of an update is what was sent. *)
LEMMA WriteHere ==
  ASSUME VersionInv, NEW o \in Objects, NEW object, IsObject(object), NEW allowed, NEW ok,
         Write(o, object, allowed, ok)
  PROVE  api'[o] = api[o] \/ api'[o].spec = object.spec
<1>1. CASE UNCHANGED <<api, watch>>
  BY <1>1
<1>2. CASE Store(o, object)
  <2>1. ASSUME NEW rv \in Int \ InUse(o),
               api' = [api EXCEPT ![o] = [object EXCEPT !.rv = rv]],
               watch' = [watch EXCEPT ![Kind(o)] = Append(@, <<o, [object EXCEPT !.rv = rv]>>)]
        PROVE  api'[o].spec = object.spec
    <3> DEFINE stored == [object EXCEPT !.rv = rv]
    <3>1. stored.spec = object.spec
      BY ObjectFields
    <3>2. api' = [api EXCEPT ![o] = stored]
      BY <2>1
    <3> HIDE DEF stored
    <3> QED
      BY <3>1, <3>2 DEF VersionInv
  <2> QED
    BY <1>1, <1>2, <2>1, StoreEffect
<1> QED
  BY <1>1, <1>2 DEF Write

(* An update that is not refused was made from the latest deployment. *)
LEMMA StepKeepsReplicas ==
  ASSUME VersionInv, NEW c \in Controllers, NEW o \in Objects,
         ensureResourceHasSpecAndLabels(c), Kind(o) = "Deployment", api[o].exists
  PROVE  api'[o].spec.replicas = api[o].spec.replicas
<1> DEFINE p == Target(c)
           actual == cache[p]
           spec == Expected(c, actual).spec
           object == [actual EXCEPT !.spec = spec]
<1>1. PICK ok \in BOOLEAN :
        \/ ~ actual.exists /\ Create(p, Expected(c, actual), ok)
        \/ actual.exists /\ Update(p, object, ok)
        \/ UNCHANGED <<api, watch, disturbances>>
  BY DEF ensureResourceHasSpecAndLabels
<1>2. CASE UNCHANGED <<api, watch, disturbances>>
  BY <1>2
<1>3. CASE Create(p, Expected(c, actual), ok)
  <2> DEFINE allowed == ~ api[p].exists
             created == Expected(c, actual)
  <2>1. Write(p, created, allowed, ok)
    BY <1>3 DEF Create
  <2>2. p # o \/ ~ allowed
    OBVIOUS
  <2> HIDE DEF p, allowed, created
  <2> QED
    BY <2>1, <2>2, WriteElsewhere
<1>4. CASE actual.exists /\ Update(p, object, ok)
  <2> DEFINE allowed == api[p].exists /\ api[p].rv = object.rv
  <2>1. Write(p, object, allowed, ok)
    BY <1>4 DEF Update
  <2>2. CASE p # o \/ ~ allowed
    <3> HIDE DEF p, allowed, object
    <3> QED
      BY <2>1, <2>2, WriteElsewhere
  <2>3. CASE p = o /\ allowed
    <3>1. IsCopy(o, actual) /\ IsObject(actual)
      BY <2>3 DEF VersionInv, IsCopy
    <3>2. IsObject(object) /\ object.rv = actual.rv /\ object.spec = spec
      <4>1. object = [actual EXCEPT !.spec = spec]
        OBVIOUS
      <4> HIDE DEF actual, spec, object
      <4> QED
        BY <3>1, <4>1, SpecChanged
    <3>3. actual = api[o]
      <4>1. api[o].rv = object.rv
        BY <2>3
      <4> HIDE DEF actual, object
      <4> QED
        BY <3>1, <3>2, <4>1 DEF IsCopy
    <3>4. worker[c].pc = "Deployment"
      BY <2>3, TargetKind
    <3>5. spec.replicas = actual.spec.replicas
      <4>1. spec = ExpectedSpec(c, actual)
        BY ExpectedObject
      <4> HIDE DEF actual, spec
      <4> QED
        BY <1>4, <3>4, <4>1 DEF ExpectedSpec, ReplicasOf
    <3>6. api'[o] = api[o] \/ api'[o].spec = object.spec
      <4>1. Write(o, object, allowed, ok)
        BY <2>1, <2>3
      <4> HIDE DEF allowed, object
      <4> QED
        BY <3>2, <4>1, WriteHere
    <3> HIDE DEF actual, spec, object
    <3> QED
      BY <3>2, <3>3, <3>5, <3>6
  <2> QED
    BY <2>2, <2>3
<1> QED
  BY <1>1, <1>2, <1>3, <1>4

(* A cached or announced copy of an object with its present version is the *)
(* object: versions identify what the operator has read, through faults,   *)
(* restarts and deletions.                                                 *)
THEOREM VersionsIdentify == Spec => []VersionInv
  BY InitVersions, NextVersions, PTL DEF Spec

(* The operator updates deployments from its cache and never changes how   *)
(* many replicas they have ("The number of replicas is controlled          *)
(* externally").                                                           *)
THEOREM Replicas == Spec => ReplicasKept
<1>1. VersionInv =>
        [\A c \in Controllers, o \in Objects :
           (/\ ensureResourceHasSpecAndLabels(c)
            /\ Kind(o) = "Deployment" /\ api[o].exists /\ api'[o].exists) =>
              api'[o].spec.replicas = api[o].spec.replicas]_vars
  BY StepKeepsReplicas
<1> QED
  BY <1>1, VersionsIdentify, PTL DEF ReplicasKept
=============================================================================

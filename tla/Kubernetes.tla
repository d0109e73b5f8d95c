----------------------------- MODULE Kubernetes -----------------------------
(***************************************************************************)
(* What the operator relies on of Kubernetes and of controller-runtime:    *)
(* an API server that refuses an update of anything but the latest version *)
(* of an object, caches that follow it through one stream of events per    *)
(* kind, and a garbage collector.  None of it is in the repository; it is  *)
(* modelled from how operator/internal/controller/ uses it.                *)
(***************************************************************************)
EXTENDS Integers, Sequences

CONSTANTS
  Objects,    \* pairs <<kind, name>>
  Versions,   \* bound: versions of an object that are told apart at a time
  Faults,     \* "write", "read", "restart"
  None

ASSUME VersionsAssumption == Versions \subseteq Nat

VARIABLES
  api,    \* the objects in the API server
  cache,  \* the objects as the operator sees them
  watch,  \* for each kind, the changes that have not reached the cache
  worker, \* what each reconciler is doing, with the copy of an object that it holds
  disturbances  \* bound: changes by users and faults still to come

Kind(o) == o[1]
Name(o) == o[2]
Kinds == {Kind(o) : o \in Objects}

\* An object is found with its version, its identity, and who owns it.  It
\* also has a new version when it is deleted.
Absent == [exists |-> FALSE, rv |-> 0, uid |-> 0, spec |-> None, status |-> None, owner |-> None]

\* An object that is sent to be created.
New(uid, spec, owner) ==
  [exists |-> TRUE, rv |-> 0, uid |-> uid, spec |-> spec, status |-> None, owner |-> owner]

\* What there is to know of an object, its version among it.
IsObject(x) ==
  /\ x = [exists |-> x.exists, rv |-> x.rv, uid |-> x.uid, spec |-> x.spec,
          status |-> x.status, owner |-> x.owner]
  /\ x.rv \in Int

Ref(o, object) == <<Kind(o), Name(o), object.uid>>

\* The versions of an object that somebody has.
InUse(o) ==
  {api[o].rv, cache[o].rv}
    \cup {worker[c].copy.rv : c \in {c \in DOMAIN worker : c = Kind(o) /\ worker[c].copy # None}}
    \cup {watch[Kind(o)][i][2].rv : i \in {i \in DOMAIN watch[Kind(o)] : watch[Kind(o)][i][1] = o}}

\* A change makes a new version and an event; a write that changes nothing does
\* not.  Versions are only compared for equality, so a new one is any that
\* nobody has; when all are in use, changes wait for the cache.
Store(o, object) ==
  IF [object EXCEPT !.rv = api[o].rv] = api[o]
  THEN UNCHANGED <<api, watch>>
  ELSE \E rv \in Versions \ InUse(o) :
         LET stored == [object EXCEPT !.rv = rv]
         IN  /\ \A n \in Versions \ InUse(o) : rv <= n
             /\ api' = [api EXCEPT ![o] = stored]
             /\ watch' = [watch EXCEPT ![Kind(o)] = Append(@, <<o, stored>>)]

\* A call that writes and is answered with success or an error.  It may also
\* fail for no reason, before or after it has been executed.
Write(o, object, allowed, ok) ==
  \/ /\ ok = allowed
     /\ IF allowed THEN Store(o, object) ELSE UNCHANGED <<api, watch>>
     /\ UNCHANGED disturbances
  \/ /\ allowed /\ ~ ok
     /\ "write" \in Faults /\ disturbances > 0
     /\ disturbances' = disturbances - 1
     /\ Store(o, object) \/ UNCHANGED <<api, watch>>

Create(o, object, ok) == Write(o, object, ~ api[o].exists, ok)

\* Update carries the version that was read.
Update(o, object, ok) == Write(o, object, api[o].exists /\ api[o].rv = object.rv, ok)

\* So does the update of a status, which writes nothing else.
UpdateStatus(o, copy, status, ok) ==
  Write(o, [api[o] EXCEPT !.status = status], api[o].exists /\ api[o].rv = copy.rv, ok)

\* Delete goes by the name alone.
Delete(o, ok) == Write(o, Absent, api[o].exists, ok)

OwnerOf(o) == <<api[o].owner[1], api[o].owner[2]>>

\* Objects whose owner is gone are deleted.
Orphaned(o) ==
  /\ api[o].exists
  /\ api[o].owner # None
  /\ ~ (api[OwnerOf(o)].exists /\ Ref(OwnerOf(o), api[OwnerOf(o)]) = api[o].owner)

Collect(o) ==
  /\ Orphaned(o)
  /\ Store(o, Absent)
  /\ UNCHANGED <<cache, disturbances>>

\* The next event of a kind reaches the cache.
Observe(kind) ==
  /\ watch[kind] # <<>>
  /\ cache' = [cache EXCEPT ![Head(watch[kind])[1]] = Head(watch[kind])[2]]
  /\ watch' = [watch EXCEPT ![kind] = Tail(@)]
  /\ UNCHANGED api

\* A process that starts reads everything before it does anything.
Synchronize ==
  /\ cache' = api
  /\ watch' = [k \in Kinds |-> <<>>]
=============================================================================

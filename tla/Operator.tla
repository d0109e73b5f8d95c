------------------------------ MODULE Operator ------------------------------
(***************************************************************************)
(* The operator: four reconcilers (operator/internal/controller/) that     *)
(* turn Vimanas, Domains, Servers and Components into gateways, routes,    *)
(* deployments and services.  The one for Servers does nothing.            *)
(*                                                                         *)
(* A reconciler works on one request at a time.  It reads the cache, which *)
(* lags behind the API server, and each call that writes is a step of its  *)
(* own.  Spec and labels of an object are one value, and so are all the    *)
(* fields that a user may set.  The id of a domain is unique and stays as  *)
(* it is; it need not be its name.  What the names of the resources of a   *)
(* component are made from is its name.  A status is known by the step it  *)
(* reports on.                                                             *)
(***************************************************************************)
EXTENDS Kubernetes, SequencesExt, FiniteSets

CONSTANTS
  Vimanas, Domains, Servers, Components,  \* names
  Id,          \* the id of each domain
  Variants,    \* what a user may choose for a field
  Worlds,      \* first objects, those that users work with, number of
               \* disturbances, and whether the operator starts or is at rest
  Defaulted    \* kinds of which the API server stores more than it is sent

VARIABLES
  queue,       \* requests of each reconciler
  unreported,  \* history: objects whose last report was lost
  overlooked,  \* history: objects of whose last change no reconciler was told
  users        \* the objects that users work with in this behaviour

kubernetesVars == <<api, cache, watch, disturbances>>
historyVars == <<unreported, overlooked, users>>
vars == <<kubernetesVars, queue, worker, historyVars>>

Controllers == {"Vimana", "Domain", "Component"}

Ids == {Id[d] : d \in Domains}

OperatorObjects ==
  ({"Vimana", "Gateway"} \X Vimanas) \cup ({"Domain"} \X Domains) \cup ({"GRPCRoute"} \X Ids)
    \cup ({"Server"} \X Servers) \cup ({"Component", "Deployment", "Service"} \X Components)
    \cup {<<"RuntimeClass", "vimana-runtime">>, <<"GatewayClass", "envoy-gateway">>,
          <<"EnvoyProxy", "envoy-gateway-config">>}

ASSUME ObjectsAssumption == Objects = OperatorObjects

ASSUME IdAssumption == \A d, e \in Domains : Id[d] = Id[e] => d = e

ASSUME WorldsAssumption ==
  \A world \in Worlds : \A o \in DOMAIN world.objects : IsObject(world.objects[o])

\* What users may ask for.
Specs(o) ==
  IF Kind(o) = "Server" THEN [label : Ids \cup {None}, versions : Variants]
  ELSE IF Kind(o) = "Vimana" THEN {"vimana"} ELSE Variants

Cached(kind) == {o \in Objects : Kind(o) = kind /\ cache[o].exists}
Existing(kind) == {o \in Objects : Kind(o) = kind /\ api[o].exists}

Idle == [pc |-> "idle", key |-> None, copy |-> None, items |-> None, failed |-> None]

\* The operator starts with a request for every object.  It is also looked at
\* from a state in which it has nothing more to do.
Requested == [c \in Controllers |-> {Name(o) : o \in Existing(c)}]

Init ==
  /\ \E world \in Worlds :
       /\ users = world.users
       /\ disturbances = world.disturbances
       /\ api = [o \in Objects |->
                   IF o \in DOMAIN world.objects THEN world.objects[o] ELSE Absent]
       /\ queue = IF world.starting THEN Requested ELSE [c \in Controllers |-> {}]
  /\ cache = api
  /\ watch = [k \in Kinds |-> <<>>]
  /\ worker = [c \in Controllers |-> Idle]
  /\ unreported = {} /\ overlooked = {}

-----------------------------------------------------------------------------
(* Requests: which events concern which reconciler *)


Owns(c) ==
  CASE c = "Vimana" -> {"Gateway", "EnvoyProxy"}
    [] c = "Domain" -> {"GRPCRoute"}
    [] c = "Component" -> {"Service", "Deployment"}

\* Requests go by the name of the owner, not by its identity.
OwnerRequest(c, o, object) ==
  IF Kind(o) \in Owns(c) /\ object.owner # None /\ object.owner[1] = c
  THEN {object.owner[2]} ELSE {}

\* The domain of a server is looked up by name, with the id in its label.
serverReconciliationRequest(object) ==
  {d \in Domains : d = object.spec.label /\ cache[<<"Domain", d>>].exists}

domainReconciliationRequest ==
  IF Cardinality(Cached("Vimana")) = 1 THEN {Name(o) : o \in Cached("Vimana")} ELSE {}

Requests(c, o, object) == (IF Kind(o) = c THEN {Name(o)} ELSE {}) \cup OwnerRequest(c, o, object)

\* Other objects that a change of this one concerns.
Mapped(c, o, object) ==
  CASE c = "Domain" /\ Kind(o) = "Server" -> serverReconciliationRequest(object)
    [] c = "Vimana" /\ Kind(o) = "Domain" -> domainReconciliationRequest
    [] OTHER -> {}

\* An update makes requests for the object before and after it.
Seen(o) == {object \in {cache[o], cache'[o]} : object.exists}

deliver(kind) ==
  /\ Observe(kind)
  /\ LET o == Head(watch[kind])[1]
     IN  queue' = [c \in Controllers |->
                     queue[c] \cup UNION {Requests(c, o, x) \cup Mapped(c, o, x) : x \in Seen(o)}]
  /\ UNCHANGED <<disturbances, worker, historyVars>>

\* The other object cannot be read: then nothing is requested for it, and
\* nothing is tried again.
mapping_fails(kind) ==
  /\ "read" \in Faults /\ disturbances > 0
  /\ disturbances' = disturbances - 1
  /\ kind \in {"Server", "Domain"}
  /\ Observe(kind)
  /\ LET o == Head(watch[kind])[1]
     IN  /\ \E failed \in SUBSET Seen(o) \ {{}} :
              queue' = [c \in Controllers |->
                          queue[c] \cup UNION {Requests(c, o, x) : x \in Seen(o)}
                            \cup UNION {Mapped(c, o, x) : x \in Seen(o) \ failed}]
         /\ overlooked' = overlooked \cup {o}
  /\ UNCHANGED <<worker, unreported, users>>

-----------------------------------------------------------------------------
(* Reconciling *)

\* What Reconcile does in order, after the object was read and before success
\* is reported.
Steps(c) ==
  CASE c = "Vimana" -> <<"RuntimeClass", "GatewayClass", "EnvoyProxy", "Domains", "Gateway">>
    [] c = "Domain" -> <<"Servers", "GRPCRoute">>
    [] c = "Component" -> <<"Deployment", "Service">>

ClusterResources == {"RuntimeClass", "GatewayClass"}
Ensured == {"EnvoyProxy", "Gateway", "GRPCRoute", "Deployment", "Service"}

At(c, pc) == worker[c].pc = pc
Own(c) == <<c, worker[c].key>>

After(c) ==
  LET steps == Steps(c)
      k == CHOOSE j \in DOMAIN steps : steps[j] = worker[c].pc
  IN  IF k = Len(steps) THEN "True" ELSE steps[k + 1]

\* The next step, or the report of the one that failed.
Proceed(c, ok) ==
  /\ worker' = [worker EXCEPT ![c].pc = IF ok THEN After(c) ELSE "False",
                              ![c].failed = IF ok THEN None ELSE worker[c].pc]
  /\ UNCHANGED queue


\* A request that failed is made again.
Return(c, ok) ==
  /\ worker' = [worker EXCEPT ![c] = Idle]
  /\ queue' = IF ok THEN queue ELSE [queue EXCEPT ![c] = @ \cup {worker[c].key}]

FirstStep(c, copy) == IF copy.status = None THEN "Unknown" ELSE Steps(c)[1]

Reconcile(c) ==
  /\ At(c, "idle")
  /\ \E key \in queue[c] :
       LET copy == cache[<<c, key>>]
       IN  /\ queue' = [queue EXCEPT ![c] = @ \ {key}]
           /\ worker' = IF copy.exists
                        THEN [worker EXCEPT ![c] = [Idle EXCEPT !.pc = FirstStep(c, copy),
                                                                !.key = key, !.copy = copy]]
                        ELSE worker
  /\ UNCHANGED <<kubernetesVars, historyVars>>

updateAvailabilityStatus(c, status, ok) ==
  /\ UpdateStatus(Own(c), worker[c].copy, status, ok)
  /\ UNCHANGED cache

\* The object is read again after its status was set, from the cache.  When
\* this fails it is as if the answer to the update was lost.
status_unknown(c) ==
  /\ At(c, "Unknown")
  /\ \E ok \in BOOLEAN :
       /\ updateAvailabilityStatus(c, "Reconciling", ok)
       /\ IF ok /\ cache[Own(c)].exists
          THEN /\ worker' = [worker EXCEPT ![c].pc = Steps(c)[1], ![c].copy = cache[Own(c)]]
               /\ UNCHANGED queue
          ELSE Return(c, FALSE)
  /\ UNCHANGED historyVars

\* Some step failed.  Whether this can be reported is not looked at.
status_false(c) ==
  /\ At(c, "False")
  /\ \E ok \in BOOLEAN : updateAvailabilityStatus(c, worker[c].failed, ok)
  /\ Return(c, FALSE)
  /\ UNCHANGED historyVars

\* A report of success is lost when nothing but a fault kept it from being made.
Report(c, ok) ==
  LET report == <<Own(c), worker[c].copy.uid>>
  IN  unreported' = CASE ok -> unreported \ {report}
                      [] ~ ok /\ disturbances' # disturbances -> unreported \cup {report}
                      [] OTHER -> unreported


\* Nor is it for success: the request is done even if the report was not made.
status_true(c) ==
  /\ At(c, "True")
  /\ \E ok \in BOOLEAN : updateAvailabilityStatus(c, "Reconciled", ok) /\ Report(c, ok)
  /\ Return(c, TRUE)
  /\ UNCHANGED <<overlooked, users>>

-----------------------------------------------------------------------------
(* The resources *)

Target(c) ==
  CASE worker[c].pc = "RuntimeClass" -> <<"RuntimeClass", "vimana-runtime">>
    [] worker[c].pc = "GatewayClass" -> <<"GatewayClass", "envoy-gateway">>
    [] worker[c].pc = "EnvoyProxy" -> <<"EnvoyProxy", "envoy-gateway-config">>
    [] worker[c].pc = "GRPCRoute" -> <<"GRPCRoute", Id[worker[c].key]>>
    [] OTHER -> <<worker[c].pc, worker[c].key>>

\* Mutant: the number of replicas is part of what is expected.
ReplicasOf_reset(actual) == 1

\* The number of replicas is kept, or one by default.
ReplicasOf(actual) == IF actual.exists THEN actual.spec.replicas ELSE 1

\* The name of the gateway is patched into the service of the proxy.
envoyProxyResource(name) == name

\* A listener for the domain and each of its aliases.
listener(o) == <<Id[Name(o)], cache[o].spec>>

\* A rule for the services of the server, with its versions and their weights.
rule(o) == <<Name(o), cache[o].spec.versions>>

\* What the resource should be, given the object and what was listed.
ExpectedSpec(c, actual) ==
  LET w == worker[c]
  IN  CASE w.pc = "EnvoyProxy" -> envoyProxyResource(w.key)
        [] w.pc = "Gateway" -> w.items
        [] w.pc = "GRPCRoute" -> [aliases |-> w.copy.spec, rules |-> w.items]
        [] w.pc = "Deployment" -> [image |-> w.copy.spec, replicas |-> ReplicasOf(actual)]
        [] w.pc = "Service" -> w.key
        [] OTHER -> w.pc

\* All but the EnvoyProxy and the cluster's resources are given an owner.
ExpectedOwner(c) ==
  IF worker[c].pc \in Ensured \ {"EnvoyProxy"} THEN Ref(Own(c), worker[c].copy) ELSE None

Expected(c, actual) == New(0, ExpectedSpec(c, actual), ExpectedOwner(c))

\* What is stored with defaults never equals what is expected.
SpecDiffers(o, actual, expected) == Kind(o) \in Defaulted \/ actual.spec # expected.spec

ensureClusterResourceExists(c) ==
  /\ worker[c].pc \in ClusterResources
  /\ LET o == Target(c)
     IN  \E ok \in BOOLEAN :
           /\ IF cache[o].exists THEN ok /\ UNCHANGED <<api, watch, disturbances>>
              ELSE Create(o, Expected(c, cache[o]), ok)
           /\ Proceed(c, ok)
  /\ overlooked' = {o \in overlooked : api'[o] = api[o]}
  /\ UNCHANGED <<cache, unreported, users>>

\* The owner of a resource that is already there is left as it is.
ensureResourceHasSpecAndLabels(c) ==
  /\ worker[c].pc \in Ensured
  /\ ~ (At(c, "Gateway") /\ worker[c].items = <<>>)
  /\ LET o == Target(c)
         actual == cache[o]
         expected == Expected(c, actual)
     IN  \E ok \in BOOLEAN :
           /\ IF ~ actual.exists THEN Create(o, expected, ok)
              ELSE IF SpecDiffers(o, actual, expected)
              THEN Update(o, [actual EXCEPT !.spec = expected.spec], ok)
              ELSE ok /\ UNCHANGED <<api, watch, disturbances>>
           /\ Proceed(c, ok)
  /\ overlooked' = {o \in overlooked : api'[o] = api[o]}
  /\ UNCHANGED <<cache, unreported, users>>

\* A gateway without listeners is not valid.  Nothing is reported of this.
ensureResourceDeleted(c) ==
  /\ At(c, "Gateway") /\ worker[c].items = <<>>
  /\ \E ok \in BOOLEAN :
       /\ IF cache[Target(c)].exists THEN Delete(Target(c), ok)
          ELSE ok /\ UNCHANGED <<api, watch, disturbances>>
       /\ Return(c, ok)
  /\ UNCHANGED <<cache, historyVars>>

\* A list comes in any order.
list(c, items) ==
  /\ \E sequence \in SetToSeqs(items) :
       worker' = [worker EXCEPT ![c].items = sequence, ![c].pc = After(c)]
  /\ UNCHANGED <<kubernetesVars, queue, historyVars>>

list_domains(c) ==
  /\ At(c, "Domains")
  /\ list(c, {listener(o) : o \in Cached("Domain")})

list_servers(c) ==
  /\ At(c, "Servers")
  /\ list(c, {rule(o) : o \in {s \in Cached("Server") : cache[s].spec.label = Id[worker[c].key]}})

\* The cache cannot be read, or the owner of a resource cannot be set.  A
\* request whose object cannot be read is made again.
read_fails(c) ==
  /\ "read" \in Faults /\ disturbances > 0
  /\ disturbances' = disturbances - 1
  /\ \/ At(c, "idle") /\ queue[c] # {} /\ UNCHANGED <<worker, queue>>
     \/ /\ worker[c].pc \in ToSet(Steps(c))
        /\ IF \/ worker[c].pc \in {"Domains", "Servers"}
              \/ At(c, "Gateway") /\ worker[c].items = <<>>
           THEN Return(c, FALSE)
           ELSE Proceed(c, FALSE)
  /\ UNCHANGED <<api, cache, watch, historyVars>>

\* After a restart everything is looked at.
restart ==
  /\ "restart" \in Faults /\ disturbances > 0
  /\ disturbances' = disturbances - 1
  /\ Synchronize
  /\ queue' = Requested
  /\ worker' = [c \in Controllers |-> Idle]
  /\ overlooked' = {}
  /\ UNCHANGED <<api, unreported, users>>

-----------------------------------------------------------------------------
(* Users, and everything else that changes the resources *)

Change(o, object) ==
  /\ disturbances > 0
  /\ disturbances' = disturbances - 1
  /\ Store(o, object)
  /\ UNCHANGED <<cache, queue, worker, unreported, users>>

user_creates(o) ==
  /\ o \in users /\ ~ api[o].exists
  /\ \E spec \in Specs(o) : Change(o, New(disturbances, spec, None))
  /\ UNCHANGED overlooked

user_updates(o) ==
  /\ o \in users /\ api[o].exists
  /\ \E spec \in Specs(o) \ {api[o].spec} : Change(o, [api[o] EXCEPT !.spec = spec])
  /\ UNCHANGED overlooked

user_deletes(o) ==
  /\ o \in users /\ api[o].exists
  /\ Change(o, Absent)
  /\ UNCHANGED overlooked

\* Somebody changes or deletes a resource that the operator made.  Of those
\* without an owner no reconciler is told.
tamper(o) ==
  /\ api[o].exists /\ Kind(o) \in Ensured \cup ClusterResources
  /\ overlooked' = IF api[o].owner = None THEN overlooked \cup {o} ELSE overlooked
  /\ \/ Change(o, Absent)
     \/ Change(o, [api[o] EXCEPT !.spec = IF Kind(o) = "Deployment"
                                          THEN [@ EXCEPT !.image = None] ELSE None])

autoscale(o) ==
  /\ Kind(o) = "Deployment" /\ api[o].exists
  /\ \E n \in 1..2 : n # api[o].spec.replicas /\ Change(o, [api[o] EXCEPT !.spec.replicas = n])
  /\ UNCHANGED overlooked

collect(o) ==
  /\ Collect(o)
  /\ UNCHANGED <<queue, worker, historyVars>>

-----------------------------------------------------------------------------

step(c) ==
  \/ Reconcile(c) \/ status_unknown(c) \/ status_false(c) \/ status_true(c)
  \/ ensureClusterResourceExists(c) \/ ensureResourceHasSpecAndLabels(c)
  \/ ensureResourceDeleted(c) \/ list_domains(c) \/ list_servers(c)

Next ==
  \/ \E c \in Controllers : step(c) \/ read_fails(c)
  \/ \E kind \in Kinds : deliver(kind) \/ mapping_fails(kind)
  \/ \E o \in Objects :
       \/ user_creates(o) \/ user_updates(o) \/ user_deletes(o)
       \/ tamper(o) \/ autoscale(o) \/ collect(o)
  \/ restart

Spec == Init /\ [][Next]_vars

\* Every worker works on what is queued, the events of every kind arrive, and
\* garbage is collected.
FairSpec ==
  /\ Spec
  /\ \A c \in Controllers : WF_vars(step(c))
  /\ \A kind \in Kinds : WF_vars(deliver(kind))
  /\ WF_vars(\E o \in Objects : collect(o))

-----------------------------------------------------------------------------
(* Properties *)

\* The resource exists exactly when it should, belongs to the present owner and
\* is as it should be.
Built(o, owner, wanted, Right(_)) ==
  /\ api[o].exists <=> wanted
  /\ wanted => /\ api[o].owner = Ref(owner, api[owner])
               /\ api[o].spec # None /\ Right(api[o].spec)

Lists(sequence, set) == ToSet(sequence) = set /\ Len(sequence) = Cardinality(set)

Listeners == {<<Id[Name(d)], api[d].spec>> : d \in Existing("Domain")}

Rules(id) ==
  {<<Name(s), api[s].spec.versions>> : s \in {s \in Existing("Server") : api[s].spec.label = id}}

Overlooked(kind) == \E o \in overlooked : Kind(o) = kind

SettledVimana(o) ==
  /\ Overlooked("Domain") \/
       Built(<<"Gateway", Name(o)>>, o, api[o].exists /\ Listeners # {},
             LAMBDA spec : Lists(spec, Listeners))
  /\ api[o].exists =>
       \A r \in Objects \ overlooked :
         /\ Kind(r) \in ClusterResources \cup {"EnvoyProxy"} => api[r].exists
         /\ Kind(r) = "EnvoyProxy" => api[r].spec = Name(o)

\* A change of a server does not reach a domain whose name is not its id.
SettledDomain(o) ==
  LET id == Id[Name(o)]
  IN  Built(<<"GRPCRoute", id>>, o, api[o].exists,
            LAMBDA spec : /\ spec.aliases = api[o].spec
                          /\ \/ Lists(spec.rules, Rules(id))
                             \/ Overlooked("Server") \/ id # Name(o))

SettledComponent(o) ==
  /\ Built(<<"Deployment", Name(o)>>, o, api[o].exists, LAMBDA spec : spec.image = api[o].spec)
  /\ Built(<<"Service", Name(o)>>, o, api[o].exists, LAMBDA spec : spec = Name(o))

Settled ==
  /\ \A o \in {"Vimana"} \X Vimanas : SettledVimana(o)
  /\ \A o \in {"Domain"} \X Domains : SettledDomain(o)
  /\ \A o \in {"Component"} \X Components : SettledComponent(o)


\* What a reconciler lists is what its resource has, in another order.
Reordered(c) ==
  LET OtherOrder(o, old) == /\ api[o].exists /\ api[o].spec # None
                            /\ worker'[c].items # old /\ ToSet(worker'[c].items) = ToSet(old)
      gateway == <<"Gateway", worker[c].key>>
      route == <<"GRPCRoute", Id[worker[c].key]>>
  IN  \/ list_domains(c) /\ OtherOrder(gateway, api[gateway].spec)
      \/ list_servers(c) /\ OtherOrder(route, api[route].spec.rules)

\* Lists never stop coming in another order.
OrderNeverSettles == []<><<\E c \in Controllers : Reordered(c)>>_vars


(* And every object is reported as available, although reconcilers work    *)
(* with old copies of the object whose status they write and do not look   *)
(* at the outcome - except when the report itself was lost, for a Vimana   *)
(* without domains, of which nothing is reported, and when a resource is   *)
(* rewritten for ever: then refused writes and later successes are         *)
(* reported in turn.                                                       *)
Reported(o) ==
  (api[o].exists /\ <<o, api[o].uid>> \notin unreported) => api[o].status = "Reconciled"


(* "The number of replicas is controlled externally": while a deployment   *)
(* exists, no step of the operator changes it, whatever the cache said     *)
(* when the update was made.                                               *)
ReplicasKept ==
  [][\A c \in Controllers, o \in Objects :
       (/\ ensureResourceHasSpecAndLabels(c)
        /\ Kind(o) = "Deployment" /\ api[o].exists /\ api'[o].exists) =>
          api'[o].spec.replicas = api[o].spec.replicas]_vars

(* A test of the domain's reconciler: "should update GRPCRoute when server *)
(* is added" (domain_controller_test.go:329).  The domain's name is its id *)
(* there; in e2e/mvp.yaml it is not.                                       *)
ServersRouted ==
  <>[]\A o \in Existing("Domain") :
        LET route == api[<<"GRPCRoute", Id[Name(o)]>>]
        IN  route.exists /\ route.spec # None /\ Lists(route.spec.rules, Rules(Id[Name(o)]))
=============================================================================

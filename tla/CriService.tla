----------------------------- MODULE CriService -----------------------------
(***************************************************************************)
(* The process around the pod pool: vimanad starts, serves the CRI API on  *)
(* a socket and stops (runtime/main.rs), and ProxyingRuntimeService        *)
(* (runtime/cri/runtime.rs) gives every request either to the pool or to a *)
(* downstream OCI runtime.                                                 *)
(*                                                                         *)
(* The pool is PodLifecycle, which WorkRuntime implements.  The downstream *)
(* runtime is external: a request that reached it may be executed also     *)
(* after the handler that sent it is gone.                                 *)
(***************************************************************************)
EXTENDS Integers, Sequences, FiniteSets, SequencesExt

CONSTANTS
  Pods,                 \* names of pods of the pool
  DownstreamPods,       \* ids of downstream pods, pairs <<prefix, name>>
  DownstreamContainers, \* ids of downstream containers
  Parent,               \* the downstream pod of a downstream container
  Calls,                \* slots for requests in flight
  Filters,              \* states that lists are filtered by
  MaxOrphans,           \* bound: downstream requests without a handler
  Faults,               \* "downstream", "cancel", "unlink", "crash"
  None

\* Prefixes: "p-" and "c-" on the ids of the pool, anything on downstream ids.
pod_prefix(name) == <<"p-", name>>
container_prefix(name) == <<"c-", name>>

DownstreamIds == DownstreamPods \cup DownstreamContainers
PoolIds == {pod_prefix(p) : p \in Pods} \cup {container_prefix(p) : p \in Pods}

\* Identifiers of the two runtimes differ.
ASSUME IdAssumption ==
  /\ DownstreamPods \cap DownstreamContainers = {}
  /\ DownstreamIds \cap PoolIds = {}
  /\ Parent \in [DownstreamContainers -> DownstreamPods]

\* What lists can be filtered by is what pods and containers are reported as.
ASSUME FilterAssumption ==
  LET Known == {"SandboxReady", "SandboxNotready", "ContainerCreated", "ContainerRunning",
                "ContainerExited", "ContainerUnknown"}
  IN  Filters \subseteq Known /\ None \notin Known

VARIABLES
  state,           \* the pool: the state of each pod
  downstream,      \* each downstream id: "unborn", "live" or "gone"
  downstream_ids,  \* the ids recorded as downstream
  mutex,           \* the requests that hold, first, or wait for the downstream client
  calls,           \* requests in flight
  orphans,         \* downstream requests whose handler is gone
  lost,            \* downstream ids whose handler was gone before it recorded them
  reply,           \* what the handler that just returned reports
  proc,            \* the process: "down", "connected", "bound", "listed" or "serving"
  socket,          \* the socket is in the file system
  exit             \* how the process ended last

vars == <<state, downstream, downstream_ids, mutex, calls, orphans, lost, reply,
          proc, socket, exit>>
processVars == <<proc, socket, exit>>

Work == INSTANCE PodLifecycle

Creates == {"run_pod_sandbox", "create_container"}
Removes == {"remove_pod_sandbox", "remove_container"}
Lists == {"list_pod_sandbox", "list_containers"}

Idle == [pc |-> "idle", op |-> None, id |-> None, filter |-> None, result |-> {},
         items |-> {}, todo |-> {}, since |-> {}]

NoReply == [items |-> {}, filter |-> None]

Init ==
  /\ Work!Init
  /\ downstream \in {[d \in DownstreamIds |-> "unborn"],
                     [d \in DownstreamIds |-> IF d \in DownstreamPods THEN "live" ELSE "unborn"]}
  /\ downstream_ids = {}
  /\ mutex = <<>>
  /\ calls = [i \in Calls |-> Idle]
  /\ orphans = {} /\ lost = {}
  /\ reply = NoReply
  /\ proc = "down" /\ socket = FALSE /\ exit = None

-----------------------------------------------------------------------------
(* What exists, and what is reported of it *)

\* "All pod states for which a container exists", and the states of a filter.
POD_STATES_CONTAINER_ALL == {"Created", "Starting", "Running", "Stopped"}

cri_container_state_to_pod_states(filter) ==
  CASE filter = None -> POD_STATES_CONTAINER_ALL
    [] filter = "ContainerCreated" -> {"Created", "Starting"}
    [] filter = "ContainerRunning" -> {"Running"}
    [] filter = "ContainerExited" -> {"Stopped", "Removed", "Killed"}
    [] filter = "ContainerUnknown" -> {}

pod_state_to_cri_container_state(s) ==
  CASE s \in {"Initiated", "Removed", "Killed"} -> "ContainerUnknown"
    [] s \in {"Created", "Starting"} -> "ContainerCreated"
    [] s = "Running" -> "ContainerRunning"
    [] s = "Stopped" -> "ContainerExited"

pod_state_to_cri_pod_state(s) == IF s = "Killed" THEN "SandboxNotready" ELSE "SandboxReady"

\* Mutant: pods that are killed are only listed on request.
match_pod_alive(s, filter) ==
  /\ s # "Absent"
  /\ IF filter = None THEN s # "Killed" ELSE (filter = "SandboxReady") # (s = "Killed")

\* Mutant: readiness the wrong way round.
match_pod_inverted(s, filter) ==
  /\ s # "Absent"
  /\ filter # None => ((filter = "SandboxReady") = (s = "Killed"))

\* The readiness filter compares with Killed by itself.
match_pod(s, filter) ==
  /\ s # "Absent"
  /\ filter # None => ((filter = "SandboxReady") # (s = "Killed"))

match_container(s, filter) == s \in cri_container_state_to_pod_states(filter)

Item(id, s) == [id |-> id, state |-> s]
cri_pod_sandbox(p) == Item(pod_prefix(p), pod_state_to_cri_pod_state(state[p]))
cri_container(p) == Item(container_prefix(p), pod_state_to_cri_container_state(state[p]))

\* Ids for which a pod, or a container, exists in one of the runtimes.
Existing ==
  {d \in DownstreamIds : downstream[d] = "live"}
    \cup {pod_prefix(p) : p \in {q \in Pods : state[q] # "Absent"}}
    \cup {container_prefix(p) : p \in {q \in Pods : state[q] \in POD_STATES_CONTAINER_ALL}}

\* What a list is about.
Listed(op) ==
  CASE op = "list_pod_sandbox" -> DownstreamPods \cup {pod_prefix(p) : p \in Pods}
    [] op = "list_containers" -> DownstreamContainers \cup {container_prefix(p) : p \in Pods}
    [] OTHER -> {}

\* Every step tells the requests in flight what has existed since they began.
Still(cs) == [i \in Calls |-> [cs[i] EXCEPT !.since = @ \cap Existing']]

-----------------------------------------------------------------------------
(* Routing *)

is_downstream(id) == id \in downstream_ids \/ id[1] \notin {"p-", "c-"}

\* A prefixed id that does not name a pod is refused.
Parsed(id) == IF id \in PoolIds THEN {id[2]} ELSE {}

\* Answers that report nothing are left out.
Unanswered == reply' = NoReply

Fresh(op, id, filter) ==
  [pc |-> "queued", op |-> op, id |-> id, filter |-> filter, result |-> {},
   items |-> {}, todo |-> {},
   since |-> IF filter = None THEN Existing \cap Listed(op) ELSE {}]

\* Wait for the client of the downstream runtime.  Requests that neither
\* create nor remove nor list are alike.
forward(i, op, id, filter) ==
  /\ calls' = [calls EXCEPT ![i] = IF op \in Creates \cup Removes \cup Lists
                                   THEN Fresh(op, id, filter) ELSE Fresh("other", None, None)]
  /\ mutex' = Append(mutex, i)
  /\ UNCHANGED <<state, downstream, downstream_ids, orphans, lost, processVars>>
  /\ Unanswered

Ready(i) == proc = "serving" /\ calls[i].pc = "idle"

\* What a handler may do to its pod, in one step or several.
Effect(op, p) ==
  CASE op = "run_pod_sandbox" -> Work!RunPodSandbox(p)
    [] op = "create_container" -> Work!CreateContainer(p)
    [] op = "start_container" -> \/ Work!StartContainer(p) \/ Work!Ready(p)
                                 \/ state[p] = "Starting" /\ Work!CreateContainer(p)
    [] op = "stop_container" -> Work!StopContainer(p)
    [] op = "remove_container" -> Work!RemoveContainer(p)
    [] op = "stop_pod_sandbox" -> Work!StopPodSandbox(p)
    [] op = "remove_pod_sandbox" -> Work!RemovePodSandbox(p)
    [] OTHER -> FALSE

\* Handlers that never wait answer at once, some after a failure.
Immediate == {"create_container", "remove_container", "remove_pod_sandbox",
              "pod_sandbox_status", "container_status"}

\* What a status request finds: a pod with its container, or a container.
Report(op, p) ==
  LET pod == IF match_pod(state[p], None) THEN {cri_pod_sandbox(p)} ELSE {}
      container == IF match_container(state[p], None) THEN {cri_container(p)} ELSE {}
  IN  CASE op = "pod_sandbox_status" -> pod \cup container
        [] op = "container_status" -> container
        [] OTHER -> {}

\* A request to the pool: refused, done at once, or worked on.
upstream(i, op, id, valid) ==
  /\ UNCHANGED <<downstream, downstream_ids, mutex, orphans, lost, processVars>>
  /\ CASE ~ valid \/ (op # "run_pod_sandbox" /\ Parsed(id) = {}) ->
            Unanswered /\ UNCHANGED <<state, calls>>
       [] OTHER ->
            IF op \in Immediate
            THEN \E p \in Parsed(id) :
                   /\ Effect(op, p) \/ UNCHANGED state
                   /\ reply' = [items |-> Report(op, p), filter |-> None]
                   /\ calls' = Still(calls)
            ELSE /\ calls' = [calls EXCEPT ![i] = [Fresh(op, id, None) EXCEPT !.pc = "upstream"]]
                 /\ Unanswered /\ UNCHANGED state

-----------------------------------------------------------------------------
(* Handlers, up to where they wait *)

\* Any runtime handler but Vimana's is downstream; a pod of Vimana's needs
\* the labels of a component, and no port mappings.
run_pod_sandbox(i, handler, valid) ==
  /\ Ready(i)
  /\ IF handler = "other" THEN forward(i, "run_pod_sandbox", None, None)
     ELSE upstream(i, "run_pod_sandbox", None, valid)

\* Requests about one pod or container, by its id.  Those that the pool does
\* not support yet panic.
route(i, op, id, valid) ==
  /\ Ready(i)
  /\ IF is_downstream(id) THEN forward(i, op, id, None) ELSE upstream(i, op, id, valid)

stop_pod_sandbox(i, id)   == route(i, "stop_pod_sandbox", id, TRUE)
remove_pod_sandbox(i, id) == route(i, "remove_pod_sandbox", id, TRUE)
pod_sandbox_status(i, id) == route(i, "pod_sandbox_status", id, TRUE)
create_container(i, id, valid) == route(i, "create_container", id, valid)
start_container(i, id)    == route(i, "start_container", id, TRUE)
stop_container(i, id)     == route(i, "stop_container", id, TRUE)
remove_container(i, id)   == route(i, "remove_container", id, TRUE)
container_status(i, id)   == route(i, "container_status", id, TRUE)

unsupported(i, id) ==
  /\ Ready(i)
  /\ IF is_downstream(id) THEN forward(i, "unsupported", id, None)
     ELSE /\ UNCHANGED <<state, downstream, downstream_ids, mutex, calls, orphans, lost,
                         processVars>>
          /\ Unanswered

\* Lists ask the downstream runtime first; metrics, configuration and status
\* ask nobody else.
list_pod_sandbox(i, filter) == Ready(i) /\ forward(i, "list_pod_sandbox", None, filter)
list_containers(i, filter)  == Ready(i) /\ forward(i, "list_containers", None, filter)
status(i)                   == Ready(i) /\ forward(i, "status", None, None)

-----------------------------------------------------------------------------
(* The pool: handlers that wait change their pod on the way *)

\* Only StartContainer goes on after its first change.
upstream_step(i) ==
  /\ calls[i].pc = "upstream" /\ calls[i].result = {}
  /\ UNCHANGED <<downstream, downstream_ids, mutex, orphans, lost, processVars>>
  /\ Unanswered
  /\ \E p \in IF calls[i].op = "run_pod_sandbox" THEN Pods ELSE Parsed(calls[i].id) :
       /\ Effect(calls[i].op, p)
       /\ calls' = Still([calls EXCEPT ![i].result =
                             IF state'[p] = "Starting" THEN {} ELSE {pod_prefix(p)}])

upstream_reply(i) ==
  /\ calls[i].pc = "upstream"
  /\ calls' = [calls EXCEPT ![i] = Idle]
  /\ UNCHANGED <<state, downstream, downstream_ids, mutex, orphans, lost, processVars>>
  /\ Unanswered

-----------------------------------------------------------------------------
(* The downstream runtime *)

\* The client goes to the first in line.
acquire(i) ==
  /\ calls[i].pc = "queued"
  /\ mutex[1] = i
  /\ calls' = [calls EXCEPT ![i].pc = "sent"]
  /\ UNCHANGED <<state, downstream, downstream_ids, mutex, orphans, lost, processVars>>
  /\ Unanswered

\* What a request may do downstream, with the ids in its answer.  What the
\* downstream runtime finds under a filter is left out.
Live(ids) == {d \in ids : downstream[d] = "live"}

Outcomes(op, id, filter) ==
  LET born(ids) == {[after |-> [downstream EXCEPT ![d] = "live"], ids |-> {d}] :
                      d \in {e \in ids : downstream[e] = "unborn"}}
      removed == {id} \cup {d \in DownstreamContainers : Parent[d] = id}
      listed(ids) == {[after |-> downstream, ids |-> IF filter = None THEN Live(ids) ELSE {}]}
  IN  CASE op = "run_pod_sandbox" -> born(DownstreamPods)
        [] op = "create_container" ->
             born({d \in DownstreamContainers : Parent[d] = id /\ downstream[id] = "live"})
        [] op \in Removes ->
             {[after |-> [d \in DownstreamIds |->
                            IF d \in Live(removed) THEN "gone" ELSE downstream[d]], ids |-> {}]}
        [] op = "list_pod_sandbox" -> listed(DownstreamPods)
        [] op = "list_containers" -> listed(DownstreamContainers)
        [] OTHER -> {[after |-> downstream, ids |-> {}]}

downstream_executes(i) ==
  /\ calls[i].pc = "sent"
  /\ \E o \in Outcomes(calls[i].op, calls[i].id, calls[i].filter) :
       /\ downstream' = o.after
       /\ lost' = lost \cap Live(DownstreamIds)'
       /\ UNCHANGED <<state, downstream_ids, mutex, orphans, processVars>>
       /\ Unanswered
       /\ calls' = Still([calls EXCEPT ![i].pc = "executed", ![i].result = o.ids,
                           ![i].todo = IF calls[i].op \in Lists THEN Pods ELSE {}])

\* Mutant: only a request that is answered gives the client back.
Release_answered(i) ==
  mutex' = IF calls[i].pc \in {"queued", "sent"} THEN mutex ELSE RemoveFirst(mutex, i)

\* The client is free again when its holder has answered or is dropped.
Release(i) == mutex' = RemoveFirst(mutex, i)

\* New ids whose handler has not recorded them.
Born(is) == UNION {calls[i].result : i \in {j \in is : calls[j].pc \in {"executed", "answered"}
                                                       /\ calls[j].op \in Creates}}

\* The downstream runtime refuses, or its answer is lost: that fails the whole
\* request, a list too.
downstream_fails(i) ==
  /\ \/ calls[i].pc = "sent"
     \/ calls[i].pc = "executed" /\ calls[i].items = {} /\ "downstream" \in Faults
  /\ lost' = lost \cup Born({i})
  /\ calls' = [calls EXCEPT ![i] = Idle]
  /\ Release(i)
  /\ Unanswered
  /\ UNCHANGED <<state, downstream, downstream_ids, orphans, processVars>>

\* The answer arrives and the client is free for the next in line.
downstream_answers(i) ==
  /\ calls[i].pc = "executed" /\ calls[i].op \notin Lists
  /\ calls' = [calls EXCEPT ![i].pc = "answered"]
  /\ Release(i)
  /\ UNCHANGED <<state, downstream, downstream_ids, orphans, lost, processVars>>
  /\ Unanswered

\* Then new ids are recorded, and removed ones forgotten.
record(i) ==
  /\ calls[i].pc = "answered"
  /\ downstream_ids' = CASE calls[i].op \in Creates -> downstream_ids \cup calls[i].result
                         [] calls[i].op \in Removes -> downstream_ids \ {calls[i].id}
                         [] OTHER -> downstream_ids
  /\ calls' = [calls EXCEPT ![i] = Idle]
  /\ UNCHANGED <<state, downstream, mutex, orphans, lost, processVars>>
  /\ Unanswered

\* A list keeps the client and goes through the pool, which changes meanwhile.
list_upstream(i) ==
  /\ calls[i].pc = "executed"
  /\ \E p \in calls[i].todo :
       LET pods == calls[i].op = "list_pod_sandbox"
           matches == IF pods THEN match_pod(state[p], calls[i].filter)
                      ELSE match_container(state[p], calls[i].filter)
           item == IF pods THEN cri_pod_sandbox(p) ELSE cri_container(p)
       IN  calls' = [calls EXCEPT ![i].todo = @ \ {p},
                                  ![i].items = IF matches THEN @ \cup {item} ELSE @]
  /\ UNCHANGED <<state, downstream, downstream_ids, mutex, orphans, lost, processVars>>
  /\ Unanswered

list_reply(i) ==
  /\ calls[i].pc = "executed" /\ calls[i].op \in Lists /\ calls[i].todo = {}
  /\ reply' = [items |-> calls[i].items \cup {Item(d, None) : d \in calls[i].result},
               filter |-> calls[i].filter]
  /\ calls' = [calls EXCEPT ![i] = Idle]
  /\ Release(i)
  /\ UNCHANGED <<state, downstream, downstream_ids, orphans, lost, processVars>>

\* The client of the API gives up: the handler is dropped where it waits, but
\* what it sent may still be executed.
Sent(is) == {[op |-> calls[i].op, id |-> calls[i].id] :
               i \in {j \in is : calls[j].pc = "sent" /\ calls[j].op \in Creates \cup Removes}}

cancel(i) ==
  /\ "cancel" \in Faults
  /\ calls[i].pc \in {"upstream", "queued", "sent", "executed"}
  /\ calls[i].op \in Lists => calls[i].pc # "executed"
  /\ orphans' = orphans \cup Sent({i})
  /\ Cardinality(orphans') <= MaxOrphans
  /\ lost' = lost \cup Born({i})
  /\ calls' = [calls EXCEPT ![i] = Idle]
  /\ Release(i)
  /\ UNCHANGED <<state, downstream, downstream_ids, processVars>>
  /\ Unanswered

orphan_ends(r) ==
  /\ orphans' = orphans \ {r}
  /\ \E o \in Outcomes(r.op, r.id, None) \cup {[after |-> downstream, ids |-> {}]} :
       /\ downstream' = o.after
       /\ lost' = (lost \cup o.ids) \cap Live(DownstreamIds)'
  /\ UNCHANGED <<state, downstream_ids, mutex, processVars>>
  /\ Unanswered
  /\ calls' = Still(calls)

-----------------------------------------------------------------------------
(* The process *)

serviceVars == <<downstream, mutex, calls, orphans, lost>>

\* The process is gone, and with it the pool and what was recorded.
End(how) ==
  /\ proc' = "down"
  /\ exit' = how
  /\ Work!Restart
  /\ downstream_ids' = {}

connect ==
  /\ proc = "down"
  /\ proc' = "connected"
  /\ UNCHANGED <<state, downstream_ids, serviceVars, socket, exit>>
  /\ Unanswered

\* A socket that is already in the file system cannot be bound.
bind ==
  /\ proc = "connected"
  /\ IF socket THEN End("panicked") /\ UNCHANGED socket
     ELSE proc' = "bound" /\ socket' = TRUE /\ exit' = None /\ UNCHANGED <<state, downstream_ids>>
  /\ UNCHANGED serviceVars
  /\ Unanswered

\* ProxyingRuntimeService::new lists pods, then containers; main returns when
\* one of the lists fails.
new_list(from, ids, to) ==
  /\ proc = from
  /\ proc' = to
  /\ downstream_ids' = downstream_ids \cup Live(ids)
  /\ lost' = lost \ ids
  /\ UNCHANGED <<state, downstream, mutex, calls, orphans, socket, exit>>
  /\ Unanswered

new_pods       == new_list("bound", DownstreamPods, "listed")

\* Mutant: only pods are listed.
new_containers_none == new_list("listed", {}, "serving")

new_containers == new_list("listed", DownstreamContainers, "serving")

new_fails ==
  /\ "downstream" \in Faults
  /\ proc \in {"bound", "listed"}
  /\ End("failed")
  /\ UNCHANGED <<serviceVars, socket>>
  /\ Unanswered

\* After a signal the server takes no more requests and ends those it has, or
\* reports an error: either way the socket is unlinked, if that does not fail
\* too, before main returns the first of the errors.
shutdown ==
  /\ proc = "serving"
  /\ \A i \in Calls : calls[i].pc = "idle"
  /\ \E how \in {"graceful", "failed"} :
       /\ End(how)
       /\ \/ socket' = FALSE
          \/ "unlink" \in Faults /\ how = "failed" /\ UNCHANGED socket
  /\ UNCHANGED serviceVars
  /\ Unanswered

crash ==
  /\ "crash" \in Faults
  /\ proc # "down"
  /\ End("crashed")
  /\ orphans' = orphans \cup Sent(Calls)
  /\ Cardinality(orphans') <= MaxOrphans
  /\ lost' = lost \cup Born(Calls)
  /\ calls' = [i \in Calls |-> Idle]
  /\ mutex' = <<>>
  /\ UNCHANGED <<downstream, socket>>
  /\ Unanswered

-----------------------------------------------------------------------------

\* Kubelet asks about ids that it has been told of.
KnownPods == {pod_prefix(p) : p \in Pods} \cup {d \in DownstreamPods : downstream[d] # "unborn"}
KnownContainers ==
  {container_prefix(p) : p \in Pods} \cup {d \in DownstreamContainers : downstream[d] # "unborn"}

request(i) ==
  \/ \E handler \in {"vimana", "other"}, valid \in BOOLEAN : run_pod_sandbox(i, handler, valid)
  \/ \E id \in KnownPods :
       \/ stop_pod_sandbox(i, id) \/ remove_pod_sandbox(i, id) \/ pod_sandbox_status(i, id)
       \/ \E valid \in BOOLEAN : create_container(i, id, valid)
  \/ \E id \in KnownContainers :
       \/ start_container(i, id) \/ stop_container(i, id) \/ remove_container(i, id)
       \/ container_status(i, id) \/ unsupported(i, id)
  \/ \E filter \in {None} \cup (Filters \cap {"SandboxReady", "SandboxNotready"}) :
       list_pod_sandbox(i, filter)
  \/ \E filter \in {None} \cup (Filters \ {"SandboxReady", "SandboxNotready"}) :
       list_containers(i, filter)
  \/ status(i)

Next ==
  \/ \E i \in Calls :
       \/ request(i) \/ upstream_step(i) \/ upstream_reply(i)
       \/ acquire(i) \/ downstream_executes(i) \/ downstream_fails(i)
       \/ downstream_answers(i) \/ record(i) \/ list_upstream(i) \/ list_reply(i) \/ cancel(i)
  \/ \E r \in orphans : orphan_ends(r)
  \/ connect \/ bind \/ new_pods \/ new_containers \/ new_fails
  \/ shutdown \/ crash

Spec == Init /\ [][Next]_vars

-----------------------------------------------------------------------------
(* Properties *)

(* A pod or container that lives downstream is routed downstream, whatever *)
(* its id looks like, also after a restart - except while the reply to its *)
(* creation is on the way, or when the handler that would have recorded it *)
(* is gone.  Ids of the pool are never routed downstream.                  *)
RoutedHome ==
  proc = "serving" =>
    /\ \A d \in Live(DownstreamIds) : is_downstream(d) \/ d \in lost \cup Born(Calls)
    /\ \A id \in PoolIds : ~ is_downstream(id)

(* What exists in one of the runtimes during the whole of a list request   *)
(* without a filter is in the answer, although the two runtimes are asked  *)
(* one after the other and the pool changes while it is read.              *)
ListsComplete ==
  [][\A i \in Calls :
       (calls[i].filter = None /\ list_reply(i)) =>
         calls[i].since \subseteq {item.id : item \in reply'.items}]_vars

(* The client of the downstream runtime is only ever held by a handler     *)
(* that is still there and uses it, and nobody waits outside of the line,  *)
(* whichever handlers before it were dropped: no request waits for ever    *)
(* behind one that is gone.                                                *)
ClientIsInUse ==
  /\ \A i \in Calls : calls[i].pc \in {"queued", "sent", "executed"} <=> i \in ToSet(mutex)
  /\ \A k \in DOMAIN mutex : calls[mutex[k]].pc # "queued" => k = 1

(* main.rs: failures after the socket is bound "should cause the socket to *)
(* be unlinked so the service can be restarted successfully".              *)
FailureUnlinks == (proc = "down" /\ exit = "failed") => ~ socket

(* What is listed by a state is reported in it, although filters compare  *)
(* pods, which may have changed since the request was sent, and reports    *)
(* convert their state again - except that a list of exited containers     *)
(* reports the removed and killed ones, in no known state.                 *)
FiltersMatchReports ==
  \A item \in reply.items :
    (reply.filter # None /\ item.state # None) =>
      \/ item.state = reply.filter
      \/ reply.filter = "ContainerExited" /\ item.state = "ContainerUnknown"
=============================================================================

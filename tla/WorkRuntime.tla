---------------------------- MODULE WorkRuntime ----------------------------
(***************************************************************************)
(* The pod pool of a work node (runtime/state.rs) with the parts it drives:*)
(* background initialization of gRPC routes (runtime/pods.rs), the server  *)
(* task of a running container with its killer, and IP addresses (Ipam).   *)
(*                                                                         *)
(* The pool is a lock-free map from pod identifiers to pods.  A handler    *)
(* changes an entry with one atomic `compute`; handlers of concurrent CRI  *)
(* calls interleave between computes, at awaits, and at the mutex of the   *)
(* single-use killer.  A handler that is one compute is one action.  Any   *)
(* other handler occupies a call slot, whose pc names the step it is at    *)
(* and whose snap is what the handler has cloned of the pod it works on.   *)
(***************************************************************************)
EXTENDS Ipam

CONSTANTS
    Config,          \* container parameters compared by CreateContainer
    MaxAttempt,      \* bound: the attempt number in container metadata
    Call,            \* slots for CRI calls in flight
    Initialization,  \* identities of background initialization tasks
    Server,          \* identities of server tasks (and of their killers)
    Faults           \* environment faults a behaviour may contain

ASSUME MaxAttemptAssumption == MaxAttempt \in Nat
ASSUME NoneAssumption == None \notin Config \cup Initialization \cup Server

(***************************************************************************)
(* "plugin":     the IPAM plugin cannot be run or exits with an error      *)
(* "decode":     an ADD answer cannot be used (parse error, several IPs)   *)
(* "activate":   netlink refuses to add an address to the interface        *)
(* "deactivate": netlink refuses to remove one                             *)
(* "init":       initializing the gRPC routes fails (no image, bad link)   *)
(* "bind":       binding fails for want of some other resource             *)
(* "serve":      a server task ends by itself                              *)
(* "shutdown":   the process is told to end (SIGTERM, SIGINT)              *)
(* "cancel":     the client gives up a call; its handler is dropped at the *)
(*               await it is suspended at                                  *)
(* "crash":      the runtime process ends and is started again             *)
(***************************************************************************)
FaultKinds == {"plugin", "decode", "activate", "deactivate", "init",
               "bind", "serve", "shutdown", "cancel", "crash"}

ASSUME FaultsAssumption == Faults \subseteq FaultKinds

VARIABLES
    pods,        \* the pool
    nextPodId,   \* the atomic counter behind pod identifiers
    inits,       \* state of each background initialization task
    complete,    \* initializations whose shared future has been polled to the end
    servers,     \* server tasks with their sockets and killers
    stopping,    \* the global shutdown signal has been given
    calls,       \* CRI calls in flight
    reply        \* how the handler that returned last ended

poolVars == <<pods, nextPodId>>
taskVars == <<inits, complete, servers, stopping>>
vars == <<allocated, active, pods, nextPodId, inits, complete, servers, stopping,
          calls, reply>>

(* "Absent" is the empty map entry, written as an empty set in the README. *)
PodState == {"Absent", "Initiated", "Created", "Starting", "Running",
             "Stopped", "Removed", "Killed"}

Pod == [state : PodState,
        component : Component \cup {None},
        addr : Address \cup {None},
        routes : Initialization \cup {None},
        config : Config \cup {None},
        attempt : 0 .. MaxAttempt,
        killer : Server \cup {None}]

NoPod == [state |-> "Absent", component |-> None, addr |-> None,
          routes |-> None, config |-> None, attempt |-> 0,
          killer |-> None]

PC == {"idle",
       "ipamAdd", "ipAddrAdd", "ipamUndo",
       "awaitRoutes", "startAgain", "bind", "bindFailed", "finalize",
       "stopTake", "stopDrain",
       "killTake", "killDrain", "deactivate", "deallocate"}

CallRecord == [pc : PC, pod : PodId, snap : Pod]

Idle == [pc |-> "idle", pod |-> 0, snap |-> NoPod]

(* "down" is also the phase of an identity that no task has. *)
Phase == {"up", "draining", "aborted", "down"}

ServerRecord == [phase : Phase, addr : Address \cup {None}, pod : PodId, armed : BOOLEAN]

NoServer == [phase |-> "down", addr |-> None, pod |-> 0, armed |-> FALSE]

(* "Unkillable" and "Juggling" are errors the code calls logically impossible. *)
Reply == {"Ok", "Err", "Unkillable", "Juggling"}

TypeOK ==
    /\ IpamTypeOK
    /\ pods \in [PodId -> Pod]
    /\ nextPodId \in 0 .. MaxPods
    /\ inits \in [Initialization -> {"unused", "running", "ok", "err"}]
    /\ complete \subseteq Initialization
    /\ servers \in [Server -> ServerRecord]
    /\ stopping \in BOOLEAN
    /\ calls \in [Call -> CallRecord]
    /\ reply \in Reply

(* A server keeps its socket until its task has ended. *)
Bound(s) == servers[s].phase \in {"up", "draining", "aborted"}

NameOf(p, pod) == [component |-> pod.component, pod |-> p]

CallName(c) == NameOf(calls[c].pod, calls[c].snap)

-----------------------------------------------------------------------------
(* new: an empty pool; the counter starts at zero in every process. *)
Init ==
    /\ IpamInit
    /\ pods = [p \in PodId |-> NoPod]
    /\ nextPodId = 0
    /\ inits = [i \in Initialization |-> "unused"]
    /\ complete = {}
    /\ servers = [s \in Server |-> NoServer]
    /\ stopping = FALSE
    /\ calls = [c \in Call |-> Idle]
    /\ reply = "Ok"

(* A handler goes on at another step, or returns. *)
Goto(c, pc) == calls' = [calls EXCEPT ![c].pc = pc] /\ UNCHANGED reply

Return(c, r) == calls' = [calls EXCEPT ![c] = Idle] /\ reply' = r

(* A call whose handler is one compute needs no slot. *)
Answer(r) == reply' = r /\ UNCHANGED calls

(* A new call takes a free slot for the entry of pod p. *)
Enter(c, pc, p, snap) ==
    /\ calls' = [calls EXCEPT ![c] = [pc |-> pc, pod |-> p, snap |-> snap]]
    /\ UNCHANGED reply

-----------------------------------------------------------------------------
(***************************************************************************)
(* RunPodSandbox: init_pod, with Ipam::address inlined.                    *)
(***************************************************************************)
init_pod(c, component) ==
    /\ calls[c].pc = "idle"
    /\ nextPodId < MaxPods
    /\ nextPodId' = nextPodId + 1
    /\ Enter(c, "ipamAdd", nextPodId, [NoPod EXCEPT !.component = component])
    /\ UNCHANGED <<ipamVars, pods, taskVars>>

(* ADD took an address; go on to put it on the interface. *)
address_add(c) ==
    /\ calls[c].pc = "ipamAdd"
    /\ \E a \in Address :
         /\ PluginADD(CallName(c), a)
         /\ calls' = [calls EXCEPT ![c].pc = "ipAddrAdd", ![c].snap.addr = a]
    /\ UNCHANGED <<active, poolVars, taskVars, reply>>

(* ADD failed: nothing was taken and nothing is given back. *)
address_add_fails(c) ==
    /\ calls[c].pc = "ipamAdd"
    /\ "plugin" \in Faults \/ ~ \E a \in Address : CanAdd(CallName(c), a)
    /\ Return(c, "Err")
    /\ UNCHANGED <<ipamVars, poolVars, taskVars>>

(* Mutant: an answer without an address is taken like any other. *)
address_add_unusable_taken(c) ==
    /\ calls[c].pc = "ipamAdd"
    /\ "decode" \in Faults
    /\ \E a \in Address : PluginADD(CallName(c), a)
    /\ Goto(c, "ipAddrAdd")
    /\ UNCHANGED <<active, poolVars, taskVars>>

(* ADD took an address, but its answer is rejected: returns without a DEL. *)
address_add_unusable(c) ==
    /\ calls[c].pc = "ipamAdd"
    /\ "decode" \in Faults
    /\ \E a \in Address : PluginADD(CallName(c), a)
    /\ Return(c, "Err")
    /\ UNCHANGED <<active, poolVars, taskVars>>

(* The address is on the interface: insert the pod unless its id is taken. *)
address_activate(c) ==
    LET p == calls[c].pod IN
    /\ calls[c].pc = "ipAddrAdd"
    /\ ip_addr_add(calls[c].snap.addr)
    /\ IF pods[p].state = "Absent"
       THEN /\ pods' = [pods EXCEPT ![p] = [calls[c].snap EXCEPT !.state = "Initiated"]]
            /\ Return(c, "Ok")
       ELSE UNCHANGED pods /\ Return(c, "Err")
    /\ UNCHANGED <<allocated, nextPodId, taskVars>>

address_activate_fails(c) ==
    /\ calls[c].pc = "ipAddrAdd"
    /\ "activate" \in Faults \/ calls[c].snap.addr \in active
    /\ Goto(c, "ipamUndo")
    /\ UNCHANGED <<ipamVars, poolVars, taskVars>>

(* Mutant: no DEL after a failed activation. *)
address_undo_skipped(c) ==
    /\ calls[c].pc = "ipamUndo"
    /\ Return(c, "Err")
    /\ UNCHANGED <<ipamVars, poolVars, taskVars>>

(* The DEL that follows is best effort: its result is ignored. *)
address_undo(c) ==
    /\ calls[c].pc = "ipamUndo"
    /\ \/ PluginDEL(CallName(c))
       \/ "plugin" \in Faults /\ UNCHANGED allocated
    /\ Return(c, "Err")
    /\ UNCHANGED <<active, poolVars, taskVars>>

-----------------------------------------------------------------------------
(***************************************************************************)
(* Identities of tasks are taken again once nothing refers to them: the    *)
(* result of such an initialization and the killer of such a server cannot *)
(* be reached by any handler.                                              *)
(***************************************************************************)
FreshInitialization(i) ==
    /\ \A p \in PodId : pods[p].routes # i
    /\ \A c \in Call : calls[c].snap.routes # i

FreshServer(s) ==
    /\ ~ Bound(s)
    /\ \A p \in PodId : pods[p].killer # s
    /\ \A c \in Call : calls[c].snap.killer # s

(* PodInitializer::grpc: the task starts at once, its future is unpolled. *)
grpc(i) ==
    /\ FreshInitialization(i)
    /\ inits' = [inits EXCEPT ![i] = "running"]
    /\ complete' = complete \ {i}

initialize_grpc(i) ==
    /\ inits[i] = "running"
    /\ \/ inits' = [inits EXCEPT ![i] = "ok"]
       \/ "init" \in Faults /\ inits' = [inits EXCEPT ![i] = "err"]
    /\ UNCHANGED <<ipamVars, poolVars, complete, servers, stopping, calls, reply>>

(* peek: a shared future shows its result only after it has been polled. *)
PeekOk(r) == r # None /\ r \in complete /\ inits[r] = "ok"

PeekErr(r) == r # None /\ r \in complete /\ inits[r] = "err"

-----------------------------------------------------------------------------
(***************************************************************************)
(* CreateContainer: create_container, one compute.                         *)
(***************************************************************************)
create_container_initial(p, config, attempt) ==
    /\ pods[p].state \in {"Initiated", "Removed"}
    /\ \E i \in Initialization :
         /\ grpc(i)
         /\ pods' = [pods EXCEPT ![p].state = "Created", ![p].routes = i,
                                 ![p].config = config, ![p].attempt = attempt]
    /\ Answer("Ok")
    /\ UNCHANGED <<ipamVars, nextPodId, servers, stopping>>

(* With equal parameters the state is Created again, whatever it was. *)
create_container_again(p, config, attempt) ==
    LET reattempt == ~ PeekOk(pods[p].routes) /\ attempt > pods[p].attempt
    IN
    /\ pods[p].state \in {"Created", "Starting", "Running"}
    /\ pods[p].config = config
    /\ \/ /\ reattempt
          /\ \E i \in Initialization :
               /\ grpc(i)
               /\ pods' = [pods EXCEPT ![p].state = "Created", ![p].routes = i,
                                       ![p].attempt = attempt]
       \/ /\ ~ reattempt
          /\ pods' = [pods EXCEPT ![p].state = "Created", ![p].attempt = attempt]
          /\ UNCHANGED <<inits, complete>>
    /\ Answer("Ok")
    /\ UNCHANGED <<ipamVars, nextPodId, servers, stopping>>

create_container_rejected(p, config) ==
    /\ \/ pods[p].state \in {"Stopped", "Killed", "Absent"}
       \/ /\ pods[p].state \in {"Created", "Starting", "Running"}
          /\ pods[p].config # config
    /\ Answer("Err")
    /\ UNCHANGED <<ipamVars, poolVars, taskVars>>

create_container(p, config, attempt) ==
    \/ create_container_initial(p, config, attempt)
    \/ create_container_again(p, config, attempt)
    \/ create_container_rejected(p, config)

-----------------------------------------------------------------------------
(***************************************************************************)
(* StartContainer: the first compute claims the pod by making it Starting, *)
(* the socket is bound, and the last compute publishes the server.         *)
(***************************************************************************)
StillInitializing(p) ==
    /\ pods[p].state = "Created"
    /\ pods[p].routes # None
    /\ pods[p].routes \notin complete

start_container_without_wait(c, p) ==
    \/ /\ pods[p].state = "Created"
       /\ PeekOk(pods[p].routes)
       /\ pods' = [pods EXCEPT ![p].state = "Starting"]
       /\ Enter(c, "bind", p, [pods[p] EXCEPT !.state = "Starting"])
    \/ /\ \/ pods[p].state = "Created" /\ (pods[p].routes = None \/ PeekErr(pods[p].routes))
          \/ pods[p].state \in {"Stopped", "Initiated", "Removed", "Killed", "Absent"}
       /\ Return(c, "Err")
       /\ UNCHANGED pods
    \/ /\ pods[p].state \in {"Starting", "Running"}
       /\ Return(c, "Ok")
       /\ UNCHANGED pods

start_container(c, p) ==
    /\ calls[c].pc = "idle"
    /\ \/ start_container_without_wait(c, p)
       \/ /\ StillInitializing(p)
          /\ Enter(c, "awaitRoutes", p, [NoPod EXCEPT !.routes = pods[p].routes])
          /\ UNCHANGED pods
    /\ UNCHANGED <<ipamVars, nextPodId, taskVars>>

(* Awaiting the future polls it to its end. *)
start_container_await(c) ==
    /\ calls[c].pc = "awaitRoutes"
    /\ inits[calls[c].snap.routes] \in {"ok", "err"}
    /\ complete' = complete \cup {calls[c].snap.routes}
    /\ calls' = [calls EXCEPT ![c].pc = "startAgain", ![c].snap = NoPod]
    /\ UNCHANGED <<ipamVars, poolVars, inits, servers, stopping, reply>>

start_container_again(c) ==
    /\ calls[c].pc = "startAgain"
    /\ \/ start_container_without_wait(c, calls[c].pod)
       \/ /\ StillInitializing(calls[c].pod)
          /\ Return(c, "Juggling")
          /\ UNCHANGED pods
    /\ UNCHANGED <<ipamVars, nextPodId, taskVars>>

(* The server task runs from here on; only the handler knows its killer. *)
start_container_bind(c) ==
    LET a == calls[c].snap.addr IN
    /\ calls[c].pc = "bind"
    /\ a \in active
    /\ \A s \in Server : ~ (Bound(s) /\ servers[s].addr = a)
    /\ \E s \in Server :
         /\ FreshServer(s)
         /\ servers' = [servers EXCEPT ![s] =
                          [phase |-> "up", addr |-> a, pod |-> calls[c].pod, armed |-> TRUE]]
         /\ calls' = [calls EXCEPT ![c].pc = "finalize",
                                   ![c].snap.state = "Running",
                                   ![c].snap.killer = s]
    /\ UNCHANGED <<ipamVars, poolVars, inits, complete, stopping, reply>>

start_container_bind_fails(c) ==
    LET a == calls[c].snap.addr IN
    /\ calls[c].pc = "bind"
    /\ \/ "bind" \in Faults
       \/ a \notin active
       \/ \E s \in Server : Bound(s) /\ servers[s].addr = a
    /\ calls' = [calls EXCEPT ![c] = [Idle EXCEPT !.pc = "bindFailed", !.pod = calls[c].pod]]
    /\ UNCHANGED <<ipamVars, poolVars, taskVars, reply>>

(* Unlock the pod, if it still is Starting, and report the bind error. *)
start_container_unlock(c) ==
    LET p == calls[c].pod IN
    /\ calls[c].pc = "bindFailed"
    /\ pods' = IF pods[p].state = "Starting"
               THEN [pods EXCEPT ![p].state = "Created"]
               ELSE pods
    /\ Return(c, "Err")
    /\ UNCHANGED <<ipamVars, nextPodId, taskVars>>

(* JoinHandle::abort asks the task to end and does not wait for it. *)
Abort(s) ==
    [servers[s] EXCEPT !.armed = FALSE,
                       !.phase = IF Bound(s) THEN "aborted" ELSE @]

(* Mutant: a server that cannot be published is not aborted. *)
start_container_finalize_no_abort(c) ==
    LET p == calls[c].pod IN
    /\ calls[c].pc = "finalize"
    /\ pods' = IF pods[p].state = "Starting" THEN [pods EXCEPT ![p] = calls[c].snap] ELSE pods
    /\ Return(c, "Ok")
    /\ UNCHANGED <<ipamVars, nextPodId, taskVars>>

(* Mutant: the clone is published whatever has become of the pod. *)
start_container_finalize_unchecked(c) ==
    /\ calls[c].pc = "finalize"
    /\ pods' = [pods EXCEPT ![calls[c].pod] = calls[c].snap]
    /\ Return(c, "Ok")
    /\ UNCHANGED <<ipamVars, nextPodId, taskVars>>

(* If the entry is Starting, the handler's whole clone replaces it. *)
start_container_finalize(c) ==
    LET p == calls[c].pod
        s == calls[c].snap.killer
    IN
    /\ calls[c].pc = "finalize"
    /\ IF pods[p].state = "Starting"
       THEN /\ pods' = [pods EXCEPT ![p] = calls[c].snap]
            /\ Return(c, "Ok")
            /\ UNCHANGED servers
       ELSE /\ servers' = [servers EXCEPT ![s] = Abort(s)]
            /\ Return(c, "Err")
            /\ UNCHANGED pods
    /\ UNCHANGED <<ipamVars, nextPodId, inits, complete, stopping>>

-----------------------------------------------------------------------------
(***************************************************************************)
(* Taking the single-use killer and kill_with_timeout.  Whoever finds the  *)
(* killer populated empties it and signals the server.  If the server no   *)
(* longer listens for the signal, since it drains after the global one or  *)
(* has ended, the task is aborted at once and nothing is waited for.       *)
(***************************************************************************)
CanTake(s) == s # None /\ servers[s].armed

Signalled(phase) ==
    CASE phase = "up" -> "draining" [] phase = "draining" -> "aborted" [] OTHER -> phase

take(s) ==
    servers' = [servers EXCEPT ![s].armed = FALSE, ![s].phase = Signalled(@)]

(* Mutant: the server is left draining after the grace period. *)
TimesOut_no_abort(s) ==
    /\ servers[s].phase = "draining"
    /\ UNCHANGED servers

(* The grace period is over while the server still drains. *)
TimesOut(s) ==
    /\ servers[s].phase = "draining"
    /\ servers' = [servers EXCEPT ![s] = Abort(s)]

(* Mutant: the killer is taken before the pod leaves Running. *)
stop_container_late(c, p) ==
    /\ calls[c].pc = "idle"
    /\ pods[p].state = "Running"
    /\ Enter(c, "stopTake", p, [NoPod EXCEPT !.killer = pods[p].killer])
    /\ UNCHANGED <<ipamVars, poolVars, taskVars>>

(***************************************************************************)
(* StopContainer.                                                          *)
(***************************************************************************)
stop_container(c, p) ==
    /\ calls[c].pc = "idle"
    /\ \/ /\ pods[p].state \in {"Starting", "Running"}
          /\ pods' = [pods EXCEPT ![p].state = "Stopped"]
          /\ IF pods[p].state = "Running"
             THEN Enter(c, "stopTake", p, [NoPod EXCEPT !.killer = pods[p].killer])
             ELSE Return(c, "Ok")
       \/ /\ pods[p].state = "Stopped"
          /\ Return(c, "Ok")
          /\ UNCHANGED pods
       \/ /\ pods[p].state \in {"Initiated", "Created", "Removed", "Killed", "Absent"}
          /\ Return(c, "Err")
          /\ UNCHANGED pods
    /\ UNCHANGED <<ipamVars, nextPodId, taskVars>>

stop_container_take(c) ==
    LET s == calls[c].snap.killer IN
    /\ calls[c].pc = "stopTake"
    /\ IF CanTake(s)
       THEN /\ take(s)
            /\ IF servers[s].phase = "up" THEN Goto(c, "stopDrain") ELSE Return(c, "Ok")
       ELSE Return(c, "Unkillable") /\ UNCHANGED servers
    /\ UNCHANGED <<ipamVars, poolVars, inits, complete, stopping>>

stop_container_drain(c) ==
    LET s == calls[c].snap.killer IN
    /\ calls[c].pc = "stopDrain"
    /\ \/ servers[s].phase = "down" /\ UNCHANGED servers
       \/ TimesOut(s)
    /\ Return(c, "Ok")
    /\ UNCHANGED <<ipamVars, poolVars, inits, complete, stopping>>

(***************************************************************************)
(* RemoveContainer: one compute.                                           *)
(***************************************************************************)
remove_container(p) ==
    /\ \/ /\ pods[p].state = "Stopped"
          /\ pods' = [pods EXCEPT ![p].state = "Removed"]
          /\ Answer("Ok")
       \/ /\ pods[p].state = "Removed"
          /\ Answer("Ok")
          /\ UNCHANGED pods
       \/ /\ pods[p].state \notin {"Stopped", "Removed"}
          /\ Answer("Err")
          /\ UNCHANGED pods
    /\ UNCHANGED <<ipamVars, nextPodId, taskVars>>

(* Mutant: a repeated kill starts all over. *)
kill_pod_repeated(c, p) ==
    /\ calls[c].pc = "idle"
    /\ pods[p].state # "Absent"
    /\ pods' = [pods EXCEPT ![p].state = "Killed"]
    /\ Enter(c, "killTake", p, [NoPod EXCEPT !.killer = pods[p].killer,
                                             !.addr = pods[p].addr,
                                             !.component = pods[p].component])
    /\ UNCHANGED <<ipamVars, nextPodId, taskVars>>

(* Mutant: the grace period never ends. *)
kill_pod_drain_patient(c) ==
    /\ calls[c].pc = "killDrain"
    /\ servers[calls[c].snap.killer].phase = "down"
    /\ Goto(c, "deactivate")
    /\ UNCHANGED <<ipamVars, poolVars, taskVars>>

(* Mutant: an address that could not be deactivated is deallocated anyway. *)
kill_pod_deactivate_ignored(c) ==
    LET a == calls[c].snap.addr IN
    /\ calls[c].pc = "deactivate"
    /\ \/ ip_addr_del(a)
       \/ "deactivate" \in Faults /\ UNCHANGED active
    /\ Goto(c, "deallocate")
    /\ UNCHANGED <<allocated, poolVars, taskVars>>

(***************************************************************************)
(* StopPodSandbox: kill_pod.                                               *)
(***************************************************************************)
kill_pod(c, p) ==
    /\ calls[c].pc = "idle"
    /\ \/ /\ pods[p].state \notin {"Killed", "Absent"}
          /\ pods' = [pods EXCEPT ![p].state = "Killed"]
          /\ Enter(c, "killTake", p, [NoPod EXCEPT !.killer = pods[p].killer,
                                                   !.addr = pods[p].addr,
                                                   !.component = pods[p].component])
       \/ /\ pods[p].state = "Killed"
          /\ Return(c, "Ok")
          /\ UNCHANGED pods
       \/ /\ pods[p].state = "Absent"
          /\ Return(c, "Err")
          /\ UNCHANGED pods
    /\ UNCHANGED <<ipamVars, nextPodId, taskVars>>

kill_pod_take(c) ==
    LET s == calls[c].snap.killer IN
    /\ calls[c].pc = "killTake"
    /\ IF CanTake(s)
       THEN /\ take(s)
            /\ Goto(c, IF servers[s].phase = "up" THEN "killDrain" ELSE "deactivate")
       ELSE Goto(c, "deactivate") /\ UNCHANGED servers
    /\ UNCHANGED <<ipamVars, poolVars, inits, complete, stopping>>

kill_pod_drain(c) ==
    LET s == calls[c].snap.killer IN
    /\ calls[c].pc = "killDrain"
    /\ \/ servers[s].phase = "down" /\ UNCHANGED servers
       \/ TimesOut(s)
    /\ Goto(c, "deactivate")
    /\ UNCHANGED <<ipamVars, poolVars, inits, complete, stopping>>

(* An error returns early: the address then stays allocated. *)
kill_pod_deactivate(c) ==
    LET a == calls[c].snap.addr IN
    /\ calls[c].pc = "deactivate"
    /\ \/ ip_addr_del(a) /\ Goto(c, "deallocate")
       \/ /\ "deactivate" \in Faults \/ a \notin active
          /\ Return(c, "Err")
          /\ UNCHANGED active
    /\ UNCHANGED <<allocated, poolVars, taskVars>>

kill_pod_deallocate(c) ==
    /\ calls[c].pc = "deallocate"
    /\ \/ PluginDEL(CallName(c)) /\ Return(c, "Ok")
       \/ "plugin" \in Faults /\ Return(c, "Err") /\ UNCHANGED allocated
    /\ UNCHANGED <<active, poolVars, taskVars>>

(***************************************************************************)
(* RemovePodSandbox: delete_pod, one compute.                              *)
(***************************************************************************)
delete_pod(p) ==
    /\ \/ /\ pods[p].state = "Killed"
          /\ pods' = [pods EXCEPT ![p] = NoPod]
          /\ Answer("Ok")
       \/ /\ pods[p].state # "Killed"
          /\ Answer("Err")
          /\ UNCHANGED pods
    /\ UNCHANGED <<ipamVars, nextPodId, taskVars>>

-----------------------------------------------------------------------------
(* Server tasks end: after draining, after an abort, or by themselves. *)
Ended(s) == [servers EXCEPT ![s] = [NoServer EXCEPT !.armed = servers[s].armed]]

ServerEnds(s) ==
    /\ servers[s].phase = "draining" \/ (servers[s].phase = "up" /\ "serve" \in Faults)
    /\ servers' = Ended(s)
    /\ UNCHANGED <<ipamVars, poolVars, inits, complete, stopping, calls, reply>>

AbortedServerEnds(s) ==
    /\ servers[s].phase = "aborted"
    /\ servers' = Ended(s)
    /\ UNCHANGED <<ipamVars, poolVars, inits, complete, stopping, calls, reply>>

(* SIGTERM or SIGINT: the global signal is given to every server. *)
shutdown_signal ==
    /\ "shutdown" \in Faults
    /\ ~ stopping
    /\ stopping' = TRUE
    /\ UNCHANGED <<ipamVars, poolVars, inits, complete, servers, calls, reply>>

(* The killer of s can still be reached: from the pool, or from a handler  *)
(* that is about to publish it or to take it.                              *)
Held(s) ==
    \/ \E p \in PodId : pods[p].killer = s
    \/ \E c \in Call : calls[c].snap.killer = s

(* A server also drains when its killer is dropped without being used.     *)
ServerShutsDown(s) ==
    /\ servers[s].phase = "up"
    /\ stopping \/ ~ Held(s)
    /\ servers' = [servers EXCEPT ![s].phase = "draining"]
    /\ UNCHANGED <<ipamVars, poolVars, inits, complete, stopping, calls, reply>>

(***************************************************************************)
(* The client cancels a call: the handler is dropped where it awaits.  A   *)
(* plugin run or netlink request already under way may still take effect.  *)
(***************************************************************************)
cancel(c) ==
    LET pc == calls[c].pc
        a == calls[c].snap.addr
    IN
    /\ "cancel" \in Faults
    /\ \/ /\ pc \in {"ipamAdd", "ipAddrAdd", "ipamUndo", "awaitRoutes", "stopDrain",
                     "killDrain", "deactivate", "deallocate"}
          /\ UNCHANGED ipamVars
       \/ /\ pc = "ipamAdd"
          /\ \E b \in Address : PluginADD(CallName(c), b)
          /\ UNCHANGED active
       \/ pc = "ipAddrAdd" /\ ip_addr_add(a) /\ UNCHANGED allocated
       \/ pc = "deactivate" /\ ip_addr_del(a) /\ UNCHANGED allocated
       \/ pc \in {"ipamUndo", "deallocate"} /\ PluginDEL(CallName(c)) /\ UNCHANGED active
    /\ calls' = [calls EXCEPT ![c] = Idle]
    /\ UNCHANGED <<poolVars, taskVars, reply>>

(***************************************************************************)
(* The process ends, when its last call is answered after the signal or in *)
(* a crash, and starts again; only the two address stores remain.          *)
(***************************************************************************)
restart ==
    /\ \/ "crash" \in Faults
       \/ stopping /\ \A c \in Call : calls[c].pc = "idle"
    /\ pods' = [p \in PodId |-> NoPod]
    /\ nextPodId' = 0
    /\ inits' = [i \in Initialization |-> "unused"]
    /\ complete' = {}
    /\ servers' = [s \in Server |-> NoServer]
    /\ stopping' = FALSE
    /\ calls' = [c \in Call |-> Idle]
    /\ UNCHANGED <<ipamVars, reply>>

-----------------------------------------------------------------------------
(* What a handler in flight does without anything new from a client. *)
Step(c) ==
    \/ address_add(c) \/ address_add_fails(c) \/ address_add_unusable(c)
    \/ address_activate(c) \/ address_activate_fails(c) \/ address_undo(c)
    \/ start_container_await(c) \/ start_container_again(c)
    \/ start_container_bind(c) \/ start_container_bind_fails(c)
    \/ start_container_unlock(c) \/ start_container_finalize(c)
    \/ stop_container_take(c) \/ stop_container_drain(c)
    \/ kill_pod_take(c) \/ kill_pod_drain(c)
    \/ kill_pod_deactivate(c) \/ kill_pod_deallocate(c)

(* A CRI call arrives. *)
Request ==
    \/ \E c \in Call, component \in Component : init_pod(c, component)
    \/ \E p \in PodId, config \in Config, attempt \in 0 .. MaxAttempt :
         create_container(p, config, attempt)
    \/ \E p \in PodId : remove_container(p) \/ delete_pod(p)
    \/ \E c \in Call, p \in PodId :
         start_container(c, p) \/ stop_container(c, p) \/ kill_pod(c, p)

Next ==
    \/ Request
    \/ \E c \in Call : Step(c) \/ cancel(c)
    \/ \E i \in Initialization : initialize_grpc(i)
    \/ \E s \in Server : ServerEnds(s) \/ AbortedServerEnds(s) \/ ServerShutsDown(s)
    \/ shutdown_signal
    \/ restart

Spec == Init /\ [][Next]_vars

(***************************************************************************)
(* The asynchronous runtime polls every handler that can go on, timers     *)
(* expire, plugin runs and initializations end, and an aborted task is     *)
(* dropped.  Nothing makes a client send a call, and nothing makes a       *)
(* draining server finish: its open requests may last for ever.            *)
(***************************************************************************)
Fairness ==
    /\ \A c \in Call : WF_vars(Step(c))
    /\ \A i \in Initialization : WF_vars(initialize_grpc(i))
    /\ \A s \in Server : WF_vars(AbortedServerEnds(s)) /\ WF_vars(ServerShutsDown(s))

FairSpec == Spec /\ Fairness

-----------------------------------------------------------------------------
(***************************************************************************)
(* Properties.                                                             *)
(***************************************************************************)

(* kill_pod and Ipam::address touch the plugin and the interface in        *)
(* opposite orders, so that an address on the interface is always          *)
(* allocated: no pod is ever given an address that is still configured for *)
(* an earlier one, whatever fails, is cancelled or crashes in between.     *)
ActiveIsAllocated ==
    \A a \in active : allocated[a] # NoName

(* Until StopPodSandbox reaches a pod, its address is on the interface and *)
(* allocated to it: no handler of another pod, and none of an earlier      *)
(* process, takes it away.                                                 *)
LivePodOwnsAddress ==
    \A p \in PodId : pods[p].state \notin {"Absent", "Killed"} =>
        /\ pods[p].addr \in active
        /\ allocated[pods[p].addr] = NameOf(p, pods[p])

(* A server that nobody has told to stop has a killer that is still        *)
(* populated and reachable.  No interleaving of start, stop, remove,       *)
(* create, kill and delete leaves a server to the drop of its killer,      *)
(* after which it would drain without a deadline, as long as servers end   *)
(* only when they are told to.                                             *)
NoOrphanServer ==
    \A s \in Server : servers[s].phase = "up" => servers[s].armed /\ Held(s)

(* A Running pod has a server of its own on its own address whose killer   *)
(* has not been taken: StopContainer and StopPodSandbox leave Running      *)
(* before they take it, and a clone published late brings its own.         *)
RunningIsKillable ==
    \A p \in PodId : pods[p].state = "Running" =>
        LET s == pods[p].killer IN
        /\ s # None
        /\ servers[s].armed
        /\ \/ servers[s].phase = "up" /\ servers[s].addr = pods[p].addr
           \/ servers[s].phase = "draining" /\ stopping
           \/ servers[s].phase = "down" /\ (stopping \/ "serve" \in Faults)

(* The handler at c is on its way to give address a back, or to put it to use. *)
InCharge(c, a) ==
    /\ calls[c].pc \in {"ipAddrAdd", "ipamUndo", "killTake", "killDrain",
                        "deactivate", "deallocate"}
    /\ calls[c].snap.addr = a

(* Every allocated address belongs to a pod that is not yet killed or is   *)
(* in the hands of a handler that will free it: if netlink and the plugin  *)
(* do what kill_pod asks of them, StopPodSandbox and a failed              *)
(* RunPodSandbox leave no address behind.                                  *)
NoLeakedAddress ==
    \A a \in Address : allocated[a] # NoName =>
        \/ \E p \in PodId : pods[p].state \notin {"Absent", "Killed"} /\ pods[p].addr = a
        \/ \E c \in Call : InCharge(c, a)

(* Every CRI call is answered, even when a server drains for ever.         *)
CallsReturn ==
    \A c \in Call : calls[c].pc # "idle" ~> calls[c].pc = "idle"

(* The server of a pod that has been killed or deleted ends, whichever     *)
(* handler came across it, although nothing makes it drain.                *)
KilledServerEnds ==
    \A s \in Server, p \in PodId :
        (Bound(s) /\ servers[s].pod = p /\ pods[p].state \in {"Killed", "Absent"})
            ~> ~ Bound(s)

(* Seen through the states of the pods alone, every step of every handler, *)
(* however late it comes, is a transition of PodLifecycle: no clone that a *)
(* StartContainer publishes brings a stopped, killed or deleted pod back.  *)
Lifecycle == INSTANCE PodLifecycle
    WITH Pods <- PodId, state <- [p \in PodId |-> pods[p].state]

ImplementsLifecycle == Lifecycle!Spec

=============================================================================

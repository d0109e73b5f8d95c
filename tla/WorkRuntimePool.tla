-------------------------- MODULE WorkRuntimePool ---------------------------
(***************************************************************************)
(* The entries of the pool and the calls in flight: that every step keeps  *)
(* their types, and the inductive invariant under all other proofs about   *)
(* WorkRuntime, for every number of pods, calls, addresses, tasks and      *)
(* attempts, and every set of faults.                                      *)
(***************************************************************************)
EXTENDS WorkRuntime, TLAPS

-----------------------------------------------------------------------------
(* Types: what a step has to know of the calls in flight to keep them      *)
(* (Named) follows from the invariant below.                               *)

(* The first pod identifier is one: a process hands out at least one. *)
LEMMA ZeroIsPodId == 0 \in PodId
  BY MaxPodsAssumption DEF PodId

(* The records of an empty map entry, a free call slot and a server that   *)
(* is not there have their types.                                          *)
LEMMA EmptyRecords == NoPod \in Pod /\ Idle \in CallRecord /\ NoServer \in ServerRecord
  <1>1. NoPod \in Pod
    BY MaxAttemptAssumption DEF NoPod, Pod, PodState
  <1>2. Idle \in CallRecord
    BY <1>1, ZeroIsPodId DEF Idle, CallRecord, PC
  <1>3. NoServer \in ServerRecord
    BY ZeroIsPodId DEF NoServer, ServerRecord, Phase
  <1> QED BY <1>1, <1>2, <1>3

(* What a handler does with its slot keeps the types of calls and reply. *)
LEMMA SlotTypes ==
  ASSUME TypeOK, NEW c \in Call
  PROVE  /\ \A pc \in PC : Goto(c, pc) =>
              calls' \in [Call -> CallRecord] /\ reply' \in Reply
         /\ \A r \in Reply : Return(c, r) =>
              calls' \in [Call -> CallRecord] /\ reply' \in Reply
         /\ \A r \in Reply : Answer(r) =>
              calls' \in [Call -> CallRecord] /\ reply' \in Reply
         /\ \A pc \in PC, p \in PodId, snap \in Pod : Enter(c, pc, p, snap) =>
              calls' \in [Call -> CallRecord] /\ reply' \in Reply
  BY EmptyRecords DEF TypeOK, Goto, Return, Answer, Enter, CallRecord

(* A call that is about to run ADD does so for a component, and one that   *)
(* is about to activate an address, or awaits routes, has got one.         *)
Named ==
  \A c \in Call :
    /\ calls[c].pc = "ipamAdd" => calls[c].snap.component \in Component
    /\ calls[c].pc = "ipAddrAdd" => calls[c].snap.addr \in Address
    /\ calls[c].pc = "awaitRoutes" => calls[c].snap.routes \in Initialization
    /\ calls[c].pc \in {"finalize", "stopDrain", "killDrain"} => calls[c].snap.killer \in Server

(* Fields that a handler overwrites keep the type of a pod. *)
LEMMA PodUpdates ==
  ASSUME NEW pod \in Pod
  PROVE  /\ \A st \in PodState : [pod EXCEPT !.state = st] \in Pod
         /\ \A i \in Initialization \cup {None} : [pod EXCEPT !.routes = i] \in Pod
         /\ \A k \in Config : [pod EXCEPT !.config = k] \in Pod
         /\ \A n \in 0 .. MaxAttempt : [pod EXCEPT !.attempt = n] \in Pod
         /\ \A a \in Address \cup {None} : [pod EXCEPT !.addr = a] \in Pod
         /\ \A m \in Component \cup {None} : [pod EXCEPT !.component = m] \in Pod
         /\ \A s \in Server \cup {None} : [pod EXCEPT !.killer = s] \in Pod
  <1>1. \A st \in PodState : [pod EXCEPT !.state = st] \in Pod
    BY DEF Pod
  <1>2. \A i \in Initialization \cup {None} : [pod EXCEPT !.routes = i] \in Pod
    BY DEF Pod
  <1>3. \A k \in Config : [pod EXCEPT !.config = k] \in Pod
    BY DEF Pod
  <1>4. \A n \in 0 .. MaxAttempt : [pod EXCEPT !.attempt = n] \in Pod
    BY DEF Pod
  <1>5. \A a \in Address \cup {None} : [pod EXCEPT !.addr = a] \in Pod
    BY DEF Pod
  <1>6. \A m \in Component \cup {None} : [pod EXCEPT !.component = m] \in Pod
    BY DEF Pod
  <1>7. \A s \in Server \cup {None} : [pod EXCEPT !.killer = s] \in Pod
    BY DEF Pod
  <1> QED BY <1>1, <1>2, <1>3, <1>4, <1>5, <1>6, <1>7

(* A change of state keeps the type of the pool. *)
LEMMA StateUpdate ==
  ASSUME TypeOK, NEW p \in PodId, NEW st \in PodState
  PROVE  [pods EXCEPT ![p].state = st] \in [PodId -> Pod]
  <1>1. [pods[p] EXCEPT !.state = st] \in Pod
    BY PodUpdates DEF TypeOK
  <1> QED BY <1>1 DEF TypeOK

(* So do the fields of a server. *)
LEMMA ServerUpdates ==
  ASSUME TypeOK, NEW s \in Server
  PROVE  /\ Abort(s) \in ServerRecord
         /\ take(s) => servers' \in [Server -> ServerRecord]
         /\ TimesOut(s) => servers' \in [Server -> ServerRecord]
         /\ Ended(s) \in [Server -> ServerRecord]
  <1>1. servers[s] \in ServerRecord
    BY DEF TypeOK
  <1>2. \A ph \in Phase : [servers[s] EXCEPT !.armed = FALSE, !.phase = ph] \in ServerRecord
    BY <1>1 DEF ServerRecord
  <1>3. Abort(s) \in ServerRecord
    <2>1. Abort(s) = [servers[s] EXCEPT !.armed = FALSE,
                                        !.phase = IF Bound(s) THEN "aborted" ELSE servers[s].phase]
      BY <1>1 DEF Abort, ServerRecord
    <2>2. servers[s].phase \in Phase
      BY <1>1 DEF ServerRecord
    <2> QED BY <1>2, <2>1, <2>2 DEF Phase
  <1>4. take(s) => servers' \in [Server -> ServerRecord]
    <2>1. servers[s].phase \in Phase
      BY <1>1 DEF ServerRecord
    <2>2. Signalled(servers[s].phase) \in Phase
      BY <2>1 DEF Signalled, Phase
    <2>3. take(s) => servers' = [servers EXCEPT ![s] =
                      [servers[s] EXCEPT !.armed = FALSE, !.phase = Signalled(servers[s].phase)]]
      BY <1>1 DEF take, TypeOK, ServerRecord
    <2> QED BY <1>2, <2>2, <2>3 DEF TypeOK
  <1>5. TimesOut(s) => servers' \in [Server -> ServerRecord]
    BY <1>3 DEF TimesOut, TypeOK
  <1>6. Ended(s) \in [Server -> ServerRecord]
    BY <1>1, EmptyRecords DEF Ended, TypeOK, ServerRecord
  <1> QED BY <1>3, <1>4, <1>5, <1>6

LEMMA TypeStep ==
  ASSUME TypeOK, Named, Next
  PROVE  TypeOK'
  <1> USE DEF TypeOK, IpamTypeOK
  <1>1. ASSUME NEW c \in Call, NEW component \in Component, init_pod(c, component)
        PROVE  TypeOK'
    <2>1. [NoPod EXCEPT !.component = component] \in Pod
      BY EmptyRecords, PodUpdates
    <2>2. nextPodId \in PodId /\ nextPodId' \in 0 .. MaxPods
      BY <1>1, MaxPodsAssumption DEF init_pod, PodId
    <2> QED BY <1>1, <2>1, <2>2, SlotTypes DEF init_pod, ipamVars, taskVars, PC
  <1>2. ASSUME NEW c \in Call, address_add(c) PROVE TypeOK'
    <2>1. PICK a \in Address :
            /\ PluginADD(CallName(c), a)
            /\ calls' = [calls EXCEPT ![c].pc = "ipAddrAdd", ![c].snap.addr = a]
      BY <1>2 DEF address_add
    <2>2. CallName(c) \in PodName
      BY <1>2 DEF Named, address_add, CallName, NameOf, PodName, CallRecord
    <2>3. allocated' \in [Address -> PodName \cup {NoName}]
      BY <2>1, <2>2 DEF PluginADD
    <2>4. calls' \in [Call -> CallRecord]
      <3>1. [calls[c].snap EXCEPT !.addr = a] \in Pod
        BY PodUpdates DEF CallRecord
      <3>2. [calls[c] EXCEPT !.pc = "ipAddrAdd", !.snap = [calls[c].snap EXCEPT !.addr = a]]
              \in CallRecord
        BY <3>1 DEF CallRecord, PC
      <3>3. calls' = [calls EXCEPT ![c] = [calls[c] EXCEPT
                        !.pc = "ipAddrAdd", !.snap = [calls[c].snap EXCEPT !.addr = a]]]
        BY <2>1 DEF CallRecord
      <3> QED BY <3>2, <3>3
    <2> QED BY <1>2, <2>3, <2>4 DEF address_add, poolVars, taskVars
  <1>3. ASSUME NEW c \in Call, address_add_fails(c) PROVE TypeOK'
    BY <1>3, SlotTypes DEF address_add_fails, ipamVars, poolVars, taskVars, Reply
  <1>4. ASSUME NEW c \in Call, address_add_unusable(c) PROVE TypeOK'
    <2>1. CallName(c) \in PodName
      BY <1>4 DEF Named, address_add_unusable, CallName, NameOf, PodName, CallRecord
    <2> QED BY <1>4, <2>1, SlotTypes
        DEF address_add_unusable, PluginADD, poolVars, taskVars, Reply
  <1>5. ASSUME NEW c \in Call, address_activate(c) PROVE TypeOK'
    <2>1. [calls[c].snap EXCEPT !.state = "Initiated"] \in Pod /\ calls[c].pod \in PodId
      BY PodUpdates DEF CallRecord, PodState
    <2>2. pods' \in [PodId -> Pod] /\ calls' \in [Call -> CallRecord] /\ reply' \in Reply
      BY <1>5, <2>1, SlotTypes DEF address_activate, Reply
    <2>3. active' \subseteq Address
      BY <1>5 DEF address_activate, ip_addr_add, Named
    <2> QED BY <1>5, <2>2, <2>3 DEF address_activate, taskVars
  <1>6. ASSUME NEW c \in Call, address_activate_fails(c) PROVE TypeOK'
    BY <1>6, SlotTypes DEF address_activate_fails, ipamVars, poolVars, taskVars, PC
  <1>7. ASSUME NEW c \in Call, address_undo(c) PROVE TypeOK'
    BY <1>7, SlotTypes DEF address_undo, PluginDEL, poolVars, taskVars, Reply
  <1>8. ASSUME NEW i \in Initialization, initialize_grpc(i) PROVE TypeOK'
    BY <1>8 DEF initialize_grpc, ipamVars, poolVars
  <1>9. ASSUME NEW p \in PodId, NEW config \in Config, NEW attempt \in 0 .. MaxAttempt,
               create_container(p, config, attempt)
        PROVE  TypeOK'
    <2>1. pods[p] \in Pod /\ "Created" \in PodState
      BY DEF PodState
    <2>2. ASSUME create_container_initial(p, config, attempt) PROVE TypeOK'
      <3>1. PICK i \in Initialization :
              /\ grpc(i)
              /\ pods' = [pods EXCEPT ![p].state = "Created", ![p].routes = i,
                                      ![p].config = config, ![p].attempt = attempt]
        BY <2>2 DEF create_container_initial
      <3>2. pods' \in [PodId -> Pod]
        BY <2>1, <3>1, PodUpdates
      <3> QED BY <2>2, <3>1, <3>2 DEF create_container_initial, grpc, Answer, Reply, ipamVars
    <2>3. ASSUME create_container_again(p, config, attempt) PROVE TypeOK'
      <3>1. ASSUME NEW i \in Initialization,
                   pods' = [pods EXCEPT ![p].state = "Created", ![p].routes = i,
                                        ![p].attempt = attempt]
            PROVE  pods' \in [PodId -> Pod]
        <4>1. [pods[p] EXCEPT !.state = "Created", !.routes = i, !.attempt = attempt] \in Pod
          BY <2>1, PodUpdates
        <4> QED BY <3>1, <4>1
      <3>2. ASSUME pods' = [pods EXCEPT ![p].state = "Created", ![p].attempt = attempt]
            PROVE  pods' \in [PodId -> Pod]
        <4>1. [pods[p] EXCEPT !.state = "Created", !.attempt = attempt] \in Pod
          BY <2>1, PodUpdates
        <4> QED BY <3>2, <4>1
      <3>3. pods' \in [PodId -> Pod]
        BY <2>3, <3>1, <3>2 DEF create_container_again
      <3> QED BY <2>3, <3>3 DEF create_container_again, grpc, Answer, Reply, ipamVars
    <2>4. ASSUME create_container_rejected(p, config) PROVE TypeOK'
      BY <2>4 DEF create_container_rejected, Answer, Reply, ipamVars, poolVars, taskVars
    <2> QED BY <1>9, <2>2, <2>3, <2>4 DEF create_container
  <1>10. ASSUME NEW c \in Call, NEW p \in PodId, start_container_without_wait(c, p)
         PROVE  /\ pods' \in [PodId -> Pod]
                /\ calls' \in [Call -> CallRecord]
                /\ reply' \in Reply
    <2>1. [pods[p] EXCEPT !.state = "Starting"] \in Pod
      BY PodUpdates DEF PodState
    <2> QED BY <1>10, <2>1, SlotTypes DEF start_container_without_wait, PC, Reply
  <1>11. ASSUME NEW c \in Call, NEW p \in PodId, start_container(c, p) PROVE TypeOK'
    <2>0. pods[p].routes \in Initialization \cup {None}
      BY DEF Pod
    <2>1. [NoPod EXCEPT !.routes = pods[p].routes] \in Pod
      BY <2>0, EmptyRecords, PodUpdates
    <2>2. ASSUME Enter(c, "awaitRoutes", p, [NoPod EXCEPT !.routes = pods[p].routes])
          PROVE  calls' \in [Call -> CallRecord] /\ reply' \in Reply
      BY <2>1, <2>2, SlotTypes DEF PC
    <2> QED BY <1>10, <1>11, <2>2 DEF start_container, ipamVars, taskVars
  <1>12. ASSUME NEW c \in Call, start_container_await(c) PROVE TypeOK'
    <2>1. calls[c].snap.routes \in Initialization
      BY <1>12 DEF start_container_await, Named
    <2>2. calls' \in [Call -> CallRecord]
      BY <1>12, EmptyRecords DEF start_container_await, CallRecord, PC
    <2> QED BY <1>12, <2>1, <2>2 DEF start_container_await, ipamVars, poolVars
  <1>13. ASSUME NEW c \in Call, start_container_again(c) PROVE TypeOK'
    <2>1. calls[c].pod \in PodId
      BY DEF CallRecord
    <2> QED BY <1>10, <1>13, <2>1, SlotTypes DEF start_container_again, ipamVars, taskVars, Reply
  <1>14. ASSUME NEW c \in Call, start_container_bind(c) PROVE TypeOK'
    <2>1. calls[c] \in CallRecord /\ calls[c].snap \in Pod /\ calls[c].pod \in PodId
      BY DEF CallRecord
    <2>2. calls[c].snap.addr \in Address \cup {None}
      BY <2>1 DEF Pod
    <2>3. PICK s \in Server :
            /\ servers' = [servers EXCEPT ![s] = [phase |-> "up", addr |-> calls[c].snap.addr,
                                                  pod |-> calls[c].pod, armed |-> TRUE]]
            /\ calls' = [calls EXCEPT ![c].pc = "finalize", ![c].snap.state = "Running",
                                      ![c].snap.killer = s]
      BY <1>14 DEF start_container_bind
    <2>4. servers' \in [Server -> ServerRecord]
      BY <2>1, <2>2, <2>3 DEF ServerRecord, Phase
    <2>5. [calls[c].snap EXCEPT !.state = "Running", !.killer = s] \in Pod
      BY <2>1, PodUpdates DEF PodState
    <2>6. calls' \in [Call -> CallRecord]
      BY <2>1, <2>3, <2>5 DEF CallRecord, PC
    <2> QED BY <1>14, <2>4, <2>6 DEF start_container_bind, ipamVars, poolVars
  <1>15. ASSUME NEW c \in Call, start_container_bind_fails(c) PROVE TypeOK'
    <2>1. [Idle EXCEPT !.pc = "bindFailed", !.pod = calls[c].pod] \in CallRecord
      BY EmptyRecords DEF CallRecord, PC
    <2> QED BY <1>15, <2>1 DEF start_container_bind_fails, ipamVars, poolVars, taskVars
  <1>16. ASSUME NEW c \in Call, start_container_unlock(c) PROVE TypeOK'
    <2>1. pods' \in [PodId -> Pod]
      BY <1>16, PodUpdates DEF start_container_unlock, CallRecord, PodState
    <2> QED BY <1>16, <2>1, SlotTypes DEF start_container_unlock, ipamVars, taskVars, Reply
  <1>17. ASSUME NEW c \in Call, start_container_finalize(c) PROVE TypeOK'
    <2>1. calls[c].snap \in Pod /\ calls[c].pod \in PodId
      BY DEF CallRecord
    <2>2. calls[c].snap.killer \in Server
      BY <1>17 DEF start_container_finalize, Named
    <2>3. Abort(calls[c].snap.killer) \in ServerRecord
      BY <2>2, ServerUpdates
    <2> QED BY <1>17, <2>1, <2>3, SlotTypes
        DEF start_container_finalize, ipamVars, Reply
  <1>18. ASSUME NEW c \in Call, NEW p \in PodId, stop_container(c, p) PROVE TypeOK'
    <2>1. pods[p].killer \in Server \cup {None}
      BY DEF Pod
    <2>2. [NoPod EXCEPT !.killer = pods[p].killer] \in Pod
      BY <2>1, EmptyRecords, PodUpdates
    <2>3. pods' \in [PodId -> Pod]
      <3>1. [pods EXCEPT ![p].state = "Stopped"] \in [PodId -> Pod]
        BY StateUpdate DEF PodState
      <3> QED BY <1>18, <3>1 DEF stop_container
    <2> QED BY <1>18, <2>2, <2>3, SlotTypes DEF stop_container, ipamVars, taskVars, PC, Reply
  <1>19. ASSUME NEW c \in Call, stop_container_take(c) PROVE TypeOK'
    <2>1. CanTake(calls[c].snap.killer) => calls[c].snap.killer \in Server
      BY DEF CanTake, CallRecord, Pod
    <2> QED BY <1>19, <2>1, ServerUpdates, SlotTypes
        DEF stop_container_take, ipamVars, poolVars, PC, Reply
  <1>20. ASSUME NEW c \in Call, stop_container_drain(c) PROVE TypeOK'
    <2>1. calls[c].snap.killer \in Server
      BY <1>20 DEF stop_container_drain, Named
    <2> QED BY <1>20, <2>1, ServerUpdates, SlotTypes
        DEF stop_container_drain, ipamVars, poolVars, Reply
  <1>21. ASSUME NEW p \in PodId, remove_container(p) PROVE TypeOK'
    <2>1. [pods EXCEPT ![p].state = "Removed"] \in [PodId -> Pod]
      BY StateUpdate DEF PodState
    <2> QED BY <1>21, <2>1 DEF remove_container, Answer, Reply, ipamVars, taskVars
  <1>22. ASSUME NEW c \in Call, NEW p \in PodId, kill_pod(c, p) PROVE TypeOK'
    <2>1. /\ pods[p].killer \in Server \cup {None}
          /\ pods[p].addr \in Address \cup {None}
          /\ pods[p].component \in Component \cup {None}
      BY DEF Pod
    <2>2. [NoPod EXCEPT !.killer = pods[p].killer, !.addr = pods[p].addr,
                        !.component = pods[p].component] \in Pod
      BY <2>1, EmptyRecords, PodUpdates
    <2>3. pods' \in [PodId -> Pod]
      <3>1. pods' = pods \/ pods' = [pods EXCEPT ![p].state = "Killed"]
        BY <1>22 DEF kill_pod
      <3>2. [pods EXCEPT ![p].state = "Killed"] \in [PodId -> Pod]
        BY StateUpdate DEF PodState
      <3> QED BY <3>1, <3>2
    <2>4. calls' \in [Call -> CallRecord] /\ reply' \in Reply
      <3>1. \/ Return(c, "Ok") \/ Return(c, "Err")
            \/ Enter(c, "killTake", p, [NoPod EXCEPT !.killer = pods[p].killer,
                                                     !.addr = pods[p].addr,
                                                     !.component = pods[p].component])
        BY <1>22 DEF kill_pod
      <3>2. "killTake" \in PC /\ "Ok" \in Reply /\ "Err" \in Reply
        BY DEF PC, Reply
      <3> HIDE DEF TypeOK
      <3> QED BY <2>2, <3>1, <3>2, SlotTypes
    <2> QED BY <1>22, <2>3, <2>4 DEF kill_pod, ipamVars, taskVars
  <1>23. ASSUME NEW c \in Call, kill_pod_take(c) PROVE TypeOK'
    <2>1. CanTake(calls[c].snap.killer) => calls[c].snap.killer \in Server
      BY DEF CanTake, CallRecord, Pod
    <2> QED BY <1>23, <2>1, ServerUpdates, SlotTypes
        DEF kill_pod_take, ipamVars, poolVars, PC
  <1>24. ASSUME NEW c \in Call, kill_pod_drain(c) PROVE TypeOK'
    <2>1. calls[c].snap.killer \in Server
      BY <1>24 DEF kill_pod_drain, Named
    <2> QED BY <1>24, <2>1, ServerUpdates, SlotTypes
        DEF kill_pod_drain, ipamVars, poolVars, PC
  <1>25. ASSUME NEW c \in Call, kill_pod_deactivate(c) PROVE TypeOK'
    BY <1>25, SlotTypes DEF kill_pod_deactivate, ip_addr_del, poolVars, taskVars, PC, Reply
  <1>26. ASSUME NEW c \in Call, kill_pod_deallocate(c) PROVE TypeOK'
    BY <1>26, SlotTypes DEF kill_pod_deallocate, PluginDEL, poolVars, taskVars, Reply
  <1>27. ASSUME NEW p \in PodId, delete_pod(p) PROVE TypeOK'
    BY <1>27, EmptyRecords DEF delete_pod, Answer, Reply, ipamVars, taskVars
  <1>28. ASSUME NEW s \in Server, ServerEnds(s) \/ AbortedServerEnds(s) PROVE TypeOK'
    BY <1>28, ServerUpdates DEF ServerEnds, AbortedServerEnds, ipamVars, poolVars
  <1>29. ASSUME NEW s \in Server, ServerShutsDown(s) PROVE TypeOK'
    BY <1>29 DEF ServerShutsDown, ServerRecord, Phase, ipamVars, poolVars
  <1>30. ASSUME shutdown_signal PROVE TypeOK'
    BY <1>30 DEF shutdown_signal, ipamVars, poolVars
  <1>31. ASSUME NEW c \in Call, cancel(c) PROVE TypeOK'
    <2>1. calls' \in [Call -> CallRecord]
      BY <1>31, EmptyRecords DEF cancel
    <2>2. calls[c].pc = "ipamAdd" => CallName(c) \in PodName
      BY DEF Named, CallName, NameOf, PodName, CallRecord
    <2>3. allocated' \in [Address -> PodName \cup {NoName}]
      BY <1>31, <2>2 DEF cancel, PluginADD, PluginDEL, ipamVars
    <2>4. active' \subseteq Address
      BY <1>31 DEF cancel, ip_addr_add, ip_addr_del, ipamVars, Named
    <2> QED BY <1>31, <2>1, <2>3, <2>4 DEF cancel, poolVars, taskVars
  <1>32. ASSUME restart PROVE TypeOK'
    <2>1. nextPodId' \in 0 .. MaxPods
      BY <1>32, MaxPodsAssumption DEF restart
    <2>2. pods' \in [PodId -> Pod] /\ calls' \in [Call -> CallRecord]
      BY <1>32, EmptyRecords DEF restart
    <2>3. servers' \in [Server -> ServerRecord]
      BY <1>32, EmptyRecords DEF restart
    <2> QED BY <1>32, <2>1, <2>2, <2>3 DEF restart, ipamVars
  <1>33. ASSUME NEW c \in Call, Step(c) PROVE TypeOK'
    BY <1>33, <1>2, <1>3, <1>4, <1>5, <1>6, <1>7, <1>12, <1>13, <1>14, <1>15, <1>16, <1>17,
       <1>19, <1>20, <1>23, <1>24, <1>25, <1>26 DEF Step
  <1>34. ASSUME Request PROVE TypeOK'
    BY <1>34, <1>1, <1>9, <1>11, <1>18, <1>21, <1>22, <1>27 DEF Request
  <1> QED BY <1>8, <1>28, <1>29, <1>30, <1>31, <1>32, <1>33, <1>34 DEF Next

-----------------------------------------------------------------------------
(* The invariant *)

(* The call is between the choice of a pod identifier and the insertion of *)
(* the pod; the call frees what the pod has.                               *)
Initializing(c) == calls[c].pc \in {"ipamAdd", "ipAddrAdd", "ipamUndo"}

Killing(c) == calls[c].pc \in {"killTake", "killDrain", "deactivate", "deallocate"}

(* Identifiers at or above the counter are not in use. *)
Ids ==
  /\ \A p \in PodId : pods[p].state # "Absent" => p < nextPodId
  /\ \A c \in Call : calls[c].pc # "idle" => calls[c].pod < nextPodId

(* An entry has what RunPodSandbox gave it; there is nothing in an absent one. *)
Entries ==
  \A p \in PodId :
    /\ pods[p].state = "Absent" => pods[p].killer = None
    /\ pods[p].state # "Absent" => pods[p].component \in Component /\ pods[p].addr \in Address

(* What a handler holds agrees with the entry it works on. *)
SlotOK(c) ==
  LET pod == pods[calls[c].pod]
      snap == calls[c].snap
  IN
  /\ Initializing(c) =>
       pod.state = "Absent" /\ snap.component \in Component /\ snap.killer = None
  /\ calls[c].pc \in {"ipAddrAdd", "ipamUndo"} => snap.addr \in Address
  /\ calls[c].pc = "awaitRoutes" => snap.routes \in Initialization
  /\ calls[c].pc \in {"finalize", "stopDrain", "killDrain"} => snap.killer \in Server
  /\ calls[c].pc = "finalize" => snap.state = "Running"
  /\ (calls[c].pc \in {"bind", "finalize"} /\ pod.state # "Absent") =>
       snap.addr = pod.addr /\ snap.component = pod.component
  /\ Killing(c) =>
       pod.state \in {"Killed", "Absent"} /\ snap.component \in Component /\ snap.addr \in Address

Slots == \A c \in Call : SlotOK(c)

(* Only one call initializes a pod, while no other call is at work on it, *)
(* and only one call frees what a pod has.                                *)
Exclusive ==
  \A c, d \in Call :
    c # d =>
      /\ Initializing(c) /\ calls[d].pc # "idle" => calls[c].pod # calls[d].pod
      /\ Killing(c) /\ Killing(d) => calls[c].pod # calls[d].pod

PoolInv == TypeOK /\ Ids /\ Entries /\ Slots /\ Exclusive

(***************************************************************************)
(* How a step may change an entry: not at all, by a transition of a live   *)
(* pod, by deletion, by the insertion that ends RunPodSandbox, or by       *)
(* publishing the clone of a StartContainer.                               *)
(***************************************************************************)
Kept(p) == pods'[p] = pods[p]

Moved(p) ==
  /\ pods[p].state \notin {"Absent", "Killed"}
  /\ pods'[p].state \notin {"Absent", "Running"}
  /\ pods'[p].addr = pods[p].addr
  /\ pods'[p].component = pods[p].component
  /\ pods'[p].killer = pods[p].killer

Deleted(p) == pods[p].state = "Killed" /\ pods'[p] = NoPod

Inserted(c, p) ==
  /\ c \in Call /\ calls[c].pc = "ipAddrAdd" /\ calls[c].pod = p
  /\ pods[p].state = "Absent"
  /\ pods'[p] = [calls[c].snap EXCEPT !.state = "Initiated"]

Published(c, p) ==
  /\ c \in Call /\ calls[c].pc = "finalize" /\ calls[c].pod = p
  /\ pods[p].state = "Starting"
  /\ pods'[p] = calls[c].snap

(* How a step may change the slot of call c: the call returns, goes on     *)
(* with its pod, or is a new call for a pod that is there.                 *)
CallFrame(c) ==
  \/ calls'[c].pc = "idle"
  \/ /\ calls[c].pc # "idle" /\ calls'[c].pod = calls[c].pod
     /\ Initializing(c)' => Initializing(c)
     /\ Killing(c)' => Killing(c)
  \/ /\ pods[calls'[c].pod].state # "Absent"
     /\ ~ Initializing(c)'
     /\ Killing(c)' => pods[calls'[c].pod].state # "Killed"

(* A slot that does not change still agrees with its entry. *)
LEMMA SlotFrame ==
  ASSUME PoolInv, NEW c, \A p \in PodId : Kept(p) \/ Moved(p) \/ Deleted(p)
                                          \/ Inserted(c, p) \/ Published(c, p),
         NEW d \in Call, d # c, calls'[d] = calls[d]
  PROVE  SlotOK(d)'
  <1> DEFINE p == calls[d].pod
  <1>1. p \in PodId /\ p = calls'[d].pod
    BY DEF PoolInv, TypeOK, CallRecord
  <1>2. SlotOK(d)
    BY DEF PoolInv, Slots
  <1>3. CASE Kept(p)
    BY <1>1, <1>2, <1>3 DEF Kept, SlotOK, Initializing, Killing
  <1>4. CASE Moved(p)
    BY <1>1, <1>2, <1>4 DEF Moved, SlotOK, Initializing, Killing
  <1>5. CASE Deleted(p)
    BY <1>1, <1>2, <1>5 DEF Deleted, SlotOK, Initializing, Killing, NoPod
  <1>6. CASE Inserted(c, p)
    <2>1. calls[d].pc = "idle"
      BY <1>1, <1>6 DEF Inserted, Initializing, PoolInv, Exclusive
    <2> QED BY <2>1 DEF SlotOK, Initializing, Killing
  <1>7. CASE Published(c, p)
    <2>1. /\ pods'[p].addr = pods[p].addr /\ pods'[p].component = pods[p].component
          /\ pods[p].state = "Starting" /\ pods'[p].state = "Running"
      BY <1>1, <1>7 DEF Published, SlotOK, PoolInv, Slots
    <2> QED BY <1>1, <1>2, <2>1 DEF SlotOK, Initializing, Killing
  <1> QED BY <1>1, <1>3, <1>4, <1>5, <1>6, <1>7

(* The entries keep what they have. *)
LEMMA EntryFrame ==
  ASSUME PoolInv, NEW c, nextPodId' = nextPodId,
         \A p \in PodId : Kept(p) \/ Moved(p) \/ Deleted(p) \/ Inserted(c, p) \/ Published(c, p)
  PROVE  Entries' /\ \A p \in PodId : pods'[p].state # "Absent" => p < nextPodId'
  <1> SUFFICES ASSUME NEW p \in PodId
               PROVE  /\ pods'[p].state = "Absent" => pods'[p].killer = None
                      /\ pods'[p].state # "Absent" => /\ pods'[p].component \in Component
                                                     /\ pods'[p].addr \in Address
                                                     /\ p < nextPodId
    BY DEF Entries
  <1>1. CASE Kept(p)
    BY <1>1 DEF Kept, PoolInv, Entries, Ids
  <1>2. CASE Moved(p)
    BY <1>2 DEF Moved, PoolInv, Entries, Ids
  <1>3. CASE Deleted(p)
    BY <1>3 DEF Deleted, NoPod
  <1>4. CASE Inserted(c, p)
    <2>1. calls[c].snap \in Pod
      BY <1>4 DEF Inserted, PoolInv, TypeOK, CallRecord
    <2>2. SlotOK(c) /\ p < nextPodId
      BY <1>4 DEF Inserted, PoolInv, Slots, Ids
    <2> QED BY <1>4, <2>1, <2>2 DEF Inserted, SlotOK, Initializing, Pod
  <1>5. CASE Published(c, p)
    <2>1. SlotOK(c) /\ p < nextPodId
      BY <1>5 DEF Published, PoolInv, Slots, Ids
    <2> QED BY <1>5, <2>1 DEF Published, SlotOK, PoolInv, Entries
  <1> QED BY <1>1, <1>2, <1>3, <1>4, <1>5

(* A step that changes one slot keeps the invariant of the pool. *)
LEMMA PoolFrame ==
  ASSUME PoolInv, TypeOK', NEW c \in Call, nextPodId' = nextPodId,
         \A d \in Call \ {c} : calls'[d] = calls[d], CallFrame(c), SlotOK(c)',
         \A p \in PodId : Kept(p) \/ Moved(p) \/ Deleted(p) \/ Inserted(c, p) \/ Published(c, p)
  PROVE  PoolInv'
  <1>1. Entries' /\ \A p \in PodId : pods'[p].state # "Absent" => p < nextPodId'
    BY EntryFrame
  <1>2. calls'[c].pc # "idle" => calls'[c].pod < nextPodId
    BY DEF CallFrame, PoolInv, Ids, TypeOK, CallRecord
  <1>3. Ids'
    BY <1>1, <1>2 DEF PoolInv, Ids
  <1>4. Slots'
    BY SlotFrame DEF Slots
  <1>5. ASSUME NEW d \in Call \ {c}
        PROVE  /\ Initializing(c)' /\ calls'[d].pc # "idle" => calls'[c].pod # calls'[d].pod
               /\ Initializing(d)' /\ calls'[c].pc # "idle" => calls'[c].pod # calls'[d].pod
               /\ Killing(c)' /\ Killing(d)' => calls'[c].pod # calls'[d].pod
    <2>1. calls'[d] = calls[d] /\ SlotOK(d)
      BY DEF PoolInv, Slots
    <2>2. CASE calls'[c].pc = "idle"
      BY <2>2 DEF Initializing, Killing
    <2>3. CASE /\ calls[c].pc # "idle" /\ calls'[c].pod = calls[c].pod
               /\ Initializing(c)' => Initializing(c)
               /\ Killing(c)' => Killing(c)
      BY <2>1, <2>3 DEF PoolInv, Exclusive, Initializing, Killing
    <2>4. CASE /\ pods[calls'[c].pod].state # "Absent"
               /\ ~ Initializing(c)'
               /\ Killing(c)' => pods[calls'[c].pod].state # "Killed"
      BY <2>1, <2>4 DEF SlotOK, Initializing, Killing
    <2> QED BY <2>2, <2>3, <2>4 DEF CallFrame
  <1>6. ASSUME NEW d \in Call, NEW e \in Call, d # c, e # c, d # e
        PROVE  /\ Initializing(d)' /\ calls'[e].pc # "idle" => calls'[d].pod # calls'[e].pod
               /\ Killing(d)' /\ Killing(e)' => calls'[d].pod # calls'[e].pod
    BY <1>6 DEF PoolInv, Exclusive, Initializing, Killing
  <1>7. Exclusive'
    BY <1>5, <1>6 DEF Exclusive
  <1> QED BY <1>1, <1>3, <1>4, <1>7 DEF PoolInv

(* So does a step that changes none. *)
LEMMA PoolFrameNoCall ==
  ASSUME PoolInv, TypeOK', UNCHANGED <<calls, nextPodId>>,
         \A p \in PodId : Kept(p) \/ Moved(p) \/ Deleted(p)
  PROVE  PoolInv'
  <1>1. PICK c : c \notin Call
    BY NoSetContainsEverything
  <1>2. Entries' /\ Ids'
    BY EntryFrame DEF PoolInv, Ids
  <1>3. Slots'
    BY <1>1, SlotFrame DEF Slots
  <1>4. Exclusive'
    BY DEF PoolInv, Exclusive, Initializing, Killing
  <1> QED BY <1>2, <1>3, <1>4 DEF PoolInv

(* A call that returns leaves nothing behind that could disagree. *)
LEMMA PoolReturn ==
  ASSUME PoolInv, TypeOK', NEW c \in Call, nextPodId' = nextPodId,
         calls' = [calls EXCEPT ![c] = Idle],
         \A p \in PodId : Kept(p) \/ Moved(p) \/ Deleted(p) \/ Inserted(c, p) \/ Published(c, p)
  PROVE  PoolInv'
  <1>1. calls'[c] = Idle /\ \A d \in Call \ {c} : calls'[d] = calls[d]
    BY DEF PoolInv, TypeOK
  <1>2. calls'[c].pc = "idle"
    BY <1>1 DEF Idle
  <1>3. SlotOK(c)'
    BY <1>2 DEF SlotOK, Initializing, Killing
  <1> QED BY <1>1, <1>2, <1>3, PoolFrame DEF CallFrame

(* A call that goes on keeps its pod and what it holds of it. *)
LEMMA PoolGoto ==
  ASSUME PoolInv, TypeOK', NEW c \in Call, NEW pc, UNCHANGED poolVars,
         calls' = [calls EXCEPT ![c].pc = pc],
         \/ calls[c].pc = "ipAddrAdd" /\ pc = "ipamUndo"
         \/ calls[c].pc = "stopTake" /\ pc = "stopDrain" /\ calls[c].snap.killer \in Server
         \/ calls[c].pc = "killTake" /\ pc = "killDrain" /\ calls[c].snap.killer \in Server
         \/ calls[c].pc \in {"killTake", "killDrain"} /\ pc = "deactivate"
         \/ calls[c].pc = "deactivate" /\ pc = "deallocate"
  PROVE  PoolInv'
  <1>1. calls[c] \in CallRecord /\ SlotOK(c)
    BY DEF PoolInv, TypeOK, Slots
  <1>2. /\ calls'[c].pc = pc /\ calls'[c].pod = calls[c].pod /\ calls'[c].snap = calls[c].snap
        /\ \A d \in Call \ {c} : calls'[d] = calls[d]
        /\ nextPodId' = nextPodId /\ pods' = pods
    BY <1>1 DEF PoolInv, TypeOK, CallRecord, poolVars
  <1>3. SlotOK(c)'
    BY <1>1, <1>2 DEF SlotOK, Initializing, Killing
  <1>4. CallFrame(c)
    BY <1>2 DEF CallFrame, Initializing, Killing
  <1> QED BY <1>2, <1>3, <1>4, PoolFrame DEF Kept

(* How each handler that writes to the pool changes its entries. *)
LEMMA PodEffects ==
  ASSUME PoolInv
  PROVE  /\ \A p \in PodId, config \in Config, attempt \in 0 .. MaxAttempt :
              create_container(p, config, attempt) => \A q \in PodId : Kept(q) \/ Moved(q)
         /\ \A c \in Call, p \in PodId :
              start_container_without_wait(c, p) \/ stop_container(c, p) \/ kill_pod(c, p)
                => \A q \in PodId : Kept(q) \/ Moved(q)
         /\ \A p \in PodId : remove_container(p) \/ delete_pod(p)
                => \A q \in PodId : Kept(q) \/ Moved(q) \/ Deleted(q)
         /\ \A c \in Call : start_container_unlock(c) => \A q \in PodId : Kept(q) \/ Moved(q)
         /\ \A c \in Call : start_container_finalize(c)
                => \A q \in PodId : Kept(q) \/ Published(c, q)
  <1>0. pods \in [PodId -> Pod]
    BY DEF PoolInv, TypeOK
  <1>1. ASSUME NEW p \in PodId, NEW config \in Config, NEW attempt \in 0 .. MaxAttempt,
               create_container(p, config, attempt)
        PROVE  \A q \in PodId : Kept(q) \/ Moved(q)
    <2>1. CASE create_container_initial(p, config, attempt)
      BY <1>0, <2>1 DEF create_container_initial, Kept, Moved, Pod
    <2>2. CASE create_container_again(p, config, attempt)
      <3>1. pods[p].state \in {"Created", "Starting", "Running"}
        BY <2>2 DEF create_container_again
      <3>2. ASSUME NEW i \in Initialization,
                   pods' = [pods EXCEPT ![p].state = "Created", ![p].routes = i,
                                        ![p].attempt = attempt]
            PROVE  \A q \in PodId : Kept(q) \/ Moved(q)
        BY <1>0, <3>1, <3>2 DEF Kept, Moved, Pod
      <3>3. ASSUME pods' = [pods EXCEPT ![p].state = "Created", ![p].attempt = attempt]
            PROVE  \A q \in PodId : Kept(q) \/ Moved(q)
        BY <1>0, <3>1, <3>3 DEF Kept, Moved, Pod
      <3> QED BY <2>2, <3>2, <3>3 DEF create_container_again
    <2>3. CASE create_container_rejected(p, config)
      BY <2>3 DEF create_container_rejected, Kept, poolVars
    <2> QED BY <1>1, <2>1, <2>2, <2>3 DEF create_container
  <1>2. ASSUME NEW p \in PodId, NEW state \in {"Created", "Starting", "Stopped", "Removed", "Killed"},
               pods[p].state \notin {"Absent", "Killed"},
               pods' = [pods EXCEPT ![p].state = state]
        PROVE  \A q \in PodId : Kept(q) \/ Moved(q)
    BY <1>0, <1>2 DEF Kept, Moved, Pod
  <1>3. ASSUME NEW c \in Call, NEW p \in PodId,
               start_container_without_wait(c, p) \/ stop_container(c, p) \/ kill_pod(c, p)
        PROVE  \A q \in PodId : Kept(q) \/ Moved(q)
    BY <1>2, <1>3 DEF start_container_without_wait, stop_container, kill_pod, Kept
  <1>4. ASSUME NEW p \in PodId, remove_container(p) PROVE \A q \in PodId : Kept(q) \/ Moved(q)
    BY <1>2, <1>4 DEF remove_container, Kept
  <1>5. ASSUME NEW p \in PodId, delete_pod(p) PROVE \A q \in PodId : Kept(q) \/ Deleted(q)
    BY <1>0, <1>5 DEF delete_pod, Kept, Deleted
  <1>6. ASSUME NEW c \in Call, start_container_unlock(c)
        PROVE  \A q \in PodId : Kept(q) \/ Moved(q)
    <2>1. calls[c].pod \in PodId
      BY DEF PoolInv, TypeOK, CallRecord
    <2> QED BY <1>2, <1>6, <2>1 DEF start_container_unlock, Kept
  <1>7. ASSUME NEW c \in Call, start_container_finalize(c)
        PROVE  \A q \in PodId : Kept(q) \/ Published(c, q)
    BY <1>0, <1>7 DEF start_container_finalize, Kept, Published
  <1> QED BY <1>1, <1>3, <1>4, <1>5, <1>6, <1>7

(* Every step keeps the invariant of the pool. *)
LEMMA PoolStep ==
  ASSUME PoolInv, Next
  PROVE  PoolInv'
  <1>0. TypeOK'
    <2>1. Named
      BY DEF PoolInv, Slots, SlotOK, Named, Initializing
    <2> QED BY <2>1, TypeStep DEF PoolInv
  <1>1. ASSUME NEW c \in Call, NEW component \in Component, init_pod(c, component)
        PROVE  PoolInv'
    <2>1. nextPodId \in Nat /\ nextPodId' = nextPodId + 1 /\ pods' = pods /\ nextPodId \in PodId
      BY <1>1, MaxPodsAssumption DEF PoolInv, TypeOK, PodId, init_pod
    <2>2. calls' = [calls EXCEPT ![c] = [pc |-> "ipamAdd", pod |-> nextPodId,
                                         snap |-> [NoPod EXCEPT !.component = component]]]
      BY <1>1 DEF init_pod, Enter
    <2>3. Ids'
      BY <2>1, <2>2 DEF PoolInv, Ids, TypeOK, PodId, CallRecord
    <2>4. Entries'
      BY <2>1 DEF PoolInv, Entries
    <2>5. Slots'
      BY <2>1, <2>2, EmptyRecords
      DEF PoolInv, Slots, SlotOK, TypeOK, Ids, Initializing, Killing, CallRecord, Pod, NoPod
    <2>6. Exclusive'
      BY <2>1, <2>2 DEF PoolInv, Exclusive, TypeOK, Ids, Initializing, Killing, CallRecord
    <2> QED BY <1>0, <2>3, <2>4, <2>5, <2>6 DEF PoolInv
  <1>2. ASSUME NEW c \in Call, address_add(c) PROVE PoolInv'
    <2>1. PICK a \in Address : calls' = [calls EXCEPT ![c].pc = "ipAddrAdd", ![c].snap.addr = a]
      BY <1>2 DEF address_add
    <2>2. calls[c] \in CallRecord /\ calls[c].snap \in Pod /\ SlotOK(c) /\ calls[c].pc = "ipamAdd"
      BY <1>2 DEF PoolInv, TypeOK, Slots, CallRecord, address_add
    <2>3. /\ calls'[c].pc = "ipAddrAdd" /\ calls'[c].pod = calls[c].pod
          /\ calls'[c].snap = [calls[c].snap EXCEPT !.addr = a]
          /\ \A d \in Call \ {c} : calls'[d] = calls[d]
          /\ nextPodId' = nextPodId /\ pods' = pods
      BY <1>2, <2>1, <2>2 DEF PoolInv, TypeOK, CallRecord, address_add, poolVars
    <2>4. SlotOK(c)'
      BY <2>2, <2>3 DEF SlotOK, Initializing, Killing, Pod
    <2>5. CallFrame(c)
      BY <2>2, <2>3 DEF CallFrame, Initializing, Killing
    <2> QED BY <1>0, <2>3, <2>4, <2>5, PoolFrame DEF Kept
  <1>3. ASSUME NEW c \in Call,
               address_add_fails(c) \/ address_add_unusable(c) \/ address_undo(c)
               \/ stop_container_drain(c) \/ kill_pod_deallocate(c) \/ cancel(c)
        PROVE  PoolInv'
    <2>1. UNCHANGED <<pods, nextPodId>> /\ calls' = [calls EXCEPT ![c] = Idle]
      BY <1>3 DEF address_add_fails, address_add_unusable, address_undo, stop_container_drain,
                  kill_pod_deallocate, cancel, Return, poolVars
    <2> QED BY <1>0, <2>1, PoolReturn DEF Kept
  <1>4. ASSUME NEW c \in Call, address_activate(c) PROVE PoolInv'
    <2>1. \A p \in PodId : Kept(p) \/ Inserted(c, p)
      BY <1>4 DEF address_activate, Kept, Inserted, PoolInv, TypeOK
    <2>2. nextPodId' = nextPodId /\ calls' = [calls EXCEPT ![c] = Idle]
      BY <1>4 DEF address_activate, Return
    <2> QED BY <1>0, <2>1, <2>2, PoolReturn
  <1>5. ASSUME NEW c \in Call, address_activate_fails(c) PROVE PoolInv'
    BY <1>0, <1>5, PoolGoto DEF address_activate_fails, Goto
  <1>6. ASSUME UNCHANGED <<pods, nextPodId, calls>> PROVE PoolInv'
    BY <1>0, <1>6, PoolFrameNoCall DEF Kept
  <1>7. ASSUME NEW p \in PodId, NEW config \in Config, NEW attempt \in 0 .. MaxAttempt,
               create_container(p, config, attempt)
        PROVE  PoolInv'
    <2>1. UNCHANGED <<calls, nextPodId>>
      BY <1>7 DEF create_container, create_container_initial, create_container_again,
                  create_container_rejected, Answer, poolVars
    <2> QED BY <1>0, <1>7, <2>1, PodEffects, PoolFrameNoCall
  <1>8. ASSUME NEW c \in Call, NEW p \in PodId, start_container_without_wait(c, p),
               nextPodId' = nextPodId
        PROVE  PoolInv'
    <2>1. CASE /\ pods[p].state = "Created"
               /\ pods' = [pods EXCEPT ![p].state = "Starting"]
               /\ Enter(c, "bind", p, [pods[p] EXCEPT !.state = "Starting"])
      <3>1. pods[p] \in Pod
        BY DEF PoolInv, TypeOK
      <3>2. /\ calls'[c].pc = "bind" /\ calls'[c].pod = p
            /\ calls'[c].snap = [pods[p] EXCEPT !.state = "Starting"]
            /\ \A d \in Call \ {c} : calls'[d] = calls[d]
        BY <2>1 DEF Enter, PoolInv, TypeOK
      <3>3. pods'[p] = [pods[p] EXCEPT !.state = "Starting"]
        BY <2>1 DEF PoolInv, TypeOK
      <3>4. SlotOK(c)'
        BY <3>2, <3>3 DEF SlotOK, Initializing, Killing
      <3>5. \A q \in PodId : Kept(q) \/ Moved(q)
        BY <1>8, PodEffects
      <3>6. CallFrame(c)
        BY <2>1, <3>2 DEF CallFrame, Initializing, Killing
      <3> QED BY <1>0, <1>8, <3>2, <3>4, <3>5, <3>6, PoolFrame
    <2>2. CASE pods' = pods /\ calls' = [calls EXCEPT ![c] = Idle]
      BY <1>0, <1>8, <2>2, PoolReturn DEF Kept
    <2> QED BY <1>8, <2>1, <2>2 DEF start_container_without_wait, Return
  <1>9. ASSUME NEW c \in Call, NEW p \in PodId, start_container(c, p) PROVE PoolInv'
    <2>1. nextPodId' = nextPodId
      BY <1>9 DEF start_container
    <2>2. CASE /\ StillInitializing(p)
               /\ Enter(c, "awaitRoutes", p, [NoPod EXCEPT !.routes = pods[p].routes])
               /\ UNCHANGED pods
      <3>1. pods[p].routes \in Initialization /\ pods[p].state = "Created"
        BY <2>2 DEF StillInitializing, PoolInv, TypeOK, Pod
      <3>2. /\ calls'[c].pc = "awaitRoutes" /\ calls'[c].pod = p
            /\ calls'[c].snap = [NoPod EXCEPT !.routes = pods[p].routes]
            /\ \A d \in Call \ {c} : calls'[d] = calls[d]
        BY <2>2 DEF Enter, PoolInv, TypeOK
      <3>3. SlotOK(c)'
        BY <3>1, <3>2 DEF SlotOK, Initializing, Killing, NoPod
      <3>4. CallFrame(c)
        BY <3>1, <3>2 DEF CallFrame, Initializing, Killing
      <3> QED BY <1>0, <2>1, <2>2, <3>2, <3>3, <3>4, PoolFrame DEF Kept
    <2> QED BY <1>8, <1>9, <2>1, <2>2 DEF start_container
  <1>10. ASSUME NEW c \in Call, start_container_await(c) PROVE PoolInv'
    <2>1. calls[c] \in CallRecord /\ calls[c].pc = "awaitRoutes"
      BY <1>10 DEF PoolInv, TypeOK, start_container_await
    <2>2. /\ calls'[c].pc = "startAgain" /\ calls'[c].pod = calls[c].pod
          /\ \A d \in Call \ {c} : calls'[d] = calls[d]
          /\ nextPodId' = nextPodId /\ pods' = pods
      BY <1>10, <2>1 DEF start_container_await, PoolInv, TypeOK, CallRecord, poolVars
    <2>3. SlotOK(c)'
      BY <2>2 DEF SlotOK, Initializing, Killing
    <2>4. CallFrame(c)
      BY <2>1, <2>2 DEF CallFrame, Initializing, Killing
    <2> QED BY <1>0, <2>2, <2>3, <2>4, PoolFrame DEF Kept
  <1>11. ASSUME NEW c \in Call, start_container_again(c) PROVE PoolInv'
    <2>1. nextPodId' = nextPodId /\ calls[c].pod \in PodId
      BY <1>11 DEF start_container_again, PoolInv, TypeOK, CallRecord
    <2>2. CASE Return(c, "Juggling") /\ UNCHANGED pods
      BY <1>0, <2>1, <2>2, PoolReturn DEF Return, Kept
    <2> QED BY <1>8, <1>11, <2>1, <2>2 DEF start_container_again
  <1>12. ASSUME NEW c \in Call, start_container_bind(c) PROVE PoolInv'
    <2>1. calls[c] \in CallRecord /\ calls[c].snap \in Pod /\ SlotOK(c) /\ calls[c].pc = "bind"
      BY <1>12 DEF PoolInv, TypeOK, Slots, CallRecord, start_container_bind
    <2>2. PICK s \in Server : calls' = [calls EXCEPT ![c].pc = "finalize",
                                   ![c].snap.state = "Running",
                                   ![c].snap.killer = s]
      BY <1>12 DEF start_container_bind
    <2>3. /\ calls'[c].pc = "finalize" /\ calls'[c].pod = calls[c].pod
          /\ calls'[c].snap = [calls[c].snap EXCEPT !.state = "Running",
                                                    !.killer = s]
          /\ \A d \in Call \ {c} : calls'[d] = calls[d]
          /\ nextPodId' = nextPodId /\ pods' = pods
      BY <1>12, <2>1, <2>2 DEF start_container_bind, PoolInv, TypeOK, CallRecord, poolVars
    <2>4. /\ calls'[c].snap.state = "Running" /\ calls'[c].snap.killer = s
          /\ calls'[c].snap.addr = calls[c].snap.addr
          /\ calls'[c].snap.component = calls[c].snap.component
      BY <2>1, <2>3 DEF Pod
    <2>5. SlotOK(c)'
      BY <2>1, <2>3, <2>4 DEF SlotOK, Initializing, Killing
    <2>6. CallFrame(c)
      BY <2>1, <2>3 DEF CallFrame, Initializing, Killing
    <2> QED BY <1>0, <2>3, <2>5, <2>6, PoolFrame DEF Kept
  <1>13. ASSUME NEW c \in Call, start_container_bind_fails(c) PROVE PoolInv'
    <2>1. calls[c] \in CallRecord /\ calls[c].pc = "bind"
      BY <1>13 DEF PoolInv, TypeOK, start_container_bind_fails
    <2>2. /\ calls'[c].pc = "bindFailed" /\ calls'[c].pod = calls[c].pod
          /\ \A d \in Call \ {c} : calls'[d] = calls[d]
          /\ nextPodId' = nextPodId /\ pods' = pods
      BY <1>13, <2>1, EmptyRecords
      DEF start_container_bind_fails, PoolInv, TypeOK, CallRecord, poolVars
    <2>3. SlotOK(c)'
      BY <2>2 DEF SlotOK, Initializing, Killing
    <2>4. CallFrame(c)
      BY <2>1, <2>2 DEF CallFrame, Initializing, Killing
    <2> QED BY <1>0, <2>2, <2>3, <2>4, PoolFrame DEF Kept
  <1>14. ASSUME NEW c \in Call, start_container_unlock(c) PROVE PoolInv'
    <2>1. \A p \in PodId : Kept(p) \/ Moved(p)
      BY <1>14, PodEffects
    <2> QED BY <1>0, <1>14, <2>1, PoolReturn DEF start_container_unlock, Return
  <1>15. ASSUME NEW c \in Call, start_container_finalize(c) PROVE PoolInv'
    <2>1. \A p \in PodId : Kept(p) \/ Published(c, p)
      BY <1>15, PodEffects
    <2>2. nextPodId' = nextPodId /\ calls' = [calls EXCEPT ![c] = Idle]
      BY <1>15 DEF start_container_finalize, Return
    <2> QED BY <1>0, <2>1, <2>2, PoolReturn
  <1>16. ASSUME NEW c \in Call, NEW p \in PodId, stop_container(c, p) PROVE PoolInv'
    <2>1. nextPodId' = nextPodId
      BY <1>16 DEF stop_container
    <2>2. \A q \in PodId : Kept(q) \/ Moved(q)
      BY <1>16, PodEffects
    <2>3. CASE pods[p].state = "Running"
      <3>1. Enter(c, "stopTake", p, [NoPod EXCEPT !.killer = pods[p].killer])
        BY <1>16, <2>3 DEF stop_container
      <3>2. /\ calls'[c].pc = "stopTake" /\ calls'[c].pod = p
            /\ \A d \in Call \ {c} : calls'[d] = calls[d]
        BY <3>1 DEF Enter, PoolInv, TypeOK
      <3>3. SlotOK(c)'
        BY <3>2 DEF SlotOK, Initializing, Killing
      <3>4. CallFrame(c)
        BY <2>3, <3>2 DEF CallFrame, Initializing, Killing
      <3> QED BY <1>0, <2>1, <2>2, <3>2, <3>3, <3>4, PoolFrame
    <2>4. CASE pods[p].state # "Running"
      <3>1. calls' = [calls EXCEPT ![c] = Idle]
        BY <1>16, <2>4 DEF stop_container, Return
      <3> QED BY <1>0, <2>1, <2>2, <3>1, PoolReturn
    <2> QED BY <2>3, <2>4
  <1>17. ASSUME NEW c \in Call, stop_container_take(c) PROVE PoolInv'
    <2>1. UNCHANGED poolVars /\ calls[c].pc = "stopTake"
      BY <1>17 DEF stop_container_take
    <2>2. CASE calls' = [calls EXCEPT ![c] = Idle]
      BY <1>0, <2>1, <2>2, PoolReturn DEF Kept, poolVars
    <2>3. CASE /\ CanTake(calls[c].snap.killer)
               /\ calls' = [calls EXCEPT ![c].pc = "stopDrain"]
      <3>1. calls[c].snap.killer \in Server
        BY <2>3 DEF CanTake, PoolInv, TypeOK, CallRecord, Pod
      <3> QED BY <1>0, <2>1, <2>3, <3>1, PoolGoto
    <2> QED BY <1>17, <2>2, <2>3 DEF stop_container_take, Goto, Return
  <1>18. ASSUME NEW p \in PodId, remove_container(p) \/ delete_pod(p) PROVE PoolInv'
    <2>1. UNCHANGED <<calls, nextPodId>>
      BY <1>18 DEF remove_container, delete_pod, Answer
    <2> QED BY <1>0, <1>18, <2>1, PodEffects, PoolFrameNoCall
  <1>19. ASSUME NEW c \in Call, NEW p \in PodId, kill_pod(c, p) PROVE PoolInv'
    <2>1. nextPodId' = nextPodId /\ pods[p] \in Pod /\ pods \in [PodId -> Pod]
      BY <1>19 DEF kill_pod, PoolInv, TypeOK
    <2>2. \A q \in PodId : Kept(q) \/ Moved(q)
      BY <1>19, PodEffects
    <2>3. CASE pods[p].state \notin {"Killed", "Absent"}
      <3> DEFINE snap == [NoPod EXCEPT !.killer = pods[p].killer, !.addr = pods[p].addr,
                                       !.component = pods[p].component]
      <3>1. Enter(c, "killTake", p, snap) /\ pods' = [pods EXCEPT ![p].state = "Killed"]
        BY <1>19, <2>3 DEF kill_pod
      <3>2. /\ calls'[c].pc = "killTake" /\ calls'[c].pod = p /\ calls'[c].snap = snap
            /\ \A d \in Call \ {c} : calls'[d] = calls[d]
        BY <3>1 DEF Enter, PoolInv, TypeOK
      <3>3. snap.component = pods[p].component /\ snap.addr = pods[p].addr
        BY DEF NoPod
      <3>4. pods[p].component \in Component /\ pods[p].addr \in Address
        BY <2>3 DEF PoolInv, Entries
      <3>5. pods'[p].state = "Killed"
        BY <2>1, <3>1 DEF Pod
      <3> HIDE DEF snap
      <3>6. SlotOK(c)'
        BY <3>2, <3>3, <3>4, <3>5 DEF SlotOK, Initializing, Killing
      <3>7. CallFrame(c)
        BY <2>3, <3>2 DEF CallFrame, Initializing, Killing
      <3> QED BY <1>0, <2>1, <2>2, <3>2, <3>6, <3>7, PoolFrame
    <2>4. CASE pods[p].state \in {"Killed", "Absent"}
      <3>1. calls' = [calls EXCEPT ![c] = Idle]
        BY <1>19, <2>4 DEF kill_pod, Return
      <3> QED BY <1>0, <2>1, <2>2, <3>1, PoolReturn
    <2> QED BY <2>3, <2>4
  <1>20. ASSUME NEW c \in Call, kill_pod_take(c) PROVE PoolInv'
    <2>1. UNCHANGED poolVars /\ calls[c].pc = "killTake"
      BY <1>20 DEF kill_pod_take
    <2>2. CASE calls' = [calls EXCEPT ![c].pc = "deactivate"]
      BY <1>0, <2>1, <2>2, PoolGoto
    <2>3. CASE /\ CanTake(calls[c].snap.killer)
               /\ calls' = [calls EXCEPT ![c].pc = "killDrain"]
      <3>1. calls[c].snap.killer \in Server
        BY <2>3 DEF CanTake, PoolInv, TypeOK, CallRecord, Pod
      <3> QED BY <1>0, <2>1, <2>3, <3>1, PoolGoto
    <2>4. CASE CanTake(calls[c].snap.killer)
      <3>1. Goto(c, IF servers[calls[c].snap.killer].phase = "up"
                    THEN "killDrain" ELSE "deactivate")
        BY <1>20, <2>4 DEF kill_pod_take
      <3>2. CASE servers[calls[c].snap.killer].phase = "up"
        BY <2>3, <2>4, <3>1, <3>2 DEF Goto
      <3>3. CASE servers[calls[c].snap.killer].phase # "up"
        BY <2>2, <3>1, <3>3 DEF Goto
      <3> QED BY <3>2, <3>3
    <2>5. CASE ~ CanTake(calls[c].snap.killer)
      BY <1>20, <2>2, <2>5 DEF kill_pod_take, Goto
    <2> QED BY <2>4, <2>5
  <1>21. ASSUME NEW c \in Call, kill_pod_drain(c) PROVE PoolInv'
    BY <1>0, <1>21, PoolGoto DEF kill_pod_drain, Goto
  <1>22. ASSUME NEW c \in Call, kill_pod_deactivate(c) PROVE PoolInv'
    <2>1. UNCHANGED poolVars /\ calls[c].pc = "deactivate"
      BY <1>22 DEF kill_pod_deactivate
    <2>2. CASE calls' = [calls EXCEPT ![c] = Idle]
      BY <1>0, <2>1, <2>2, PoolReturn DEF Kept, poolVars
    <2>3. CASE calls' = [calls EXCEPT ![c].pc = "deallocate"]
      BY <1>0, <2>1, <2>3, PoolGoto
    <2> QED BY <1>22, <2>2, <2>3 DEF kill_pod_deactivate, Goto, Return
  <1>23. CASE restart
    <2>1. /\ \A p \in PodId : pods'[p] = NoPod
          /\ \A c \in Call : calls'[c] = Idle
      BY <1>23 DEF restart
    <2>2. Ids' /\ Entries'
      BY <2>1 DEF Ids, Entries, NoPod, Idle
    <2>3. Slots'
      <3>1. \A c \in Call : calls'[c].pc = "idle"
        BY <2>1 DEF Idle
      <3> QED BY <3>1 DEF Slots, SlotOK, Initializing, Killing
    <2>4. Exclusive'
      BY <2>1 DEF Exclusive, Initializing, Killing, Idle
    <2> QED BY <1>0, <2>2, <2>3, <2>4 DEF PoolInv
  <1>24. ASSUME NEW c \in Call, Step(c) \/ cancel(c) PROVE PoolInv'
    BY <1>2, <1>3, <1>4, <1>5, <1>10, <1>11, <1>12, <1>13, <1>14, <1>15, <1>17, <1>20, <1>21,
       <1>22, <1>24 DEF Step
  <1>25. CASE Request
    BY <1>1, <1>7, <1>9, <1>16, <1>18, <1>19, <1>25 DEF Request
  <1>26. ASSUME \/ \E i \in Initialization : initialize_grpc(i)
                \/ \E s \in Server : ServerEnds(s) \/ AbortedServerEnds(s) \/ ServerShutsDown(s)
                \/ shutdown_signal
         PROVE  PoolInv'
    BY <1>6, <1>26 DEF initialize_grpc, ServerEnds, AbortedServerEnds, ServerShutsDown,
                       shutdown_signal, poolVars
  <1> QED BY <1>23, <1>24, <1>25, <1>26 DEF Next

(* The empty pool of a new process satisfies it. *)
LEMMA PoolInit ==
  ASSUME Init
  PROVE  PoolInv
  <1>1. TypeOK
    <2>1. IpamTypeOK /\ nextPodId \in 0 .. MaxPods
      BY MaxPodsAssumption DEF Init, IpamInit, IpamTypeOK
    <2>2. pods \in [PodId -> Pod] /\ calls \in [Call -> CallRecord]
      BY EmptyRecords DEF Init
    <2>3. servers \in [Server -> ServerRecord]
      BY EmptyRecords DEF Init
    <2> QED BY <2>1, <2>2, <2>3 DEF Init, TypeOK, Reply
  <1>2. /\ \A p \in PodId : pods[p] = NoPod
        /\ \A c \in Call : calls[c] = Idle
    BY DEF Init
  <1>3. Ids /\ Entries
    BY <1>2 DEF Ids, Entries, NoPod, Idle
  <1>4. Slots
    <2>1. \A c \in Call : calls[c].pc = "idle"
      BY <1>2 DEF Idle
    <2> QED BY <2>1 DEF Slots, SlotOK, Initializing, Killing
  <1>5. Exclusive
    BY <1>2 DEF Exclusive, Initializing, Killing, Idle
  <1> QED BY <1>1, <1>3, <1>4, <1>5 DEF PoolInv

(* The invariant of the pool holds in every behaviour, with any number of  *)
(* pods, calls in flight, servers and addresses, under every set of faults.*)
THEOREM PoolCorrect == Spec => []PoolInv
  <1>1. PoolInv /\ UNCHANGED vars => PoolInv'
    <2> SUFFICES ASSUME PoolInv, UNCHANGED vars PROVE PoolInv'
      OBVIOUS
    <2>1. TypeOK'
      BY DEF PoolInv, TypeOK, IpamTypeOK, vars
    <2>2. Ids' /\ Entries'
      BY DEF PoolInv, Ids, Entries, vars
    <2>3. Slots'
      BY DEF PoolInv, Slots, SlotOK, Initializing, Killing, vars
    <2>4. Exclusive'
      BY DEF PoolInv, Exclusive, Initializing, Killing, vars
    <2> QED BY <2>1, <2>2, <2>3, <2>4 DEF PoolInv
  <1> QED BY <1>1, PoolInit, PoolStep, PTL DEF Spec

(* Every handler leaves every variable in its type: no pod identifier is   *)
(* out of range, and no slot, killer or address is read where there is     *)
(* none.                                                                   *)
THEOREM TypeCorrect == Spec => []TypeOK
  BY PoolCorrect, PTL DEF PoolInv

(***************************************************************************)
(* WorkRuntime implements PodLifecycle.                                    *)
(***************************************************************************)

(* A step that changes one entry changes the state of one pod. *)
LEMMA MoveStep ==
  ASSUME NEW p \in PodId, NEW from, NEW to, pods[p].state \in from, pods'[p].state = to,
         \A q \in PodId \ {p} : pods'[q] = pods[q]
  PROVE  Lifecycle!Move(p, from, to)
  BY DEF Lifecycle!Move

(* Every step of a handler is a step of the life cycle, or changes the     *)
(* state of no pod.                                                        *)
LEMMA LifecycleStep ==
  ASSUME PoolInv, Next
  PROVE  Lifecycle!Next \/ UNCHANGED [p \in PodId |-> pods[p].state]
  <1> DEFINE Goal == Lifecycle!Next \/ UNCHANGED [p \in PodId |-> pods[p].state]
  <1>0. pods \in [PodId -> Pod]
    BY DEF PoolInv, TypeOK
  <1>1. CASE UNCHANGED pods
    BY <1>1
  <1>2. ASSUME NEW c \in Call, address_activate(c) PROVE Goal
    <2>1. PICK p \in PodId : p = calls[c].pod /\ calls[c].snap \in Pod
      BY DEF PoolInv, TypeOK, CallRecord
    <2>2. CASE /\ pods[p].state = "Absent"
               /\ pods' = [pods EXCEPT ![p] = [calls[c].snap EXCEPT !.state = "Initiated"]]
      <3>1. pods'[p].state = "Initiated" /\ \A q \in PodId \ {p} : pods'[q] = pods[q]
        BY <1>0, <2>1, <2>2 DEF Pod
      <3>2. Lifecycle!RunPodSandbox(p)
        BY <2>1, <2>2, <3>1, MoveStep DEF Lifecycle!RunPodSandbox
      <3> QED BY <2>1, <3>2 DEF Lifecycle!Next
    <2> QED BY <1>1, <1>2, <2>1, <2>2 DEF address_activate
  <1>3. ASSUME NEW p \in PodId, NEW config \in Config, NEW attempt \in 0 .. MaxAttempt,
               create_container(p, config, attempt)
        PROVE  Goal
    <2>1. CASE create_container_initial(p, config, attempt)
      <3>1. /\ pods[p].state \in {"Initiated", "Removed"} /\ pods'[p].state = "Created"
            /\ \A q \in PodId \ {p} : pods'[q] = pods[q]
        BY <1>0, <2>1 DEF create_container_initial, Pod
      <3>2. Lifecycle!CreateContainer(p)
        BY <3>1, MoveStep DEF Lifecycle!CreateContainer
      <3> QED BY <3>2 DEF Lifecycle!Next
    <2>2. CASE create_container_again(p, config, attempt)
      <3>1. /\ pods[p].state \in {"Created", "Starting", "Running"} /\ pods'[p].state = "Created"
            /\ \A q \in PodId \ {p} : pods'[q] = pods[q]
        <4>1. /\ pods[p].state \in {"Created", "Starting", "Running"}
              /\ \/ pods' = [pods EXCEPT ![p].state = "Created", ![p].attempt = attempt]
                 \/ \E i \in Initialization :
                      pods' = [pods EXCEPT ![p].state = "Created", ![p].routes = i,
                                           ![p].attempt = attempt]
          BY <2>2 DEF create_container_again
        <4>2. CASE pods' = [pods EXCEPT ![p].state = "Created", ![p].attempt = attempt]
          BY <1>0, <4>1, <4>2 DEF Pod
        <4>3. ASSUME NEW i \in Initialization,
                     pods' = [pods EXCEPT ![p].state = "Created", ![p].routes = i,
                                          ![p].attempt = attempt]
              PROVE  pods'[p].state = "Created" /\ \A q \in PodId \ {p} : pods'[q] = pods[q]
          BY <1>0, <4>3 DEF Pod
        <4> QED BY <4>1, <4>2, <4>3
      <3>2. Lifecycle!CreateContainer(p)
        BY <3>1, MoveStep DEF Lifecycle!CreateContainer
      <3> QED BY <3>2 DEF Lifecycle!Next
    <2>3. CASE create_container_rejected(p, config)
      BY <1>1, <2>3 DEF create_container_rejected, poolVars
    <2> QED BY <1>3, <2>1, <2>2, <2>3 DEF create_container
  <1>4. ASSUME NEW c \in Call, NEW p \in PodId, start_container_without_wait(c, p) PROVE Goal
    <2>1. CASE pods[p].state = "Created" /\ pods' = [pods EXCEPT ![p].state = "Starting"]
      <3>1. pods'[p].state = "Starting" /\ \A q \in PodId \ {p} : pods'[q] = pods[q]
        BY <1>0, <2>1 DEF Pod
      <3>2. Lifecycle!StartContainer(p)
        BY <2>1, <3>1, MoveStep DEF Lifecycle!StartContainer
      <3> QED BY <3>2 DEF Lifecycle!Next
    <2> QED BY <1>1, <1>4, <2>1 DEF start_container_without_wait
  <1>5. ASSUME NEW c \in Call, NEW p \in PodId, start_container(c, p) PROVE Goal
    BY <1>1, <1>4, <1>5 DEF start_container
  <1>6. ASSUME NEW c \in Call, start_container_again(c) PROVE Goal
    <2>1. calls[c].pod \in PodId
      BY DEF PoolInv, TypeOK, CallRecord
    <2> QED BY <1>1, <1>4, <1>6, <2>1 DEF start_container_again
  <1>7. ASSUME NEW c \in Call, start_container_unlock(c) PROVE Goal
    <2>1. PICK p \in PodId : p = calls[c].pod
      BY DEF PoolInv, TypeOK, CallRecord
    <2>2. CASE pods[p].state = "Starting"
      <3>1. pods'[p].state = "Created" /\ \A q \in PodId \ {p} : pods'[q] = pods[q]
        BY <1>0, <1>7, <2>1, <2>2 DEF start_container_unlock, Pod
      <3>2. Lifecycle!CreateContainer(p)
        BY <2>1, <2>2, <3>1, MoveStep DEF Lifecycle!CreateContainer
      <3> QED BY <2>1, <3>2 DEF Lifecycle!Next
    <2>3. CASE pods[p].state # "Starting"
      BY <1>1, <1>7, <2>1, <2>3 DEF start_container_unlock
    <2> QED BY <2>2, <2>3
  <1>8. ASSUME NEW c \in Call, start_container_finalize(c) PROVE Goal
    <2>1. PICK p \in PodId : p = calls[c].pod /\ calls[c].snap.state = "Running"
      BY <1>8 DEF PoolInv, TypeOK, CallRecord, Slots, SlotOK, start_container_finalize
    <2>2. CASE pods[p].state = "Starting"
      <3>1. pods'[p].state = "Running" /\ \A q \in PodId \ {p} : pods'[q] = pods[q]
        BY <1>0, <1>8, <2>1, <2>2 DEF start_container_finalize
      <3>2. Lifecycle!Ready(p)
        BY <2>1, <2>2, <3>1, MoveStep DEF Lifecycle!Ready
      <3> QED BY <2>1, <3>2 DEF Lifecycle!Next
    <2>3. CASE pods[p].state # "Starting"
      BY <1>1, <1>8, <2>1, <2>3 DEF start_container_finalize
    <2> QED BY <2>2, <2>3
  <1>9. ASSUME NEW c \in Call, NEW p \in PodId, stop_container(c, p) PROVE Goal
    <2>1. CASE /\ pods[p].state \in {"Starting", "Running"}
               /\ pods' = [pods EXCEPT ![p].state = "Stopped"]
      <3>1. pods'[p].state = "Stopped" /\ \A q \in PodId \ {p} : pods'[q] = pods[q]
        BY <1>0, <2>1 DEF Pod
      <3>2. Lifecycle!StopContainer(p)
        BY <2>1, <3>1, MoveStep DEF Lifecycle!StopContainer
      <3> QED BY <3>2 DEF Lifecycle!Next
    <2> QED BY <1>1, <1>9, <2>1 DEF stop_container
  <1>10. ASSUME NEW p \in PodId, remove_container(p) PROVE Goal
    <2>1. CASE pods[p].state = "Stopped" /\ pods' = [pods EXCEPT ![p].state = "Removed"]
      <3>1. pods'[p].state = "Removed" /\ \A q \in PodId \ {p} : pods'[q] = pods[q]
        BY <1>0, <2>1 DEF Pod
      <3>2. Lifecycle!RemoveContainer(p)
        BY <2>1, <3>1, MoveStep DEF Lifecycle!RemoveContainer
      <3> QED BY <3>2 DEF Lifecycle!Next
    <2> QED BY <1>1, <1>10, <2>1 DEF remove_container
  <1>11. ASSUME NEW c \in Call, NEW p \in PodId, kill_pod(c, p) PROVE Goal
    <2>1. CASE /\ pods[p].state \notin {"Killed", "Absent"}
               /\ pods' = [pods EXCEPT ![p].state = "Killed"]
      <3>1. pods'[p].state = "Killed" /\ \A q \in PodId \ {p} : pods'[q] = pods[q]
        BY <1>0, <2>1 DEF Pod
      <3>2. pods[p].state \in Lifecycle!Live
        BY <1>0, <2>1 DEF Pod, PodState, Lifecycle!Live
      <3>3. Lifecycle!StopPodSandbox(p)
        BY <3>1, <3>2, MoveStep DEF Lifecycle!StopPodSandbox
      <3> QED BY <3>3 DEF Lifecycle!Next
    <2> QED BY <1>1, <1>11, <2>1 DEF kill_pod
  <1>12. ASSUME NEW p \in PodId, delete_pod(p) PROVE Goal
    <2>1. CASE pods[p].state = "Killed" /\ pods' = [pods EXCEPT ![p] = NoPod]
      <3>1. pods'[p].state = "Absent" /\ \A q \in PodId \ {p} : pods'[q] = pods[q]
        BY <1>0, <2>1 DEF NoPod
      <3>2. Lifecycle!RemovePodSandbox(p)
        BY <2>1, <3>1, MoveStep DEF Lifecycle!RemovePodSandbox
      <3> QED BY <3>2 DEF Lifecycle!Next
    <2> QED BY <1>1, <1>12, <2>1 DEF delete_pod
  <1>13. CASE restart
    <2>1. Lifecycle!Restart
      BY <1>13 DEF restart, Lifecycle!Restart, NoPod
    <2> QED BY <2>1 DEF Lifecycle!Next
  <1>14. ASSUME NEW c \in Call, Step(c) PROVE Goal
    BY <1>1, <1>2, <1>6, <1>7, <1>8, <1>14
    DEF Step, address_add, address_add_fails, address_add_unusable, address_activate_fails,
        address_undo, start_container_await, start_container_bind, start_container_bind_fails,
        stop_container_take, stop_container_drain, kill_pod_take, kill_pod_drain,
        kill_pod_deactivate, kill_pod_deallocate, poolVars
  <1>15. CASE Request
    BY <1>1, <1>3, <1>5, <1>9, <1>10, <1>11, <1>12, <1>15 DEF Request, init_pod
  <1>16. CASE \/ \E c \in Call : cancel(c)
              \/ \E i \in Initialization : initialize_grpc(i)
              \/ \E s \in Server : ServerEnds(s) \/ AbortedServerEnds(s) \/ ServerShutsDown(s)
              \/ shutdown_signal
    BY <1>1, <1>16 DEF cancel, initialize_grpc, ServerEnds, AbortedServerEnds, ServerShutsDown,
                       shutdown_signal, poolVars
  <1> QED BY <1>13, <1>14, <1>15, <1>16 DEF Next

(* Every behaviour of the handlers, seen through the states of the pods,   *)
(* is a behaviour of PodLifecycle.  This is where it matters that the last *)
(* compute of StartContainer publishes its clone only over Starting, and   *)
(* that the clone it publishes is one of a Running pod.                    *)
THEOREM LifecycleCorrect == Spec => ImplementsLifecycle
  <1>1. Init => Lifecycle!Init
    BY DEF Init, Lifecycle!Init, NoPod
  <1>2. PoolInv /\ [Next]_vars => [Lifecycle!Next]_[p \in PodId |-> pods[p].state]
    BY LifecycleStep DEF vars
  <1> QED BY <1>1, <1>2, PoolCorrect, PTL DEF Spec, ImplementsLifecycle, Lifecycle!Spec

=============================================================================

------------------------ MODULE WorkRuntimeAddresses ------------------------
(***************************************************************************)
(* The two address stores agree with each other and with the pool,         *)
(* whatever fails, is cancelled or restarts.                               *)
(***************************************************************************)
EXTENDS WorkRuntimePool

(* The handler has an address. *)
Holding(c) ==
  calls[c].pc \in {"ipAddrAdd", "ipamUndo", "killTake", "killDrain", "deactivate", "deallocate"}

(* A handler that has an address owns it in the plugin's store, and it is  *)
(* on the interface only between activation and deactivation.              *)
Owns(c) ==
  /\ Holding(c) => allocated[calls[c].snap.addr] = CallName(c)
  /\ calls[c].pc \in {"ipAddrAdd", "ipamUndo", "deallocate"} => calls[c].snap.addr \notin active

(* A pod name holds at most one address. *)
OneEach == \A a, b \in Address : allocated[a] = allocated[b] /\ allocated[a] # NoName => a = b

AddressInv ==
  /\ OneEach
  /\ ActiveIsAllocated
  /\ LivePodOwnsAddress
  /\ \A c \in Call : Owns(c)

Live(p) == pods[p].state \notin {"Absent", "Killed"}

(* No other handler, and no live pod, has the name of a handler's pod. *)
LEMMA NamesDiffer ==
  ASSUME PoolInv, NEW c \in Call, Holding(c) \/ calls[c].pc = "ipamAdd"
  PROVE  /\ CallName(c) \in PodName /\ CallName(c) # NoName
         /\ \A d \in Call \ {c} : Holding(d) => CallName(d) # CallName(c)
         /\ \A p \in PodId : Live(p) => NameOf(p, pods[p]) # CallName(c)
  <1>1. SlotOK(c) /\ calls[c].pod \in PodId
    BY DEF PoolInv, Slots, TypeOK, CallRecord
  <1>2. Initializing(c) \/ Killing(c)
    BY DEF Holding, Initializing, Killing
  <1>3. CallName(c) \in PodName /\ CallName(c) # NoName
    BY <1>1, <1>2, NoneIsNotAComponent DEF SlotOK, CallName, NameOf, PodName, NoName
  <1>4. ASSUME NEW d \in Call \ {c}, Holding(d) PROVE CallName(d) # CallName(c)
    <2>1. calls[c].pod # calls[d].pod
      BY <1>2, <1>4 DEF Holding, Initializing, Killing, PoolInv, Exclusive
    <2> QED BY <2>1 DEF CallName, NameOf
  <1>5. ASSUME NEW p \in PodId, Live(p) PROVE NameOf(p, pods[p]) # CallName(c)
    <2>1. calls[c].pod # p
      BY <1>1, <1>2, <1>5 DEF SlotOK, Live
    <2> QED BY <2>1 DEF CallName, NameOf
  <1> QED BY <1>3, <1>4, <1>5

(* A step of call c that leaves alone what others own keeps the invariant. *)
LEMMA AddressFrame ==
  ASSUME PoolInv, AddressInv, NEW c, OneEach', ActiveIsAllocated', c \in Call => Owns(c)',
         \A d \in Call \ {c} : calls'[d] = calls[d],
         \A d \in Call \ {c} : Holding(d) =>
            /\ allocated'[calls[d].snap.addr] = allocated[calls[d].snap.addr]
            /\ calls[d].snap.addr \in active' => calls[d].snap.addr \in active,
         \A p \in PodId : Live(p) =>
            pods[p].addr \in active' /\ allocated'[pods[p].addr] = allocated[pods[p].addr],
         \A p \in PodId : \/ Kept(p) \/ Moved(p) \/ Deleted(p) \/ Published(c, p)
                          \/ /\ pods'[p].addr \in active'
                             /\ allocated'[pods'[p].addr] = NameOf(p, pods'[p])
  PROVE  AddressInv'
  <1>1. ASSUME NEW d \in Call \ {c} PROVE Owns(d)'
    BY DEF AddressInv, Owns, Holding, CallName
  <1>2. ASSUME NEW p \in PodId, Live(p)'
        PROVE  pods'[p].addr \in active' /\ allocated'[pods'[p].addr] = NameOf(p, pods'[p])
    <2>1. Live(p) => allocated[pods[p].addr] = NameOf(p, pods[p])
      BY DEF AddressInv, LivePodOwnsAddress, Live
    <2>2. CASE Kept(p)
      BY <1>2, <2>1, <2>2 DEF Kept, Live
    <2>3. CASE Moved(p)
      BY <2>1, <2>3 DEF Moved, Live, NameOf
    <2>4. CASE Deleted(p)
      BY <1>2, <2>4 DEF Deleted, Live, NoPod
    <2>5. CASE Published(c, p)
      <3>1. /\ c \in Call /\ calls[c].pc = "finalize" /\ calls[c].pod = p /\ Live(p)
            /\ pods[p].state # "Absent" /\ pods'[p] = calls[c].snap
        BY <2>5 DEF Published, Live
      <3>2. SlotOK(c)
        BY <3>1 DEF PoolInv, Slots
      <3>3. pods'[p].addr = pods[p].addr /\ pods'[p].component = pods[p].component
        BY <3>1, <3>2 DEF SlotOK
      <3> QED BY <2>1, <3>1, <3>3 DEF NameOf
    <2> QED BY <2>2, <2>3, <2>4, <2>5
  <1>3. LivePodOwnsAddress'
    BY <1>2 DEF LivePodOwnsAddress, Live
  <1> QED BY <1>1, <1>3 DEF AddressInv

(* So does a step that leaves both stores alone. *)
LEMMA AddressQuiet ==
  ASSUME PoolInv, AddressInv, NEW c, UNCHANGED ipamVars, c \in Call => Owns(c)',
         \A d \in Call \ {c} : calls'[d] = calls[d],
         \A p \in PodId : Kept(p) \/ Moved(p) \/ Deleted(p) \/ Published(c, p)
  PROVE  AddressInv'
  <1>1. OneEach' /\ ActiveIsAllocated'
    BY DEF AddressInv, OneEach, ActiveIsAllocated, ipamVars
  <1>2. \A p \in PodId : Live(p) =>
          pods[p].addr \in active' /\ allocated'[pods[p].addr] = allocated[pods[p].addr]
    BY DEF AddressInv, LivePodOwnsAddress, Live, ipamVars
  <1> QED BY <1>1, <1>2, AddressFrame DEF ipamVars

(* ADD takes an address that nobody has. *)
LEMMA AddressAdd ==
  ASSUME PoolInv, AddressInv, NEW c \in Call, calls[c].pc = "ipamAdd",
         NEW a \in Address, PluginADD(CallName(c), a), UNCHANGED <<active, pods>>,
         \A d \in Call \ {c} : calls'[d] = calls[d],
         \/ calls'[c].pc = "idle"
         \/ /\ calls'[c].pc = "ipAddrAdd" /\ calls'[c].snap.addr = a
            /\ CallName(c)' = CallName(c)
  PROVE  AddressInv'
  <1>1. allocated \in [Address -> PodName \cup {NoName}] /\ active \subseteq Address
    BY DEF PoolInv, TypeOK, IpamTypeOK
  <1>2. /\ allocated[a] = NoName /\ CallName(c) # NoName
        /\ \A b \in Address : allocated[b] # CallName(c)
        /\ allocated' = [allocated EXCEPT ![a] = CallName(c)]
    BY NamesDiffer DEF PluginADD, CanAdd
  <1>3. /\ allocated'[a] = CallName(c)
        /\ \A b \in Address : allocated[b] # NoName => allocated'[b] = allocated[b]
    BY <1>1, <1>2
  <1>4. OneEach'
    BY <1>1, <1>2 DEF AddressInv, OneEach
  <1>5. ActiveIsAllocated' /\ a \notin active
    BY <1>1, <1>2, <1>3 DEF AddressInv, ActiveIsAllocated
  <1>6. Owns(c)'
    BY <1>3, <1>5 DEF Owns, Holding
  <1>7. ASSUME NEW d \in Call \ {c}, Holding(d)
        PROVE  allocated'[calls[d].snap.addr] = allocated[calls[d].snap.addr]
    <2>1. calls[d].snap.addr \in Address
      BY <1>7 DEF PoolInv, Slots, SlotOK, Holding, Killing
    <2>2. allocated[calls[d].snap.addr] # NoName
      BY <1>7, NamesDiffer DEF AddressInv, Owns
    <2> QED BY <1>3, <2>1, <2>2
  <1>8. ASSUME NEW p \in PodId, Live(p)
        PROVE  pods[p].addr \in active /\ allocated'[pods[p].addr] = allocated[pods[p].addr]
    BY <1>1, <1>3, <1>8 DEF AddressInv, LivePodOwnsAddress, ActiveIsAllocated, Live
  <1> QED BY <1>4, <1>5, <1>6, <1>7, <1>8, AddressFrame DEF Kept

(* DEL frees the address of a handler that nobody else has. *)
LEMMA AddressDel ==
  ASSUME PoolInv, AddressInv, NEW c \in Call, calls[c].pc \in {"ipamUndo", "deallocate"},
         PluginDEL(CallName(c)), UNCHANGED <<active, pods>>, calls'[c].pc = "idle",
         \A d \in Call \ {c} : calls'[d] = calls[d]
  PROVE  AddressInv'
  <1>1. allocated \in [Address -> PodName \cup {NoName}] /\ active \subseteq Address
    BY DEF PoolInv, TypeOK, IpamTypeOK
  <1>2. /\ \A a \in Address : allocated'[a] = IF allocated[a] = CallName(c) THEN NoName
                                                                          ELSE allocated[a]
        /\ Holding(c)
    BY DEF PluginDEL, Holding
  <1>3. OneEach'
    BY <1>2 DEF AddressInv, OneEach
  <1>4. calls[c].snap.addr \in Address
    BY DEF PoolInv, Slots, SlotOK, Killing
  <1>5. \A a \in active : allocated[a] # CallName(c)
    BY <1>1, <1>2, <1>4, NamesDiffer DEF AddressInv, OneEach, Owns
  <1>6. ActiveIsAllocated'
    BY <1>1, <1>2, <1>5 DEF AddressInv, ActiveIsAllocated
  <1>7. ASSUME NEW d \in Call \ {c}, Holding(d)
        PROVE  allocated'[calls[d].snap.addr] = allocated[calls[d].snap.addr]
    <2>1. calls[d].snap.addr \in Address
      BY <1>7 DEF PoolInv, Slots, SlotOK, Holding, Killing
    <2>2. allocated[calls[d].snap.addr] # CallName(c)
      BY <1>2, <1>7, NamesDiffer DEF AddressInv, Owns
    <2> QED BY <1>2, <2>1, <2>2
  <1>8. ASSUME NEW p \in PodId, Live(p)
        PROVE  pods[p].addr \in active /\ allocated'[pods[p].addr] = allocated[pods[p].addr]
    BY <1>1, <1>2, <1>5, <1>8 DEF AddressInv, LivePodOwnsAddress, Live
  <1>9. Owns(c)'
    BY DEF Owns, Holding
  <1> QED BY <1>3, <1>6, <1>7, <1>8, <1>9, AddressFrame DEF Kept

(* Activation concerns the handler that owns the address, and the pod that *)
(* it inserts.                                                             *)
LEMMA AddressUp ==
  ASSUME PoolInv, AddressInv, NEW c \in Call, calls[c].pc = "ipAddrAdd",
         active' = active \cup {calls[c].snap.addr}, UNCHANGED allocated,
         calls'[c].pc = "idle", \A d \in Call \ {c} : calls'[d] = calls[d],
         \A p \in PodId : Kept(p) \/ Inserted(c, p)
  PROVE  AddressInv'
  <1>1. Holding(c) /\ allocated[calls[c].snap.addr] = CallName(c)
    BY DEF Holding, AddressInv, Owns
  <1>2. OneEach' /\ ActiveIsAllocated'
    BY <1>1, NamesDiffer DEF AddressInv, OneEach, ActiveIsAllocated
  <1>3. ASSUME NEW d \in Call \ {c}, Holding(d)
        PROVE  calls[d].snap.addr # calls[c].snap.addr
    BY <1>1, <1>3, NamesDiffer DEF AddressInv, Owns
  <1>4. \A p \in PodId : Live(p) => pods[p].addr \in active'
    BY DEF AddressInv, LivePodOwnsAddress, Live
  <1>5. ASSUME NEW p \in PodId, Inserted(c, p)
        PROVE  pods'[p].addr \in active' /\ allocated'[pods'[p].addr] = NameOf(p, pods'[p])
    <2>1. calls[c].snap \in Pod
      BY DEF PoolInv, TypeOK, CallRecord
    <2>2. pods'[p].addr = calls[c].snap.addr /\ NameOf(p, pods'[p]) = CallName(c)
      BY <1>5, <2>1 DEF Inserted, NameOf, CallName, Pod
    <2> QED BY <1>1, <2>2
  <1>6. Owns(c)'
    BY DEF Owns, Holding
  <1> QED BY <1>2, <1>3, <1>4, <1>5, <1>6, AddressFrame

(* Deactivation concerns no live pod: the pod of the handler is killed. *)
LEMMA AddressDown ==
  ASSUME PoolInv, AddressInv, NEW c \in Call, calls[c].pc = "deactivate",
         active' = active \ {calls[c].snap.addr}, UNCHANGED <<allocated, pods>>,
         \A d \in Call \ {c} : calls'[d] = calls[d],
         \/ calls'[c].pc = "idle"
         \/ calls'[c].pc = "deallocate" /\ calls'[c].snap = calls[c].snap
            /\ calls'[c].pod = calls[c].pod
  PROVE  AddressInv'
  <1>1. Holding(c) /\ allocated[calls[c].snap.addr] = CallName(c)
    BY DEF Holding, AddressInv, Owns
  <1>2. OneEach' /\ ActiveIsAllocated'
    BY DEF AddressInv, OneEach, ActiveIsAllocated
  <1>3. ASSUME NEW p \in PodId, Live(p) PROVE pods[p].addr \in active'
    BY <1>1, <1>3, NamesDiffer DEF AddressInv, LivePodOwnsAddress, Live
  <1>4. Owns(c)'
    BY <1>1 DEF Owns, Holding, CallName
  <1> QED BY <1>2, <1>3, <1>4, AddressFrame DEF Kept

(* Every step keeps the invariant of the addresses. *)
LEMMA AddressStep ==
  ASSUME PoolInv, AddressInv, Next
  PROVE  AddressInv'
  <1>0. calls \in [Call -> CallRecord]
    BY DEF PoolInv, TypeOK
  <1>1. ASSUME NEW c \in Call, calls' = [calls EXCEPT ![c] = Idle]
        PROVE  /\ calls'[c].pc = "idle" /\ Owns(c)'
               /\ \A d \in Call \ {c} : calls'[d] = calls[d]
    BY <1>0, <1>1 DEF Idle, Owns, Holding
  <1>2. ASSUME NEW c \in Call, calls' = [calls EXCEPT ![c] = Idle], UNCHANGED ipamVars,
               \A p \in PodId : Kept(p) \/ Moved(p) \/ Deleted(p) \/ Published(c, p)
        PROVE  AddressInv'
    BY <1>1, <1>2, AddressQuiet
  <1>3. ASSUME NEW c \in Call, NEW pc, calls' = [calls EXCEPT ![c].pc = pc],
               UNCHANGED <<ipamVars, pods>>,
               Holding(c), pc \in {"ipamUndo", "killDrain", "deactivate"},
               pc = "ipamUndo" => calls[c].pc = "ipAddrAdd"
        PROVE  AddressInv'
    <2>1. /\ calls'[c].pc = pc /\ calls'[c].snap = calls[c].snap /\ calls'[c].pod = calls[c].pod
          /\ \A d \in Call \ {c} : calls'[d] = calls[d]
      BY <1>0, <1>3 DEF CallRecord
    <2>2. Owns(c)
      BY DEF AddressInv
    <2>3. Owns(c)'
      BY <1>3, <2>1, <2>2 DEF Owns, Holding, CallName, ipamVars
    <2> QED BY <1>3, <2>1, <2>3, AddressQuiet DEF Kept
  <1>4. ASSUME NEW c \in Call, NEW pc \in PC, NEW p, NEW snap, UNCHANGED ipamVars,
               calls' = [calls EXCEPT ![c] = [pc |-> pc, pod |-> p, snap |-> snap]],
               pc \in {"ipamAdd", "awaitRoutes", "bind", "bindFailed", "stopTake"},
               \A q \in PodId : Kept(q) \/ Moved(q)
        PROVE  AddressInv'
    <2>1. calls'[c].pc = pc /\ \A d \in Call \ {c} : calls'[d] = calls[d]
      BY <1>0, <1>4
    <2>2. Owns(c)'
      BY <1>4, <2>1 DEF Owns, Holding
    <2> QED BY <1>4, <2>1, <2>2, AddressQuiet
  <1>5. ASSUME NEW c \in Call, NEW component \in Component, init_pod(c, component)
        PROVE  AddressInv'
    BY <1>4, <1>5 DEF init_pod, Enter, Kept, PC
  <1>6. ASSUME NEW c \in Call, address_add(c) PROVE AddressInv'
    <2>1. PICK a \in Address :
            /\ PluginADD(CallName(c), a)
            /\ calls' = [calls EXCEPT ![c].pc = "ipAddrAdd", ![c].snap.addr = a]
      BY <1>6 DEF address_add
    <2>2. calls[c].pc = "ipamAdd" /\ UNCHANGED <<active, pods>>
      BY <1>6 DEF address_add, poolVars
    <2>3. calls[c] \in CallRecord /\ calls[c].snap \in Pod
      BY <1>0 DEF CallRecord
    <2>4. /\ calls'[c].pc = "ipAddrAdd" /\ calls'[c].pod = calls[c].pod
          /\ calls'[c].snap = [calls[c].snap EXCEPT !.addr = a]
          /\ \A d \in Call \ {c} : calls'[d] = calls[d]
      BY <1>0, <2>1, <2>3 DEF CallRecord
    <2>5. calls'[c].snap.addr = a /\ CallName(c)' = CallName(c)
      BY <2>3, <2>4 DEF CallName, NameOf, Pod
    <2> QED BY <2>1, <2>2, <2>4, <2>5, AddressAdd
  <1>7. ASSUME NEW c \in Call, address_add_fails(c) PROVE AddressInv'
    BY <1>2, <1>7 DEF address_add_fails, Return, Kept, poolVars
  <1>8. ASSUME NEW c \in Call, address_add_unusable(c) PROVE AddressInv'
    BY <1>1, <1>8, AddressAdd DEF address_add_unusable, Return, poolVars
  <1>9. ASSUME NEW c \in Call, address_activate(c) PROVE AddressInv'
    <2>1. \A p \in PodId : Kept(p) \/ Inserted(c, p)
      BY <1>9 DEF address_activate, Kept, Inserted, PoolInv, TypeOK
    <2> QED BY <1>1, <1>9, <2>1, AddressUp DEF address_activate, ip_addr_add, Return
  <1>10. ASSUME NEW c \in Call, address_activate_fails(c) PROVE AddressInv'
    BY <1>3, <1>10 DEF address_activate_fails, Goto, Holding, poolVars
  <1>11. ASSUME NEW c \in Call, address_undo(c) PROVE AddressInv'
    <2>1. CASE PluginDEL(CallName(c))
      BY <1>1, <1>11, <2>1, AddressDel DEF address_undo, Return, poolVars
    <2>2. CASE UNCHANGED allocated
      BY <1>2, <1>11, <2>2 DEF address_undo, Return, Kept, poolVars, ipamVars
    <2> QED BY <1>11, <2>1, <2>2 DEF address_undo
  <1>12. ASSUME UNCHANGED calls, UNCHANGED ipamVars,
               \A p \in PodId : Kept(p) \/ Moved(p) \/ Deleted(p)
        PROVE  AddressInv'
    <2>1. PICK c : c \notin Call
      BY NoSetContainsEverything
    <2> QED BY <1>12, <2>1, AddressQuiet
  <1>13. ASSUME NEW p \in PodId, NEW config \in Config, NEW attempt \in 0 .. MaxAttempt,
               create_container(p, config, attempt)
        PROVE  AddressInv'
    <2>1. UNCHANGED calls /\ UNCHANGED ipamVars
      BY <1>13 DEF create_container, create_container_initial, create_container_again,
                   create_container_rejected, Answer
    <2> QED BY <1>12, <1>13, <2>1, PodEffects
  <1>14. ASSUME NEW c \in Call, NEW p \in PodId, start_container_without_wait(c, p),
               UNCHANGED ipamVars
        PROVE  AddressInv'
    <2>1. \A q \in PodId : Kept(q) \/ Moved(q)
      BY <1>14, PodEffects
    <2> QED BY <1>2, <1>4, <1>14, <2>1 DEF start_container_without_wait, Enter, Return, PC
  <1>15. ASSUME NEW c \in Call, NEW p \in PodId, start_container(c, p) PROVE AddressInv'
    BY <1>4, <1>14, <1>15 DEF start_container, Enter, Kept, PC
  <1>16. ASSUME NEW c \in Call, start_container_again(c) PROVE AddressInv'
    <2>1. calls[c].pod \in PodId
      BY <1>0 DEF CallRecord
    <2> QED BY <1>2, <1>14, <1>16, <2>1 DEF start_container_again, Return, Kept
  <1>17. ASSUME NEW c \in Call, start_container_await(c) \/ start_container_bind(c)
                                \/ start_container_bind_fails(c)
        PROVE  AddressInv'
    <2>1. /\ calls'[c].pc \in {"startAgain", "finalize", "bindFailed"}
          /\ \A d \in Call \ {c} : calls'[d] = calls[d]
      <3>1. calls[c] \in CallRecord /\ calls[c].snap \in Pod
        BY <1>0 DEF CallRecord
      <3>2. CASE start_container_await(c)
        BY <1>0, <3>1, <3>2 DEF start_container_await, CallRecord
      <3>3. CASE start_container_bind(c)
        <4>1. PICK s \in Server : calls' = [calls EXCEPT ![c].pc = "finalize",
                 ![c].snap.state = "Running", ![c].snap.killer = s]
          BY <3>3 DEF start_container_bind
        <4> QED BY <1>0, <3>1, <4>1 DEF CallRecord
      <3>4. CASE start_container_bind_fails(c)
        BY <1>0, <3>1, <3>4, EmptyRecords DEF start_container_bind_fails, CallRecord
      <3> QED BY <1>17, <3>2, <3>3, <3>4
    <2>2. UNCHANGED ipamVars /\ UNCHANGED pods
      BY <1>17 DEF start_container_await, start_container_bind, start_container_bind_fails,
                   poolVars
    <2>3. Owns(c)'
      BY <2>1 DEF Owns, Holding
    <2> QED BY <2>1, <2>2, <2>3, AddressQuiet DEF Kept
  <1>18. ASSUME NEW c \in Call, start_container_unlock(c) PROVE AddressInv'
    BY <1>2, <1>18, PodEffects DEF start_container_unlock, Return
  <1>19. ASSUME NEW c \in Call, start_container_finalize(c) PROVE AddressInv'
    BY <1>2, <1>19, PodEffects DEF start_container_finalize, Return
  <1>20. ASSUME NEW c \in Call, NEW p \in PodId, stop_container(c, p) PROVE AddressInv'
    <2>1. \A q \in PodId : Kept(q) \/ Moved(q)
      BY <1>20, PodEffects
    <2> QED BY <1>2, <1>4, <1>20, <2>1 DEF stop_container, Enter, Return, PC
  <1>21. ASSUME NEW c \in Call, stop_container_take(c) \/ stop_container_drain(c)
        PROVE  AddressInv'
    <2>1. /\ calls'[c].pc \in {"stopDrain", "idle"}
          /\ \A d \in Call \ {c} : calls'[d] = calls[d]
      BY <1>0, <1>21 DEF stop_container_take, stop_container_drain, Goto, Return, CallRecord, Idle
    <2>2. UNCHANGED ipamVars /\ UNCHANGED pods
      BY <1>21 DEF stop_container_take, stop_container_drain, poolVars
    <2>3. Owns(c)'
      BY <2>1 DEF Owns, Holding
    <2> QED BY <2>1, <2>2, <2>3, AddressQuiet DEF Kept
  <1>22. ASSUME NEW p \in PodId, remove_container(p) \/ delete_pod(p) PROVE AddressInv'
    <2>1. UNCHANGED calls /\ UNCHANGED ipamVars
      BY <1>22 DEF remove_container, delete_pod, Answer
    <2> QED BY <1>12, <1>22, <2>1, PodEffects
  <1>23. ASSUME NEW c \in Call, NEW p \in PodId, kill_pod(c, p) PROVE AddressInv'
    <2>1. UNCHANGED ipamVars /\ \A q \in PodId : Kept(q) \/ Moved(q)
      BY <1>23, PodEffects DEF kill_pod
    <2>2. CASE pods[p].state \notin {"Killed", "Absent"}
      <3> DEFINE snap == [NoPod EXCEPT !.killer = pods[p].killer, !.addr = pods[p].addr,
                                       !.component = pods[p].component]
      <3>1. /\ calls'[c].pc = "killTake" /\ calls'[c].pod = p /\ calls'[c].snap = snap
            /\ \A d \in Call \ {c} : calls'[d] = calls[d]
        BY <1>0, <1>23, <2>2 DEF kill_pod, Enter
      <3>2. snap.component = pods[p].component /\ snap.addr = pods[p].addr
        BY DEF NoPod
      <3>3. allocated[pods[p].addr] = NameOf(p, pods[p])
        BY <2>2 DEF AddressInv, LivePodOwnsAddress
      <3> HIDE DEF snap
      <3>4. Owns(c)'
        BY <2>1, <3>1, <3>2, <3>3 DEF Owns, CallName, NameOf, ipamVars
      <3> QED BY <2>1, <3>1, <3>4, AddressQuiet
    <2>3. CASE pods[p].state \in {"Killed", "Absent"}
      BY <1>2, <1>23, <2>1, <2>3 DEF kill_pod, Return
    <2> QED BY <2>2, <2>3
  <1>24. ASSUME NEW c \in Call, kill_pod_take(c) \/ kill_pod_drain(c) PROVE AddressInv'
    <2>1. Holding(c) /\ UNCHANGED <<ipamVars, pods>>
      BY <1>24 DEF kill_pod_take, kill_pod_drain, Holding, poolVars
    <2>2. \/ calls' = [calls EXCEPT ![c].pc = "killDrain"]
          \/ calls' = [calls EXCEPT ![c].pc = "deactivate"]
      BY <1>24 DEF kill_pod_take, kill_pod_drain, Goto
    <2> QED BY <1>3, <2>1, <2>2
  <1>25. ASSUME NEW c \in Call, kill_pod_deactivate(c) PROVE AddressInv'
    <2>1. CASE ip_addr_del(calls[c].snap.addr) /\ Goto(c, "deallocate")
      <3>1. /\ calls'[c].pc = "deallocate" /\ calls'[c].snap = calls[c].snap
            /\ calls'[c].pod = calls[c].pod /\ \A d \in Call \ {c} : calls'[d] = calls[d]
        BY <1>0, <2>1 DEF Goto, CallRecord
      <3> QED BY <1>25, <2>1, <3>1, AddressDown DEF kill_pod_deactivate, ip_addr_del, poolVars
    <2>2. CASE Return(c, "Err") /\ UNCHANGED active
      BY <1>2, <1>25, <2>2 DEF kill_pod_deactivate, Return, Kept, poolVars, ipamVars
    <2> QED BY <1>25, <2>1, <2>2 DEF kill_pod_deactivate
  <1>26. ASSUME NEW c \in Call, kill_pod_deallocate(c) PROVE AddressInv'
    <2>1. CASE PluginDEL(CallName(c))
      BY <1>1, <1>26, <2>1, AddressDel DEF kill_pod_deallocate, Return, poolVars
    <2>2. CASE UNCHANGED allocated
      BY <1>2, <1>26, <2>2 DEF kill_pod_deallocate, Return, Kept, poolVars, ipamVars
    <2> QED BY <1>26, <2>1, <2>2 DEF kill_pod_deallocate
  <1>27. ASSUME NEW c \in Call, cancel(c) PROVE AddressInv'
    <2>1. calls' = [calls EXCEPT ![c] = Idle] /\ UNCHANGED pods
      BY <1>27 DEF cancel, poolVars
    <2>2. CASE UNCHANGED ipamVars
      BY <1>2, <2>1, <2>2 DEF Kept
    <2>3. CASE /\ calls[c].pc = "ipamAdd"
               /\ \E b \in Address : PluginADD(CallName(c), b)
               /\ UNCHANGED active
      BY <1>1, <2>1, <2>3, AddressAdd
    <2>4. CASE calls[c].pc = "ipAddrAdd" /\ ip_addr_add(calls[c].snap.addr) /\ UNCHANGED allocated
      BY <1>1, <2>1, <2>4, AddressUp DEF ip_addr_add, Kept
    <2>5. CASE calls[c].pc = "deactivate" /\ ip_addr_del(calls[c].snap.addr) /\ UNCHANGED allocated
      BY <1>1, <2>1, <2>5, AddressDown DEF ip_addr_del
    <2>6. CASE /\ calls[c].pc \in {"ipamUndo", "deallocate"}
               /\ PluginDEL(CallName(c)) /\ UNCHANGED active
      BY <1>1, <2>1, <2>6, AddressDel
    <2> QED BY <1>27, <2>2, <2>3, <2>4, <2>5, <2>6 DEF cancel
  <1>28. CASE restart
    <2>1. /\ UNCHANGED ipamVars /\ \A p \in PodId : pods'[p] = NoPod
          /\ \A c \in Call : calls'[c] = Idle
      BY <1>28 DEF restart
    <2>2. OneEach' /\ ActiveIsAllocated'
      BY <2>1 DEF AddressInv, OneEach, ActiveIsAllocated, ipamVars
    <2>3. LivePodOwnsAddress'
      BY <2>1 DEF LivePodOwnsAddress, NoPod
    <2>4. \A c \in Call : Owns(c)'
      BY <2>1 DEF Owns, Holding, Idle
    <2> QED BY <2>2, <2>3, <2>4 DEF AddressInv
  <1>29. ASSUME NEW c \in Call, Step(c) PROVE AddressInv'
    BY <1>6, <1>7, <1>8, <1>9, <1>10, <1>11, <1>16, <1>17, <1>18, <1>19, <1>21, <1>24, <1>25,
       <1>26, <1>29 DEF Step
  <1>30. CASE Request
    BY <1>5, <1>13, <1>15, <1>20, <1>22, <1>23, <1>30 DEF Request
  <1>31. CASE \/ \E i \in Initialization : initialize_grpc(i)
              \/ \E s \in Server : ServerEnds(s) \/ AbortedServerEnds(s) \/ ServerShutsDown(s)
              \/ shutdown_signal
    BY <1>12, <1>31 DEF initialize_grpc, ServerEnds, AbortedServerEnds, ServerShutsDown,
                        shutdown_signal, poolVars, Kept
  <1> QED BY <1>27, <1>28, <1>29, <1>30, <1>31 DEF Next

(* The invariant of the addresses holds in every behaviour. *)
THEOREM AddressesCorrect == Spec => []AddressInv
  <1>1. Init => AddressInv
    BY DEF Init, IpamInit, AddressInv, OneEach, ActiveIsAllocated, LivePodOwnsAddress, Owns,
           Holding, NoPod, Idle
  <1>2. AddressInv /\ UNCHANGED vars => AddressInv'
    BY DEF AddressInv, OneEach, ActiveIsAllocated, LivePodOwnsAddress, Owns, Holding, CallName,
           vars
  <1> QED BY <1>1, <1>2, AddressStep, PoolCorrect, PTL DEF Spec

(* An address on the interface is allocated, under every set of faults:    *)
(* the orders of Ipam::address and kill_pod are right.                     *)
THEOREM ActiveAddresses == Spec => []ActiveIsAllocated
  BY AddressesCorrect, PTL DEF AddressInv

(* A pod that has not been killed keeps its address, under every set of    *)
(* faults: no DEL and no deactivation, of this or of an earlier process,   *)
(* reaches the address of another pod.                                     *)
THEOREM LiveAddresses == Spec => []LivePodOwnsAddress
  BY AddressesCorrect, PTL DEF AddressInv

(***************************************************************************)
(* No address is left behind, as long as the plugin and netlink do what    *)
(* they are asked and no handler and no process ends half way.  Failed     *)
(* activations, binds, initializations and servers are allowed.            *)
(***************************************************************************)
Faithful ==
  Faults \cap {"plugin", "decode", "deactivate", "cancel", "shutdown", "crash"} = {}

(* The handler has killed a pod and has yet to take its address off the    *)
(* interface.                                                              *)
Giving(c) == calls[c].pc \in {"killTake", "killDrain", "deactivate"}

(* A live pod has address a, or a handler will free it or put it to use.   *)
Attended(a) ==
  \/ \E p \in PodId : Live(p) /\ pods[p].addr = a
  \/ \E c \in Call : InCharge(c, a)

(* NoLeakedAddress is not inductive: kill_pod returns early and leaves the *)
(* address allocated if it does not find it on the interface, so it has to *)
(* be there until the handler has taken it off itself.                     *)
LeakInv ==
  /\ ~ stopping
  /\ \A a \in Address : allocated[a] # NoName => Attended(a)
  /\ \A c \in Call : Giving(c) => calls[c].snap.addr \in active

(* A step of call c that attends to what it had, to what it takes, and to  *)
(* the pod it kills keeps the invariant.                                   *)
LEMMA LeakFrame ==
  ASSUME LeakInv, NEW c, UNCHANGED stopping,
         \A d \in Call \ {c} : /\ calls'[d] = calls[d]
                               /\ Giving(d) => calls[d].snap.addr \in active',
         c \in Call => (Giving(c)' => calls'[c].snap.addr \in active'),
         \A p \in PodId, a \in Address : Live(p) /\ pods[p].addr = a =>
            \/ Live(p)' /\ pods'[p].addr = a
            \/ c \in Call /\ InCharge(c, a)',
         \A a \in Address : allocated'[a] # NoName =>
            \/ Attended(a)'
            \/ allocated[a] # NoName /\ ~ (c \in Call /\ InCharge(c, a))
  PROVE  LeakInv'
  <1>1. ASSUME NEW a \in Address, allocated'[a] # NoName PROVE Attended(a)'
    <2>1. CASE allocated[a] # NoName /\ ~ (c \in Call /\ InCharge(c, a))
      <3>1. CASE \E p \in PodId : Live(p) /\ pods[p].addr = a
        BY <3>1 DEF Attended
      <3>2. CASE \E d \in Call : InCharge(d, a)
        BY <2>1, <3>2 DEF Attended, InCharge
      <3> QED BY <2>1, <3>1, <3>2 DEF LeakInv, Attended
    <2> QED BY <1>1, <2>1
  <1>2. ASSUME NEW d \in Call, Giving(d)' PROVE calls'[d].snap.addr \in active'
    BY <1>2 DEF Giving
  <1> QED BY <1>1, <1>2 DEF LeakInv

(* So does a step that leaves both stores alone, of a handler that has no  *)
(* address.                                                                *)
LEMMA LeakQuiet ==
  ASSUME LeakInv, NEW c, UNCHANGED <<ipamVars, stopping>>,
         \A d \in Call \ {c} : calls'[d] = calls[d],
         c \in Call => ~ Holding(c) /\ ~ Holding(c)',
         \A p \in PodId : Live(p) => Live(p)' /\ pods'[p].addr = pods[p].addr
  PROVE  LeakInv'
  <1>1. \A a \in Address : ~ (c \in Call /\ InCharge(c, a))
    BY DEF InCharge, Holding
  <1>2. c \in Call => ~ Giving(c)'
    BY DEF Giving, Holding
  <1>3. \A d \in Call : Giving(d) => calls[d].snap.addr \in active
    BY DEF LeakInv
  <1> QED BY <1>1, <1>2, <1>3, LeakFrame DEF ipamVars

(* A handler that has an address goes on to its next step with it. *)
LEMMA LeakGoto ==
  ASSUME PoolInv, LeakInv, NEW c \in Call, NEW pc, UNCHANGED <<allocated, pods, stopping>>,
         calls' = [calls EXCEPT ![c].pc = pc], Holding(c),
         pc \in {"ipamUndo", "killDrain", "deactivate", "deallocate"},
         pc \in {"killDrain", "deactivate"} => Giving(c) /\ UNCHANGED active,
         \A d \in Call \ {c} : Giving(d) => calls[d].snap.addr \in active'
  PROVE  LeakInv'
  <1>1. calls[c] \in CallRecord /\ calls \in [Call -> CallRecord]
    BY DEF PoolInv, TypeOK
  <1>2. /\ calls'[c].pc = pc /\ calls'[c].snap = calls[c].snap
        /\ \A d \in Call \ {c} : calls'[d] = calls[d]
    BY <1>1 DEF CallRecord
  <1>3. \A a : InCharge(c, a) => InCharge(c, a)'
    BY <1>2 DEF InCharge
  <1>4. \A a \in Address : InCharge(c, a) => Attended(a)'
    BY <1>3 DEF Attended
  <1>5. Giving(c)' => calls'[c].snap.addr \in active'
    BY <1>2 DEF Giving, LeakInv
  <1>6. \A p \in PodId : Live(p) => Live(p)' /\ pods'[p].addr = pods[p].addr
    BY DEF Live
  <1> QED BY <1>2, <1>4, <1>5, <1>6, LeakFrame

(* DEL frees the one address of the handler, which then has none. *)
LEMMA LeakDel ==
  ASSUME PoolInv, AddressInv, LeakInv, NEW c \in Call,
         calls[c].pc \in {"ipamUndo", "deallocate"},
         PluginDEL(CallName(c)), UNCHANGED <<active, pods, stopping>>, calls'[c].pc = "idle",
         \A d \in Call \ {c} : calls'[d] = calls[d]
  PROVE  LeakInv'
  <1>1. \A a \in Address : allocated'[a] = IF allocated[a] = CallName(c) THEN NoName
                                                                       ELSE allocated[a]
    BY DEF PluginDEL
  <1>2. allocated[calls[c].snap.addr] = CallName(c)
    BY DEF AddressInv, Owns, Holding
  <1>3. \A a \in Address : allocated'[a] # NoName => allocated[a] # NoName /\ ~ InCharge(c, a)
    BY <1>1, <1>2 DEF InCharge
  <1>4. ~ Giving(c)'
    BY DEF Giving
  <1>5. \A p \in PodId : Live(p) => Live(p)' /\ pods'[p].addr = pods[p].addr
    BY DEF Live
  <1>6. \A d \in Call : Giving(d) => calls[d].snap.addr \in active
    BY DEF LeakInv
  <1> QED BY <1>3, <1>4, <1>5, <1>6, LeakFrame

(* Only kill_pod takes a pod out of service, and nothing moves a live pod  *)
(* to another address.                                                     *)
LEMMA LiveStay ==
  ASSUME PoolInv
  PROVE  /\ \A p \in PodId, config \in Config, attempt \in 0 .. MaxAttempt :
              create_container(p, config, attempt) =>
                \A q \in PodId : Live(q) => Live(q)' /\ pods'[q].addr = pods[q].addr
         /\ \A c \in Call, p \in PodId :
              start_container_without_wait(c, p) \/ stop_container(c, p) =>
                \A q \in PodId : Live(q) => Live(q)' /\ pods'[q].addr = pods[q].addr
         /\ \A p \in PodId : remove_container(p) \/ delete_pod(p) =>
                \A q \in PodId : Live(q) => Live(q)' /\ pods'[q].addr = pods[q].addr
         /\ \A c \in Call : start_container_unlock(c) \/ start_container_finalize(c) =>
                \A q \in PodId : Live(q) => Live(q)' /\ pods'[q].addr = pods[q].addr
  <1>0. pods \in [PodId -> Pod]
    BY DEF PoolInv, TypeOK
  <1>1. ASSUME NEW p \in PodId, NEW state \in {"Created", "Starting", "Stopped", "Removed"},
               pods' = [pods EXCEPT ![p].state = state], NEW q \in PodId, Live(q)
        PROVE  Live(q)' /\ pods'[q].addr = pods[q].addr
    BY <1>0, <1>1 DEF Live, Pod
  <1>2. ASSUME UNCHANGED pods, NEW q \in PodId, Live(q)
        PROVE  Live(q)' /\ pods'[q].addr = pods[q].addr
    BY <1>2 DEF Live
  <1>3. ASSUME NEW p \in PodId, NEW config \in Config, NEW attempt \in 0 .. MaxAttempt,
               create_container(p, config, attempt), NEW q \in PodId, Live(q)
        PROVE  Live(q)' /\ pods'[q].addr = pods[q].addr
    <2>1. CASE create_container_initial(p, config, attempt)
      BY <1>0, <1>3, <2>1 DEF create_container_initial, Live, Pod
    <2>2. CASE create_container_again(p, config, attempt)
      <3>1. ASSUME NEW i \in Initialization,
                   pods' = [pods EXCEPT ![p].state = "Created", ![p].routes = i,
                                        ![p].attempt = attempt]
            PROVE  Live(q)' /\ pods'[q].addr = pods[q].addr
        BY <1>0, <1>3, <3>1 DEF Live, Pod
      <3>2. ASSUME pods' = [pods EXCEPT ![p].state = "Created", ![p].attempt = attempt]
            PROVE  Live(q)' /\ pods'[q].addr = pods[q].addr
        BY <1>0, <1>3, <3>2 DEF Live, Pod
      <3> QED BY <2>2, <3>1, <3>2 DEF create_container_again
    <2>3. CASE create_container_rejected(p, config)
      BY <1>2, <1>3, <2>3 DEF create_container_rejected, poolVars
    <2> QED BY <1>3, <2>1, <2>2, <2>3 DEF create_container
  <1>4. ASSUME NEW c \in Call, NEW p \in PodId,
               start_container_without_wait(c, p) \/ stop_container(c, p), NEW q \in PodId, Live(q)
        PROVE  Live(q)' /\ pods'[q].addr = pods[q].addr
    BY <1>1, <1>2, <1>4 DEF start_container_without_wait, stop_container
  <1>5. ASSUME NEW p \in PodId, remove_container(p) \/ delete_pod(p), NEW q \in PodId, Live(q)
        PROVE  Live(q)' /\ pods'[q].addr = pods[q].addr
    <2>1. CASE remove_container(p)
      BY <1>1, <1>2, <1>5, <2>1 DEF remove_container
    <2>2. CASE delete_pod(p)
      BY <1>0, <1>5, <2>2 DEF delete_pod, Live
    <2> QED BY <1>5, <2>1, <2>2
  <1>6. ASSUME NEW c \in Call, start_container_unlock(c), NEW q \in PodId, Live(q)
        PROVE  Live(q)' /\ pods'[q].addr = pods[q].addr
    <2>1. calls[c].pod \in PodId
      BY DEF PoolInv, TypeOK, CallRecord
    <2> QED BY <1>1, <1>2, <1>6, <2>1 DEF start_container_unlock
  <1>7. ASSUME NEW c \in Call, start_container_finalize(c), NEW q \in PodId, Live(q)
        PROVE  Live(q)' /\ pods'[q].addr = pods[q].addr
    <2>1. Kept(q) \/ Published(c, q)
      BY <1>7, PodEffects
    <2>2. CASE Kept(q)
      BY <1>7, <2>2 DEF Kept, Live
    <2>3. CASE Published(c, q)
      BY <2>3 DEF Published, PoolInv, Slots, SlotOK, Live
    <2> QED BY <2>1, <2>2, <2>3
  <1> QED BY <1>3, <1>4, <1>5, <1>6, <1>7

(* Every step keeps the invariant. *)
LEMMA LeakStep ==
  ASSUME Faithful, PoolInv, AddressInv, LeakInv, Next
  PROVE  LeakInv'
  <1>0. calls \in [Call -> CallRecord] /\ pods \in [PodId -> Pod]
    BY DEF PoolInv, TypeOK
  <1>1. ASSUME NEW c \in Call, calls' = [calls EXCEPT ![c] = Idle]
        PROVE  /\ calls'[c].pc = "idle" /\ ~ Holding(c)' /\ ~ Giving(c)'
               /\ \A d \in Call \ {c} : calls'[d] = calls[d]
    BY <1>0, <1>1 DEF Idle, Holding, Giving
  <1>2. ASSUME UNCHANGED pods
        PROVE  \A p \in PodId : Live(p) => Live(p)' /\ pods'[p].addr = pods[p].addr
    BY <1>2 DEF Live
  <1>3. ASSUME NEW c \in Call, ~ Holding(c), UNCHANGED <<ipamVars, stopping>>,
               \/ calls' = [calls EXCEPT ![c] = Idle]
               \/ \E pc \in PC, p \in PodId : \E snap :
                    /\ calls' = [calls EXCEPT ![c] = [pc |-> pc, pod |-> p, snap |-> snap]]
                    /\ pc \in {"ipamAdd", "awaitRoutes", "bind", "bindFailed", "stopTake"},
               \A p \in PodId : Live(p) => Live(p)' /\ pods'[p].addr = pods[p].addr
        PROVE  LeakInv'
    <2>1. ~ Holding(c)' /\ \A d \in Call \ {c} : calls'[d] = calls[d]
      <3>1. CASE calls' = [calls EXCEPT ![c] = Idle]
        BY <1>1, <3>1
      <3>2. ASSUME NEW pc \in PC, NEW p \in PodId, NEW snap,
                   calls' = [calls EXCEPT ![c] = [pc |-> pc, pod |-> p, snap |-> snap]],
                   pc \in {"ipamAdd", "awaitRoutes", "bind", "bindFailed", "stopTake"}
            PROVE  ~ Holding(c)' /\ \A d \in Call \ {c} : calls'[d] = calls[d]
        BY <1>0, <3>2 DEF Holding
      <3> QED BY <1>3, <3>1, <3>2
    <2> QED BY <1>3, <2>1, LeakQuiet
  <1>4. ASSUME UNCHANGED <<calls, ipamVars, stopping>>,
               \A p \in PodId : Live(p) => Live(p)' /\ pods'[p].addr = pods[p].addr
        PROVE  LeakInv'
    <2>1. PICK c : c \notin Call
      BY NoSetContainsEverything
    <2> QED BY <1>4, <2>1, LeakQuiet
  <1>5. ASSUME NEW c \in Call, NEW component \in Component, init_pod(c, component)
        PROVE  LeakInv'
    <2>1. nextPodId \in PodId
      BY <1>5, MaxPodsAssumption DEF init_pod, PodId, PoolInv, TypeOK
    <2> QED BY <1>2, <1>3, <1>5, <2>1 DEF init_pod, Enter, Holding, PC, taskVars
  <1>6. ASSUME NEW c \in Call, address_add(c) PROVE LeakInv'
    <2>1. PICK a \in Address :
            /\ PluginADD(CallName(c), a)
            /\ calls' = [calls EXCEPT ![c].pc = "ipAddrAdd", ![c].snap.addr = a]
      BY <1>6 DEF address_add
    <2>2. calls[c].pc = "ipamAdd" /\ UNCHANGED <<active, pods, stopping>>
      BY <1>6 DEF address_add, poolVars, taskVars
    <2>3. calls[c] \in CallRecord /\ calls[c].snap \in Pod
      BY <1>0 DEF CallRecord
    <2>4. /\ calls'[c].pc = "ipAddrAdd"
          /\ calls'[c].snap = [calls[c].snap EXCEPT !.addr = a]
          /\ \A d \in Call \ {c} : calls'[d] = calls[d]
      BY <1>0, <2>1, <2>3 DEF CallRecord
    <2>5. calls'[c].snap.addr = a
      BY <2>3, <2>4 DEF Pod
    <2>6. InCharge(c, a)' /\ ~ Giving(c)'
      BY <2>4, <2>5 DEF InCharge, Giving
    <2>7. \A b \in Address : b # a => allocated'[b] = allocated[b]
      BY <2>1 DEF PluginADD, PoolInv, TypeOK, IpamTypeOK
    <2>8. \A b \in Address : allocated'[b] # NoName =>
            Attended(b)' \/ (allocated[b] # NoName /\ ~ InCharge(c, b))
      BY <2>2, <2>6, <2>7 DEF Attended, InCharge
    <2>9. \A d \in Call : Giving(d) => calls[d].snap.addr \in active
      BY DEF LeakInv
    <2>10. \A p \in PodId : Live(p) => Live(p)' /\ pods'[p].addr = pods[p].addr
      BY <1>2, <2>2
    <2> QED BY <2>2, <2>4, <2>6, <2>8, <2>9, <2>10, LeakFrame
  <1>7. ASSUME NEW c \in Call, address_add_fails(c) PROVE LeakInv'
    BY <1>2, <1>3, <1>7 DEF address_add_fails, Return, poolVars, taskVars, Holding
  <1>8. ASSUME NEW c \in Call PROVE ~ address_add_unusable(c)
    BY DEF address_add_unusable, Faithful
  <1>9. ASSUME NEW c \in Call, address_activate(c) PROVE LeakInv'
    <2> DEFINE a == calls[c].snap.addr
    <2>0. PICK p \in PodId : p = calls[c].pod
      BY <1>0 DEF CallRecord
    <2>1. calls[c].snap \in Pod /\ pods[p].state = "Absent"
      BY <1>0, <1>9, <2>0 DEF address_activate, CallRecord, PoolInv, Slots, SlotOK, Initializing
    <2>2. /\ pods' = [pods EXCEPT ![p] = [calls[c].snap EXCEPT !.state = "Initiated"]]
          /\ calls' = [calls EXCEPT ![c] = Idle] /\ calls[c].pc = "ipAddrAdd"
          /\ active' = active \cup {a} /\ UNCHANGED <<allocated, stopping>>
      BY <1>9, <2>0, <2>1 DEF address_activate, ip_addr_add, Return, taskVars
    <2>3. pods'[p].addr = a /\ Live(p)'
      <3>1. pods'[p] = [calls[c].snap EXCEPT !.state = "Initiated"]
        BY <1>0, <2>1, <2>2
      <3>2. pods'[p].state = "Initiated" /\ pods'[p].addr = a
        BY <2>1, <3>1 DEF Pod
      <3> QED BY <3>2 DEF Live
    <2>4. \A q \in PodId : Live(q) => Live(q)' /\ pods'[q].addr = pods[q].addr
      BY <1>0, <2>1, <2>2 DEF Live
    <2> HIDE DEF a
    <2>5. \A b \in Address : b = a => Attended(b)'
      BY <2>1, <2>3 DEF Attended
    <2>6. \A b \in Address : allocated'[b] # NoName =>
            Attended(b)' \/ (allocated[b] # NoName /\ ~ InCharge(c, b))
      BY <2>2, <2>5 DEF InCharge, a
    <2>7. \A d \in Call : Giving(d) => calls[d].snap.addr \in active'
      BY <2>2 DEF LeakInv
    <2> QED BY <1>1, <2>2, <2>4, <2>6, <2>7, LeakFrame
  <1>10. ASSUME NEW c \in Call, address_activate_fails(c) PROVE LeakInv'
    <2>1. \A d \in Call : Giving(d) => calls[d].snap.addr \in active
      BY DEF LeakInv
    <2> QED BY <1>10, <2>1, LeakGoto DEF address_activate_fails, Goto, Holding, poolVars,
                                        taskVars, ipamVars
  <1>11. ASSUME NEW c \in Call, address_undo(c) PROVE LeakInv'
    BY <1>1, <1>11, LeakDel DEF address_undo, Return, poolVars, taskVars, Faithful
  <1>12. ASSUME NEW p \in PodId, NEW config \in Config, NEW attempt \in 0 .. MaxAttempt,
               create_container(p, config, attempt)
        PROVE  LeakInv'
    <2>1. UNCHANGED <<calls, ipamVars, stopping>>
      BY <1>12 DEF create_container, create_container_initial, create_container_again,
                   create_container_rejected, Answer, taskVars
    <2> QED BY <1>4, <1>12, <2>1, LiveStay
  <1>13. ASSUME NEW c \in Call, NEW p \in PodId, ~ Holding(c), start_container_without_wait(c, p),
               UNCHANGED <<ipamVars, stopping>>
        PROVE  LeakInv'
    <2>1. \A q \in PodId : Live(q) => Live(q)' /\ pods'[q].addr = pods[q].addr
      BY <1>13, LiveStay
    <2> QED BY <1>3, <1>13, <2>1 DEF start_container_without_wait, Enter, Return, PC
  <1>14. ASSUME NEW c \in Call, NEW p \in PodId, start_container(c, p) PROVE LeakInv'
    <2>1. CASE start_container_without_wait(c, p)
      BY <1>13, <1>14, <2>1 DEF start_container, Holding, taskVars
    <2>2. CASE StillInitializing(p) /\ UNCHANGED pods
               /\ Enter(c, "awaitRoutes", p, [NoPod EXCEPT !.routes = pods[p].routes])
      BY <1>2, <1>3, <1>14, <2>2 DEF start_container, Enter, PC, Holding, taskVars
    <2> QED BY <1>14, <2>1, <2>2 DEF start_container
  <1>15. ASSUME NEW c \in Call, start_container_again(c) PROVE LeakInv'
    <2>1. calls[c].pod \in PodId
      BY <1>0 DEF CallRecord
    <2>2. ~ Holding(c) /\ UNCHANGED <<ipamVars, stopping>>
      BY <1>15 DEF start_container_again, Holding, taskVars
    <2>3. CASE start_container_without_wait(c, calls[c].pod)
      BY <1>13, <2>1, <2>2, <2>3
    <2>4. CASE Return(c, "Juggling") /\ UNCHANGED pods
      BY <1>2, <1>3, <2>2, <2>4 DEF Return
    <2> QED BY <1>15, <2>3, <2>4 DEF start_container_again
  <1>16. ASSUME NEW c \in Call, start_container_await(c) \/ start_container_bind(c)
                                \/ start_container_bind_fails(c)
        PROVE  LeakInv'
    <2>1. /\ calls'[c].pc \in {"startAgain", "finalize", "bindFailed"}
          /\ \A d \in Call \ {c} : calls'[d] = calls[d]
      <3>1. calls[c] \in CallRecord /\ calls[c].snap \in Pod
        BY <1>0 DEF CallRecord
      <3>2. CASE start_container_await(c)
        BY <1>0, <3>1, <3>2 DEF start_container_await, CallRecord
      <3>3. CASE start_container_bind(c)
        <4>1. PICK s \in Server : calls' = [calls EXCEPT ![c].pc = "finalize",
                 ![c].snap.state = "Running", ![c].snap.killer = s]
          BY <3>3 DEF start_container_bind
        <4> QED BY <1>0, <3>1, <4>1 DEF CallRecord
      <3>4. CASE start_container_bind_fails(c)
        BY <1>0, <3>1, <3>4, EmptyRecords DEF start_container_bind_fails, CallRecord
      <3> QED BY <1>16, <3>2, <3>3, <3>4
    <2>2. /\ UNCHANGED <<ipamVars, stopping>> /\ UNCHANGED pods
          /\ calls[c].pc \in {"awaitRoutes", "bind"}
      BY <1>16 DEF start_container_await, start_container_bind, start_container_bind_fails,
                   poolVars, taskVars
    <2>3. ~ Holding(c) /\ ~ Holding(c)'
      BY <2>1, <2>2 DEF Holding
    <2> QED BY <1>2, <2>1, <2>2, <2>3, LeakQuiet
  <1>17. ASSUME NEW c \in Call, start_container_unlock(c) \/ start_container_finalize(c)
        PROVE  LeakInv'
    <2>1. /\ ~ Holding(c) /\ UNCHANGED <<ipamVars, stopping>>
          /\ calls' = [calls EXCEPT ![c] = Idle]
      BY <1>17 DEF start_container_unlock, start_container_finalize, Return, Holding, taskVars
    <2> QED BY <1>3, <1>17, <2>1, LiveStay
  <1>18. ASSUME NEW c \in Call, NEW p \in PodId, stop_container(c, p) PROVE LeakInv'
    <2>1. \A q \in PodId : Live(q) => Live(q)' /\ pods'[q].addr = pods[q].addr
      BY <1>18, LiveStay
    <2> QED BY <1>3, <1>18, <2>1 DEF stop_container, Enter, Return, PC, Holding, taskVars
  <1>19. ASSUME NEW c \in Call, stop_container_take(c) \/ stop_container_drain(c)
        PROVE  LeakInv'
    <2>1. /\ calls'[c].pc \in {"stopDrain", "idle"}
          /\ \A d \in Call \ {c} : calls'[d] = calls[d]
      BY <1>0, <1>19 DEF stop_container_take, stop_container_drain, Goto, Return, CallRecord, Idle
    <2>2. /\ UNCHANGED <<ipamVars, stopping>> /\ UNCHANGED pods
          /\ calls[c].pc \in {"stopTake", "stopDrain"}
      BY <1>19 DEF stop_container_take, stop_container_drain, poolVars
    <2>3. ~ Holding(c) /\ ~ Holding(c)'
      BY <2>1, <2>2 DEF Holding
    <2> QED BY <1>2, <2>1, <2>2, <2>3, LeakQuiet
  <1>20. ASSUME NEW p \in PodId, remove_container(p) \/ delete_pod(p) PROVE LeakInv'
    <2>1. UNCHANGED <<calls, ipamVars, stopping>>
      BY <1>20 DEF remove_container, delete_pod, Answer, taskVars
    <2> QED BY <1>4, <1>20, <2>1, LiveStay
  <1>21. ASSUME NEW c \in Call, NEW p \in PodId, kill_pod(c, p) PROVE LeakInv'
    <2>1. UNCHANGED <<ipamVars, stopping>> /\ ~ Holding(c)
      BY <1>21 DEF kill_pod, Holding, taskVars
    <2>2. CASE pods[p].state \notin {"Killed", "Absent"}
      <3> DEFINE snap == [NoPod EXCEPT !.killer = pods[p].killer, !.addr = pods[p].addr,
                                       !.component = pods[p].component]
      <3>1. /\ calls'[c].pc = "killTake" /\ calls'[c].snap = snap
            /\ \A d \in Call \ {c} : calls'[d] = calls[d]
        BY <1>0, <1>21, <2>2 DEF kill_pod, Enter
      <3>2. snap.addr = pods[p].addr
        BY DEF NoPod
      <3> HIDE DEF snap
      <3>3. \A a \in Address : pods[p].addr = a => InCharge(c, a)'
        BY <3>1, <3>2 DEF InCharge
      <3>4. \A q \in PodId : q # p => pods'[q] = pods[q]
        BY <1>0, <1>21, <2>2 DEF kill_pod
      <3>5. \A q \in PodId, a \in Address : Live(q) /\ pods[q].addr = a =>
              (Live(q)' /\ pods'[q].addr = a) \/ InCharge(c, a)'
        BY <3>3, <3>4 DEF Live
      <3>6. calls'[c].snap.addr \in active'
        BY <2>1, <2>2, <3>1, <3>2 DEF AddressInv, LivePodOwnsAddress, ipamVars
      <3>7. \A d \in Call : Giving(d) => calls[d].snap.addr \in active'
        BY <2>1 DEF LeakInv, ipamVars
      <3>8. \A a \in Address : allocated'[a] # NoName => allocated[a] # NoName /\ ~ InCharge(c, a)
        BY <2>1 DEF InCharge, Holding, ipamVars
      <3> QED BY <2>1, <3>1, <3>5, <3>6, <3>7, <3>8, LeakFrame
    <2>3. CASE pods[p].state \in {"Killed", "Absent"}
      BY <1>2, <1>3, <1>21, <2>1, <2>3 DEF kill_pod, Return
    <2> QED BY <2>2, <2>3
  <1>22. ASSUME NEW c \in Call, kill_pod_take(c) \/ kill_pod_drain(c) PROVE LeakInv'
    <2>1. Holding(c) /\ Giving(c) /\ UNCHANGED <<allocated, pods, stopping>> /\ UNCHANGED active
      BY <1>22 DEF kill_pod_take, kill_pod_drain, Holding, Giving, poolVars, ipamVars
    <2>2. \/ calls' = [calls EXCEPT ![c].pc = "killDrain"]
          \/ calls' = [calls EXCEPT ![c].pc = "deactivate"]
      BY <1>22 DEF kill_pod_take, kill_pod_drain, Goto
    <2>3. \A d \in Call : Giving(d) => calls[d].snap.addr \in active'
      BY <2>1 DEF LeakInv
    <2> QED BY <2>1, <2>2, <2>3, LeakGoto
  <1>23. ASSUME NEW c \in Call, kill_pod_deactivate(c) PROVE LeakInv'
    <2>1. calls[c].pc = "deactivate" /\ calls[c].snap.addr \in active
      BY <1>23 DEF kill_pod_deactivate, LeakInv, Giving
    <2>2. /\ calls' = [calls EXCEPT ![c].pc = "deallocate"]
          /\ active' = active \ {calls[c].snap.addr}
          /\ UNCHANGED <<allocated, pods, stopping>>
      BY <1>23, <2>1 DEF kill_pod_deactivate, ip_addr_del, Goto, poolVars, taskVars, Faithful
    <2>3. Holding(c) /\ allocated[calls[c].snap.addr] = CallName(c)
      BY <2>1 DEF Holding, AddressInv, Owns
    <2>4. ASSUME NEW d \in Call \ {c}, Giving(d) PROVE calls[d].snap.addr \in active'
      <3>1. Holding(d) /\ calls[d].snap.addr \in active
        BY <2>4 DEF Holding, Giving, LeakInv
      <3>2. calls[d].snap.addr # calls[c].snap.addr
        BY <2>3, <3>1, NamesDiffer DEF AddressInv, Owns
      <3> QED BY <2>2, <3>1, <3>2
    <2> QED BY <2>2, <2>3, <2>4, LeakGoto
  <1>24. ASSUME NEW c \in Call, kill_pod_deallocate(c) PROVE LeakInv'
    BY <1>1, <1>24, LeakDel DEF kill_pod_deallocate, Return, poolVars, taskVars, Faithful
  <1>25. ASSUME NEW c \in Call, Step(c) PROVE LeakInv'
    BY <1>6, <1>7, <1>8, <1>9, <1>10, <1>11, <1>15, <1>16, <1>17, <1>19, <1>22, <1>23, <1>24,
       <1>25 DEF Step
  <1>26. CASE Request
    BY <1>5, <1>12, <1>14, <1>18, <1>20, <1>21, <1>26 DEF Request
  <1>27. CASE \/ \E i \in Initialization : initialize_grpc(i)
              \/ \E s \in Server : ServerEnds(s) \/ AbortedServerEnds(s) \/ ServerShutsDown(s)
    BY <1>2, <1>4, <1>27 DEF initialize_grpc, ServerEnds, AbortedServerEnds, ServerShutsDown,
                             poolVars
  <1>28. ~ restart /\ ~ shutdown_signal /\ \A c \in Call : ~ cancel(c)
    BY DEF restart, shutdown_signal, cancel, Faithful, LeakInv
  <1> QED BY <1>25, <1>26, <1>27, <1>28 DEF Next

(* As long as the plugin and netlink do what they are asked and nothing    *)
(* ends half way, every allocated address belongs to a pod in service or   *)
(* is in the hands of a handler that will free it or put it to use.        *)
THEOREM NoLeaks ==
  ASSUME Faithful
  PROVE  Spec => []NoLeakedAddress
  <1>1. Init => LeakInv
    BY DEF Init, IpamInit, LeakInv, Giving, Idle
  <1>2. LeakInv /\ UNCHANGED vars => LeakInv'
    BY DEF LeakInv, Attended, InCharge, Live, Giving, vars, ipamVars, poolVars, taskVars
  <1>3. LeakInv => NoLeakedAddress
    BY DEF LeakInv, NoLeakedAddress, Attended, Live
  <1>4. PoolInv /\ AddressInv /\ LeakInv /\ [Next]_vars => LeakInv'
    BY <1>2, LeakStep
  <1> QED BY <1>1, <1>3, <1>4, AddressesCorrect, PoolCorrect, PTL DEF Spec

=============================================================================

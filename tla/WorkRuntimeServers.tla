------------------------- MODULE WorkRuntimeServers -------------------------
(***************************************************************************)
(* Servers and their killers: a Running pod can be killed, and no server   *)
(* is left without a reachable killer.                                     *)
(***************************************************************************)
EXTENDS WorkRuntimePool

(* The killer of s still works, and s serves on address a until it ends.   *)
Killable(s, a) ==
  /\ s # None
  /\ servers[s].armed
  /\ \/ servers[s].phase = "up" /\ servers[s].addr = a
     \/ servers[s].phase = "draining" /\ stopping
     \/ servers[s].phase = "down" /\ (stopping \/ "serve" \in Faults)

(* The killer that a handler is about to publish is known to it alone, and *)
(* the killer of a Running pod to the pool alone.                          *)
KillerInv ==
  /\ \A c \in Call : calls[c].pc = "finalize" =>
       /\ Killable(calls[c].snap.killer, calls[c].snap.addr)
       /\ \A p \in PodId : pods[p].killer # calls[c].snap.killer
       /\ \A d \in Call \ {c} : calls[d].snap.killer # calls[c].snap.killer
  /\ \A p \in PodId : pods[p].state = "Running" =>
       /\ Killable(pods[p].killer, pods[p].addr)
       /\ \A q \in PodId \ {p} : pods[q].killer # pods[p].killer
       /\ \A c \in Call : calls[c].snap.killer # pods[p].killer

(* How call c may come by the killer in its slot without starting a server:*)
(* from its own slot, or from a pod that is no longer Running.             *)
Copied(c) ==
  /\ calls'[c].pc # "finalize"
  /\ \/ calls'[c].snap.killer = None
     \/ /\ calls[c].pc # "finalize"
        /\ \/ calls'[c].snap.killer = calls[c].snap.killer
           \/ \E p \in PodId : /\ calls'[c].snap.killer = pods[p].killer
                               /\ pods'[p].state # "Running"

(* A step of call c harms no killer but one it is not about to publish. *)
Harmless(c) ==
  \A s \in Server, a \in Address \cup {None} :
    (Killable(s, a) /\ Held(s)) =>
      \/ Killable(s, a)'
      \/ /\ c \in Call /\ calls[c].snap.killer = s
         /\ \A p \in PodId : ~ Published(c, p)

(* Such a step keeps the invariant. *)
LEMMA KillerFrame ==
  ASSUME PoolInv, KillerInv, NEW c, \A d \in Call \ {c} : calls'[d] = calls[d],
         c \in Call => Copied(c), Harmless(c),
         \A p \in PodId : Kept(p) \/ Moved(p) \/ Deleted(p) \/ Inserted(c, p) \/ Published(c, p)
  PROVE  KillerInv'
  <1>1. /\ \A p \in PodId : pods[p].killer \in Server \cup {None}
                            /\ pods[p].addr \in Address \cup {None}
        /\ \A d \in Call : calls[d].snap.killer \in Server \cup {None}
                           /\ calls[d].snap.addr \in Address \cup {None}
                           /\ calls[d].snap \in Pod
    BY DEF PoolInv, TypeOK, CallRecord, Pod
  <1>2. ASSUME NEW p \in PodId
        PROVE  /\ \/ pods'[p].killer \in {None, pods[p].killer}
                  \/ Published(c, p) /\ pods'[p].killer = calls[c].snap.killer
               /\ pods'[p].state = "Running" => Kept(p) \/ Published(c, p)
    <2>1. CASE Inserted(c, p)
      BY <1>1, <2>1 DEF Inserted, Pod, PoolInv, Slots, SlotOK, Initializing
    <2> QED BY <2>1 DEF Kept, Moved, Deleted, Published, NoPod
  <1>3. ASSUME NEW d \in Call, calls'[d].pc = "finalize",
               NEW s, NEW a, s = calls'[d].snap.killer, a = calls'[d].snap.addr
        PROVE  /\ Killable(s, a)'
               /\ \A p \in PodId : pods'[p].killer # s
               /\ \A e \in Call \ {d} : calls'[e].snap.killer # s
    <2>1. d # c /\ calls'[d] = calls[d]
      BY <1>3 DEF Copied
    <2>2. /\ Killable(s, a)
          /\ \A p \in PodId : pods[p].killer # s
          /\ \A e \in Call \ {d} : calls[e].snap.killer # s
      BY <1>3, <2>1 DEF KillerInv
    <2>3. s \in Server /\ Held(s) /\ a \in Address \cup {None} /\ s # None
      BY <1>1, <1>3, <2>1, <2>2 DEF Killable, Held
    <2>4. Killable(s, a)'
      BY <2>1, <2>2, <2>3 DEF Harmless
    <2>5. \A p \in PodId : pods'[p].killer # s
      BY <1>2, <2>1, <2>2, <2>3 DEF Published
    <2>6. c \in Call => calls'[c].snap.killer # s
      BY <2>1, <2>2, <2>3 DEF Copied
    <2> QED BY <2>1, <2>2, <2>4, <2>5, <2>6
  <1>4. ASSUME NEW p \in PodId, pods'[p].state = "Running", Kept(p),
               NEW s, NEW a, s = pods[p].killer, a = pods[p].addr
        PROVE  /\ Killable(s, a)'
               /\ \A q \in PodId \ {p} : pods'[q].killer # s
               /\ \A d \in Call : calls'[d].snap.killer # s
    <2>1. /\ Killable(s, a)
          /\ \A q \in PodId \ {p} : pods[q].killer # s
          /\ \A d \in Call : calls[d].snap.killer # s
      BY <1>4 DEF KillerInv, Kept
    <2>2. s \in Server /\ Held(s) /\ a \in Address \cup {None} /\ s # None
      BY <1>1, <1>4, <2>1 DEF Killable, Held
    <2>3. Killable(s, a)'
      BY <2>1, <2>2 DEF Harmless
    <2>4. \A q \in PodId \ {p} : pods'[q].killer # s
      BY <1>2, <2>1, <2>2 DEF Published
    <2>5. c \in Call => calls'[c].snap.killer # s
      BY <1>4, <2>1, <2>2 DEF Copied
    <2> QED BY <2>1, <2>3, <2>4, <2>5
  <1>5. ASSUME NEW p \in PodId, Published(c, p),
               NEW s, NEW a, s = calls[c].snap.killer, a = calls[c].snap.addr
        PROVE  /\ Killable(s, a)'
               /\ \A q \in PodId \ {p} : pods'[q].killer # s
               /\ \A d \in Call : calls'[d].snap.killer # s
    <2>1. /\ c \in Call /\ calls[c].pc = "finalize" /\ Killable(s, a)
          /\ \A q \in PodId : pods[q].killer # s
          /\ \A d \in Call \ {c} : calls[d].snap.killer # s
      BY <1>5 DEF Published, KillerInv
    <2>2. s \in Server /\ Held(s) /\ a \in Address \cup {None} /\ s # None
      BY <1>1, <1>5, <2>1 DEF Killable, Held
    <2>3. Killable(s, a)'
      BY <1>5, <2>1, <2>2 DEF Harmless
    <2>4. \A q \in PodId \ {p} : pods'[q].killer # s
      BY <1>2, <1>5, <2>1, <2>2 DEF Published
    <2>5. calls'[c].snap.killer = None
      BY <2>1 DEF Copied
    <2> QED BY <2>1, <2>2, <2>3, <2>4, <2>5
  <1>6. ASSUME NEW p \in PodId, pods'[p].state = "Running",
               NEW s, NEW a, s = pods'[p].killer, a = pods'[p].addr
        PROVE  /\ Killable(s, a)'
               /\ \A q \in PodId \ {p} : pods'[q].killer # s
               /\ \A d \in Call : calls'[d].snap.killer # s
    <2>1. CASE Kept(p)
      BY <1>4, <1>6, <2>1 DEF Kept
    <2>2. CASE Published(c, p)
      BY <1>5, <1>6, <2>2 DEF Published
    <2> QED BY <1>2, <1>6, <2>1, <2>2
  <1> QED BY <1>3, <1>6 DEF KillerInv

(* The server that StartContainer starts has a new killer. *)
LEMMA KillerBind ==
  ASSUME PoolInv, KillerInv, NEW c \in Call, start_container_bind(c)
  PROVE  KillerInv'
  <1>1. PICK s \in Server :
          /\ FreshServer(s)
          /\ servers' = [servers EXCEPT ![s] = [phase |-> "up", addr |-> calls[c].snap.addr,
                                                pod |-> calls[c].pod, armed |-> TRUE]]
          /\ calls' = [calls EXCEPT ![c].pc = "finalize", ![c].snap.state = "Running",
                                    ![c].snap.killer = s]
    BY DEF start_container_bind
  <1>2. UNCHANGED pods /\ UNCHANGED stopping /\ calls[c].pc = "bind"
    BY DEF start_container_bind, poolVars
  <1>3. calls[c] \in CallRecord /\ calls[c].snap \in Pod
    BY DEF PoolInv, TypeOK, CallRecord
  <1>4. /\ calls'[c].snap = [calls[c].snap EXCEPT !.state = "Running",
                                                  !.killer = s]
        /\ \A d \in Call \ {c} : calls'[d] = calls[d]
    BY <1>1, <1>3 DEF PoolInv, TypeOK, CallRecord
  <1>5. calls'[c].snap.killer = s /\ calls'[c].snap.addr = calls[c].snap.addr
    BY <1>3, <1>4 DEF Pod
  <1>6. /\ servers'[s].armed /\ servers'[s].phase = "up" /\ servers'[s].addr = calls[c].snap.addr
        /\ \A t \in Server \ {s} : servers'[t] = servers[t]
    BY <1>1 DEF PoolInv, TypeOK
  <1>7. /\ \A p \in PodId : pods[p].killer # s
        /\ \A d \in Call : calls[d].snap.killer # s
    BY <1>1 DEF FreshServer
  <1>8. ASSUME NEW t \in Server \ {s}, NEW a, Killable(t, a) PROVE Killable(t, a)'
    BY <1>2, <1>6, <1>8 DEF Killable
  <1>9. ASSUME NEW a, a = calls'[c].snap.addr PROVE Killable(s, a)'
    BY <1>5, <1>6, <1>9, NoneAssumption DEF Killable
  <1>10. ASSUME NEW d \in Call \ {c}, calls'[d].pc = "finalize",
                NEW t, NEW a, t = calls'[d].snap.killer, a = calls'[d].snap.addr
         PROVE  /\ Killable(t, a)'
                /\ \A p \in PodId : pods'[p].killer # t
                /\ \A e \in Call \ {d} : calls'[e].snap.killer # t
    <2>1. t \in Server \ {s}
      BY <1>4, <1>7, <1>10 DEF PoolInv, Slots, SlotOK
    <2>2. /\ Killable(t, a)
          /\ \A p \in PodId : pods[p].killer # t
          /\ \A e \in Call \ {d} : calls[e].snap.killer # t
      BY <1>4, <1>10 DEF KillerInv
    <2> QED BY <1>2, <1>4, <1>5, <1>8, <2>1, <2>2
  <1>11. ASSUME NEW p \in PodId, pods'[p].state = "Running",
                NEW t, NEW a, t = pods'[p].killer, a = pods'[p].addr
         PROVE  /\ Killable(t, a)'
                /\ \A q \in PodId \ {p} : pods'[q].killer # t
                /\ \A d \in Call : calls'[d].snap.killer # t
    <2>1. /\ Killable(t, a)
          /\ \A q \in PodId \ {p} : pods[q].killer # t
          /\ \A d \in Call : calls[d].snap.killer # t
      BY <1>2, <1>11 DEF KillerInv
    <2>2. t \in Server \ {s}
      BY <1>2, <1>7, <1>11, <2>1 DEF Killable, PoolInv, TypeOK, Pod
    <2> QED BY <1>2, <1>4, <1>5, <1>8, <2>1, <2>2
  <1>12. /\ \A p \in PodId : pods'[p].killer # calls'[c].snap.killer
         /\ \A e \in Call \ {c} : calls'[e].snap.killer # calls'[c].snap.killer
    BY <1>2, <1>4, <1>5, <1>7
  <1> QED BY <1>5, <1>9, <1>10, <1>11, <1>12 DEF KillerInv

(* Every step keeps the invariant of the killers. *)
LEMMA KillerStep ==
  ASSUME PoolInv, KillerInv, Next
  PROVE  KillerInv'
  <1>0. calls \in [Call -> CallRecord] /\ servers \in [Server -> ServerRecord]
    BY DEF PoolInv, TypeOK
  <1>1. ASSUME UNCHANGED <<servers, stopping>>, NEW c PROVE Harmless(c)
    BY <1>1 DEF Harmless, Killable
  <1>2. ASSUME NEW c \in Call, UNCHANGED stopping, UNCHANGED pods,
               \A s \in Server : calls[c].snap.killer # s => servers'[s] = servers[s],
               calls[c].pc # "finalize" \/ \A p \in PodId : ~ Published(c, p)
        PROVE  Harmless(c)
    BY <1>2 DEF Harmless, Killable, Published
  <1>3. ASSUME NEW c \in Call, calls' = [calls EXCEPT ![c] = Idle]
        PROVE  Copied(c) /\ \A d \in Call \ {c} : calls'[d] = calls[d]
    BY <1>0, <1>3 DEF Copied, Idle, NoPod
  <1>4. ASSUME NEW c \in Call, NEW pc, calls' = [calls EXCEPT ![c].pc = pc],
               pc # "finalize", calls[c].pc # "finalize"
        PROVE  Copied(c) /\ \A d \in Call \ {c} : calls'[d] = calls[d]
    BY <1>0, <1>4 DEF Copied, CallRecord
  <1>5. ASSUME NEW c \in Call, NEW component \in Component, init_pod(c, component)
        PROVE  KillerInv'
    <2>1. /\ calls'[c] = [pc |-> "ipamAdd", pod |-> nextPodId,
                          snap |-> [NoPod EXCEPT !.component = component]]
          /\ \A d \in Call \ {c} : calls'[d] = calls[d]
      BY <1>0, <1>5 DEF init_pod, Enter
    <2>2. Copied(c)
      BY <2>1 DEF Copied, NoPod
    <2> QED BY <1>1, <1>5, <2>1, <2>2, KillerFrame DEF init_pod, taskVars, Kept
  <1>6. ASSUME NEW c \in Call, address_add(c) PROVE KillerInv'
    <2>1. PICK a \in Address : calls' = [calls EXCEPT ![c].pc = "ipAddrAdd", ![c].snap.addr = a]
      BY <1>6 DEF address_add
    <2>2. calls[c] \in CallRecord /\ calls[c].snap \in Pod /\ calls[c].pc = "ipamAdd"
      BY <1>0, <1>6 DEF CallRecord, address_add
    <2>3. /\ calls'[c].pc = "ipAddrAdd" /\ calls'[c].snap = [calls[c].snap EXCEPT !.addr = a]
          /\ \A d \in Call \ {c} : calls'[d] = calls[d]
      BY <1>0, <2>1, <2>2 DEF CallRecord
    <2>4. Copied(c)
      BY <2>2, <2>3 DEF Copied, Pod
    <2> QED BY <1>1, <1>6, <2>3, <2>4, KillerFrame DEF address_add, taskVars, poolVars, Kept
  <1>7. ASSUME NEW c \in Call,
               address_add_fails(c) \/ address_add_unusable(c) \/ address_undo(c)
               \/ kill_pod_deallocate(c) \/ cancel(c)
        PROVE  KillerInv'
    <2>1. /\ calls' = [calls EXCEPT ![c] = Idle]
          /\ UNCHANGED <<pods, servers, stopping>>
      BY <1>7 DEF address_add_fails, address_add_unusable, address_undo, kill_pod_deallocate,
                  cancel, Return, poolVars, taskVars
    <2> QED BY <1>1, <1>3, <2>1, KillerFrame DEF Kept
  <1>8. ASSUME NEW c \in Call, address_activate(c) PROVE KillerInv'
    <2>1. \A p \in PodId : Kept(p) \/ Inserted(c, p)
      BY <1>8 DEF address_activate, Kept, Inserted, PoolInv, TypeOK
    <2> QED BY <1>1, <1>3, <1>8, <2>1, KillerFrame DEF address_activate, Return, taskVars
  <1>9. ASSUME NEW c \in Call, address_activate_fails(c) PROVE KillerInv'
    BY <1>1, <1>4, <1>9, KillerFrame DEF address_activate_fails, Goto, taskVars, poolVars, Kept
  <1>10. ASSUME UNCHANGED <<calls, servers, stopping>>,
               \A p \in PodId : Kept(p) \/ Moved(p) \/ Deleted(p)
        PROVE  KillerInv'
    <2>1. PICK c : c \notin Call
      BY NoSetContainsEverything
    <2> QED BY <1>1, <1>10, <2>1, KillerFrame
  <1>11. ASSUME NEW p \in PodId, NEW config \in Config, NEW attempt \in 0 .. MaxAttempt,
               create_container(p, config, attempt)
        PROVE  KillerInv'
    <2>1. UNCHANGED <<calls, servers, stopping>>
      BY <1>11 DEF create_container, create_container_initial, create_container_again,
                   create_container_rejected, Answer, taskVars
    <2> QED BY <1>10, <1>11, <2>1, PodEffects
  <1>12. ASSUME NEW c \in Call, NEW p \in PodId, NEW pc, NEW snap,
               Enter(c, pc, p, snap), pc # "finalize", calls[c].pc # "finalize",
               \/ snap.killer = None
               \/ snap.killer = pods[p].killer /\ pods'[p].state # "Running"
        PROVE  Copied(c) /\ \A d \in Call \ {c} : calls'[d] = calls[d]
    BY <1>0, <1>12 DEF Enter, Copied
  <1>13. ASSUME NEW c \in Call, NEW p \in PodId, start_container_without_wait(c, p),
               calls[c].pc # "finalize", UNCHANGED taskVars
        PROVE  KillerInv'
    <2>1. \A q \in PodId : Kept(q) \/ Moved(q)
      BY <1>13, PodEffects
    <2>2. CASE /\ pods' = [pods EXCEPT ![p].state = "Starting"]
               /\ Enter(c, "bind", p, [pods[p] EXCEPT !.state = "Starting"])
      <3> DEFINE snap == [pods[p] EXCEPT !.state = "Starting"]
      <3>1. pods \in [PodId -> Pod]
        BY DEF PoolInv, TypeOK
      <3>2. snap.killer = pods[p].killer /\ pods'[p].state # "Running"
        BY <2>2, <3>1 DEF Pod
      <3>3. Enter(c, "bind", p, snap)
        BY <2>2
      <3> HIDE DEF snap
      <3> QED BY <1>1, <1>12, <1>13, <2>1, <3>2, <3>3, KillerFrame DEF taskVars
    <2>3. CASE calls' = [calls EXCEPT ![c] = Idle]
      BY <1>1, <1>3, <1>13, <2>1, <2>3, KillerFrame DEF taskVars
    <2> QED BY <1>13, <2>2, <2>3 DEF start_container_without_wait, Return
  <1>14. ASSUME NEW c \in Call, NEW p \in PodId, start_container(c, p) PROVE KillerInv'
    <2>1. CASE /\ Enter(c, "awaitRoutes", p, [NoPod EXCEPT !.routes = pods[p].routes])
               /\ UNCHANGED pods
      <3> DEFINE snap == [NoPod EXCEPT !.routes = pods[p].routes]
      <3>1. snap.killer = None /\ Enter(c, "awaitRoutes", p, snap)
        BY <2>1 DEF NoPod
      <3> HIDE DEF snap
      <3> QED BY <1>1, <1>12, <1>14, <2>1, <3>1, KillerFrame DEF start_container, taskVars, Kept
    <2> QED BY <1>13, <1>14, <2>1 DEF start_container
  <1>15. ASSUME NEW c \in Call, start_container_await(c) PROVE KillerInv'
    <2>1. calls'[c].pc = "startAgain" /\ calls'[c].snap = NoPod
          /\ \A d \in Call \ {c} : calls'[d] = calls[d]
      BY <1>0, <1>15 DEF start_container_await, CallRecord
    <2>2. Copied(c)
      BY <2>1 DEF Copied, NoPod
    <2> QED BY <1>1, <1>15, <2>1, <2>2, KillerFrame DEF start_container_await, poolVars, Kept
  <1>16. ASSUME NEW c \in Call, start_container_again(c) PROVE KillerInv'
    <2>1. calls[c].pod \in PodId
      BY <1>0 DEF CallRecord
    <2>2. CASE Return(c, "Juggling") /\ UNCHANGED pods
      BY <1>1, <1>3, <1>16, <2>2, KillerFrame DEF start_container_again, Return, taskVars, Kept
    <2> QED BY <1>13, <1>16, <2>1, <2>2 DEF start_container_again
  <1>17. ASSUME NEW c \in Call, start_container_bind_fails(c) PROVE KillerInv'
    <2>1. calls'[c] = [Idle EXCEPT !.pc = "bindFailed", !.pod = calls[c].pod]
          /\ \A d \in Call \ {c} : calls'[d] = calls[d]
      BY <1>0, <1>17 DEF start_container_bind_fails
    <2>2. Copied(c)
      BY <2>1 DEF Copied, Idle, NoPod
    <2> QED BY <1>1, <1>17, <2>1, <2>2, KillerFrame
            DEF start_container_bind_fails, poolVars, taskVars, Kept
  <1>18. ASSUME NEW c \in Call, start_container_unlock(c) PROVE KillerInv'
    BY <1>1, <1>3, <1>18, PodEffects, KillerFrame DEF start_container_unlock, Return, taskVars
  <1>19. ASSUME NEW c \in Call, start_container_finalize(c) PROVE KillerInv'
    <2>1. \A q \in PodId : Kept(q) \/ Published(c, q)
      BY <1>19, PodEffects
    <2>2. Harmless(c)
      <3>1. CASE UNCHANGED servers
        BY <1>1, <1>19, <3>1 DEF start_container_finalize
      <3>2. CASE pods[calls[c].pod].state # "Starting"
        <4>1. \A p \in PodId : ~ Published(c, p)
          BY <3>2 DEF Published
        <4>2. \A s \in Server : calls[c].snap.killer # s => servers'[s] = servers[s]
          BY <1>0, <1>19, <3>2 DEF start_container_finalize
        <4> QED BY <1>2, <1>19, <3>2, <4>1, <4>2 DEF start_container_finalize
      <3> QED BY <1>19, <3>1, <3>2 DEF start_container_finalize
    <2>3. calls' = [calls EXCEPT ![c] = Idle]
      BY <1>19 DEF start_container_finalize, Return
    <2> QED BY <1>3, <2>1, <2>2, <2>3, KillerFrame
  <1>20. ASSUME NEW c \in Call, NEW p \in PodId, stop_container(c, p) PROVE KillerInv'
    <2>1. UNCHANGED <<servers, stopping>> /\ \A q \in PodId : Kept(q) \/ Moved(q)
      BY <1>20, PodEffects DEF stop_container, taskVars
    <2>2. CASE pods[p].state = "Running"
      <3> DEFINE snap == [NoPod EXCEPT !.killer = pods[p].killer]
      <3>1. snap.killer = pods[p].killer /\ Enter(c, "stopTake", p, snap)
        BY <1>20, <2>2 DEF stop_container, NoPod
      <3>2. pods'[p].state # "Running"
        BY <1>20, <2>2 DEF stop_container, PoolInv, TypeOK, Pod
      <3> HIDE DEF snap
      <3> QED BY <1>1, <1>12, <1>20, <2>1, <3>1, <3>2, KillerFrame DEF stop_container
    <2>3. CASE pods[p].state # "Running"
      <3>1. calls' = [calls EXCEPT ![c] = Idle]
        BY <1>20, <2>3 DEF stop_container, Return
      <3> QED BY <1>1, <1>3, <2>1, <3>1, KillerFrame
    <2> QED BY <2>2, <2>3
  <1>21. ASSUME NEW p \in PodId, remove_container(p) \/ delete_pod(p) PROVE KillerInv'
    <2>1. UNCHANGED <<calls, servers, stopping>>
      BY <1>21 DEF remove_container, delete_pod, Answer, taskVars
    <2> QED BY <1>10, <1>21, <2>1, PodEffects
  <1>22. ASSUME NEW c \in Call, NEW p \in PodId, kill_pod(c, p) PROVE KillerInv'
    <2>1. UNCHANGED <<servers, stopping>> /\ \A q \in PodId : Kept(q) \/ Moved(q)
      BY <1>22, PodEffects DEF kill_pod, taskVars
    <2>2. CASE pods[p].state \notin {"Killed", "Absent"}
      <3> DEFINE snap == [NoPod EXCEPT !.killer = pods[p].killer, !.addr = pods[p].addr,
                                       !.component = pods[p].component]
      <3>1. snap.killer = pods[p].killer /\ Enter(c, "killTake", p, snap)
        BY <1>22, <2>2 DEF kill_pod, NoPod
      <3>2. pods'[p].state # "Running"
        BY <1>22, <2>2 DEF kill_pod, PoolInv, TypeOK, Pod
      <3> HIDE DEF snap
      <3> QED BY <1>1, <1>12, <1>22, <2>1, <3>1, <3>2, KillerFrame DEF kill_pod
    <2>3. CASE pods[p].state \in {"Killed", "Absent"}
      <3>1. calls' = [calls EXCEPT ![c] = Idle]
        BY <1>22, <2>3 DEF kill_pod, Return
      <3> QED BY <1>1, <1>3, <2>1, <3>1, KillerFrame
    <2> QED BY <2>2, <2>3
  <1>23. ASSUME NEW c \in Call, \/ stop_container_take(c) \/ stop_container_drain(c)
                                \/ kill_pod_take(c) \/ kill_pod_drain(c)
                                \/ kill_pod_deactivate(c)
        PROVE  KillerInv'
    <2>1. /\ UNCHANGED <<pods, stopping>>
          /\ calls[c].pc \in {"stopTake", "stopDrain", "killTake", "killDrain", "deactivate"}
      BY <1>23 DEF stop_container_take, stop_container_drain, kill_pod_take, kill_pod_drain,
                   kill_pod_deactivate, poolVars, taskVars
    <2>2. \/ calls' = [calls EXCEPT ![c] = Idle]
          \/ \E pc \in {"stopDrain", "killDrain", "deactivate", "deallocate"} :
               calls' = [calls EXCEPT ![c].pc = pc]
      BY <1>23 DEF stop_container_take, stop_container_drain, kill_pod_take, kill_pod_drain,
                   kill_pod_deactivate, Goto, Return
    <2>3. \A s \in Server : calls[c].snap.killer # s => servers'[s] = servers[s]
      BY <1>0, <1>23 DEF stop_container_take, stop_container_drain, kill_pod_take, kill_pod_drain,
                   kill_pod_deactivate, take, TimesOut, taskVars
    <2>4. Copied(c) /\ \A d \in Call \ {c} : calls'[d] = calls[d]
      BY <1>3, <1>4, <2>1, <2>2
    <2> QED BY <1>2, <2>1, <2>3, <2>4, KillerFrame DEF Kept
  <1>24. ASSUME UNCHANGED <<pods, calls>>,
               \A s \in Server, a \in Address \cup {None} :
                  Killable(s, a) /\ Held(s) => Killable(s, a)'
        PROVE  KillerInv'
    <2>1. PICK c : c \notin Call
      BY NoSetContainsEverything
    <2>2. Harmless(c)
      BY <1>24 DEF Harmless
    <2> QED BY <1>24, <2>1, <2>2, KillerFrame DEF Kept
  <1>25. ASSUME NEW t \in Server, \/ ServerEnds(t) \/ AbortedServerEnds(t) \/ ServerShutsDown(t)
        PROVE  KillerInv'
    <2>1. UNCHANGED <<pods, calls, stopping>> /\ servers[t] \in ServerRecord
      BY <1>0, <1>25 DEF ServerEnds, AbortedServerEnds, ServerShutsDown, poolVars
    <2>2. \A s \in Server \ {t} : servers'[s] = servers[s]
      BY <1>0, <1>25 DEF ServerEnds, AbortedServerEnds, ServerShutsDown, Ended
    <2>3. /\ servers'[t].armed = servers[t].armed
          /\ \/ servers[t].phase = "aborted"
             \/ /\ servers[t].phase = "draining" \/ "serve" \in Faults
                /\ servers'[t].phase = "down"
             \/ /\ servers[t].phase = "up" /\ (stopping \/ ~ Held(t))
                /\ servers'[t].phase = "draining"
      <3>1. CASE ServerEnds(t) \/ AbortedServerEnds(t)
        BY <1>0, <2>1, <3>1 DEF ServerEnds, AbortedServerEnds, Ended, NoServer, ServerRecord
      <3>2. CASE ServerShutsDown(t)
        BY <1>0, <2>1, <3>2 DEF ServerShutsDown, ServerRecord
      <3> QED BY <1>25, <3>1, <3>2
    <2>4. ASSUME NEW a, Killable(t, a), Held(t) PROVE Killable(t, a)'
      BY <2>1, <2>3, <2>4 DEF Killable
    <2>5. ASSUME NEW s \in Server \ {t}, NEW a, Killable(s, a) PROVE Killable(s, a)'
      BY <2>1, <2>2, <2>5 DEF Killable
    <2> QED BY <1>24, <2>1, <2>4, <2>5
  <1>26. ASSUME shutdown_signal PROVE KillerInv'
    <2>1. UNCHANGED <<pods, calls, servers>> /\ stopping'
      BY <1>26 DEF shutdown_signal, poolVars
    <2>2. \A s \in Server, a \in Address \cup {None} : Killable(s, a) => Killable(s, a)'
      BY <2>1 DEF Killable
    <2> QED BY <1>24, <2>1, <2>2
  <1>27. ASSUME NEW i \in Initialization, initialize_grpc(i) PROVE KillerInv'
    BY <1>10, <1>27 DEF initialize_grpc, poolVars, Kept
  <1>28. CASE restart
    <2>1. /\ \A p \in PodId : pods'[p] = NoPod
          /\ \A c \in Call : calls'[c] = Idle
      BY <1>28 DEF restart
    <2>2. /\ \A p \in PodId : pods'[p].state # "Running"
          /\ \A c \in Call : calls'[c].pc # "finalize"
      BY <2>1 DEF NoPod, Idle
    <2> QED BY <2>2 DEF KillerInv
  <1>29. ASSUME NEW c \in Call, Step(c) \/ cancel(c) PROVE KillerInv'
    BY <1>6, <1>7, <1>8, <1>9, <1>15, <1>16, <1>17, <1>18, <1>19, <1>23, <1>29, KillerBind
    DEF Step
  <1>30. CASE Request
    BY <1>5, <1>11, <1>14, <1>20, <1>21, <1>22, <1>30 DEF Request
  <1> QED BY <1>25, <1>26, <1>27, <1>28, <1>29, <1>30 DEF Next

(* The invariant of the killers holds in every behaviour. *)
THEOREM KillersCorrect == Spec => []KillerInv
  <1>1. Init => KillerInv
    BY DEF Init, KillerInv, NoPod, Idle
  <1>2. KillerInv /\ UNCHANGED vars => KillerInv'
    <2> SUFFICES ASSUME KillerInv, UNCHANGED vars PROVE KillerInv'
      OBVIOUS
    <2>1. pods' = pods /\ calls' = calls /\ \A s, a : Killable(s, a) => Killable(s, a)'
      BY DEF Killable, vars
    <2> QED BY <2>1 DEF KillerInv
  <1> QED BY <1>1, <1>2, KillerStep, PoolCorrect, PTL DEF Spec

(* A Running pod has a server on its own address and an unused killer,     *)
(* under every set of faults: whoever takes a pod out of Running, which is *)
(* what stop_container and kill_pod do first, leaves a killer that works.  *)
THEOREM RunningPods == Spec => []RunningIsKillable
  <1>1. KillerInv => RunningIsKillable
    BY DEF KillerInv, Killable, RunningIsKillable
  <1> QED BY <1>1, KillersCorrect, PTL

(* Some handler is about to publish or to use the killer of s. *)
Responsible(c, s) ==
  /\ calls[c].pc \in {"finalize", "stopTake", "killTake"}
  /\ calls[c].snap.killer = s

(* If servers end only when they are told to: two servers never share an   *)
(* address, so that a clone published over a pod whose server is up brings *)
(* that same server.                                                       *)
Apart ==
  \A s, t \in Server : s # t /\ Bound(s) /\ Bound(t) => servers[s].addr # servers[t].addr

(* The killer of a pod is for a server on the address of the pod. *)
Placed ==
  \A s \in Server, p \in PodId :
    pods[p].killer = s /\ Bound(s) => servers[s].addr = pods[p].addr

(* A server that nobody has told to stop is in someone's hands. *)
Watched ==
  \A s \in Server : servers[s].phase = "up" =>
    /\ servers[s].armed
    /\ \/ \E p \in PodId : pods[p].killer = s
       \/ \E c \in Call : Responsible(c, s)

(* If its pod has been killed, StopPodSandbox is about to take its killer. *)
Doomed ==
  \A s \in Server, p \in PodId :
    (servers[s].phase = "up" /\ pods[p].killer = s /\ pods[p].state = "Killed") =>
       \E c \in Call : calls[c].pc = "killTake" /\ calls[c].snap.killer = s

ServerInv == ~ stopping /\ Apart /\ Placed /\ Watched /\ Doomed

(* Servers end only when they are told to, one by one. *)
Obedient == "serve" \notin Faults /\ "shutdown" \notin Faults

(* A step of call c starts no server, and whoever is responsible for one   *)
(* that stays up publishes it.                                             *)
Settled(c) ==
  /\ \A s \in Server :
       /\ Bound(s)' => Bound(s) /\ servers'[s].addr = servers[s].addr
       /\ servers'[s].phase = "up" => servers'[s] = servers[s]
       /\ (c \in Call /\ Responsible(c, s) /\ servers'[s].phase = "up") =>
            \E p \in PodId : Published(c, p)
  /\ \A p \in PodId : (pods'[p].state = "Killed" /\ ~ Kept(p)) =>
       /\ c \in Call /\ calls'[c].pc = "killTake" /\ calls'[c].snap.killer = pods[p].killer

(* RemovePodSandbox leaves an entry without a killer. *)
LEMMA DeletedIsEmpty ==
  ASSUME NEW p, Deleted(p)
  PROVE  pods'[p].killer = None /\ pods'[p].state = "Absent"
  BY DEF Deleted, NoPod

(* A step that starts no server and drops none keeps the invariant. *)
LEMMA ServerFrame ==
  ASSUME Obedient, PoolInv, KillerInv, ServerInv, UNCHANGED stopping,
         NEW c, \A d \in Call \ {c} : calls'[d] = calls[d], Settled(c),
         \A p \in PodId : Kept(p) \/ Moved(p) \/ Deleted(p) \/ Inserted(c, p) \/ Published(c, p)
  PROVE  ServerInv'
  <1>1. \A d \in Call : calls[d].snap \in Pod
    BY DEF PoolInv, TypeOK, CallRecord
  <1>2. ASSUME NEW p \in PodId, Published(c, p)
        PROVE  /\ c \in Call /\ pods'[p] = calls[c].snap /\ calls[c].snap.addr = pods[p].addr
               /\ calls[c].snap.killer \in Server
               /\ servers[calls[c].snap.killer].phase = "up"
               /\ servers[calls[c].snap.killer].addr = calls[c].snap.addr
               /\ pods[p].killer # calls[c].snap.killer
    <2>1. c \in Call /\ calls[c].pc = "finalize" /\ calls[c].pod = p /\ pods[p].state = "Starting"
      BY <1>2 DEF Published
    <2>2. SlotOK(c)
      BY <2>1 DEF PoolInv, Slots
    <2>3. Killable(calls[c].snap.killer, calls[c].snap.addr)
      BY <2>1 DEF KillerInv
    <2>4. pods[p].killer # calls[c].snap.killer
      BY <2>1 DEF KillerInv
    <2> QED BY <1>2, <2>1, <2>2, <2>3, <2>4 DEF Published, SlotOK, Killable, Obedient, ServerInv
  <1>3. ASSUME NEW p \in PodId, Inserted(c, p)
        PROVE  pods[p].killer = None /\ pods'[p].killer = None /\ pods'[p].state = "Initiated"
    BY <1>1, <1>3 DEF Inserted, PoolInv, Entries, Slots, SlotOK, Initializing, Pod
  <1>4. ASSUME NEW s \in Server, NEW d \in Call, calls[d].pc = "killTake",
               calls[d].snap.killer = s, servers'[s].phase = "up"
        PROVE  calls'[d] = calls[d]
    BY <1>4 DEF Settled, Responsible, Published
  <1>5. Apart'
    <2> SUFFICES ASSUME NEW s \in Server, NEW t \in Server, s # t, Bound(s)', Bound(t)'
                 PROVE  servers'[s].addr # servers'[t].addr
      BY DEF Apart
    <2>1. /\ Bound(s) /\ servers'[s].addr = servers[s].addr
          /\ Bound(t) /\ servers'[t].addr = servers[t].addr
      BY DEF Settled
    <2> QED BY <2>1 DEF ServerInv, Apart
  <1>6. ASSUME NEW s \in Server, NEW p \in PodId, pods'[p].killer = s, Bound(s)'
        PROVE  servers'[s].addr = pods'[p].addr
    <2>1. Bound(s) /\ servers'[s].addr = servers[s].addr /\ s # None
      BY <1>6, NoneAssumption DEF Settled
    <2>2. CASE Kept(p) \/ Moved(p)
      <3>1. pods'[p].killer = pods[p].killer /\ pods'[p].addr = pods[p].addr
        BY <2>2 DEF Kept, Moved
      <3> QED BY <1>6, <2>1, <3>1 DEF ServerInv, Placed
    <2>3. CASE Deleted(p) \/ Inserted(c, p)
      <3>1. Deleted(p) => pods'[p].killer = None
        BY DeletedIsEmpty
      <3>2. Inserted(c, p) => pods'[p].killer = None
        BY <1>3
      <3> QED BY <1>6, <2>1, <2>3, <3>1, <3>2
    <2>4. CASE Published(c, p)
      BY <1>2, <1>6, <2>1, <2>4
    <2> QED BY <2>2, <2>3, <2>4
  <1>7. ASSUME NEW s \in Server, servers'[s].phase = "up"
        PROVE  /\ servers'[s].armed
               /\ \/ \E p \in PodId : pods'[p].killer = s
                  \/ \E d \in Call : Responsible(d, s)'
    <2>1. servers'[s] = servers[s] /\ servers[s].phase = "up" /\ servers[s].armed /\ s # None
      BY <1>7, NoneAssumption DEF Settled, ServerInv, Watched
    <2>2. ASSUME NEW p \in PodId, pods[p].killer = s
          PROVE  \/ \E q \in PodId : pods'[q].killer = s
                 \/ \E d \in Call : Responsible(d, s)'
      <3>1. CASE Kept(p) \/ Moved(p)
        BY <2>2, <3>1 DEF Kept, Moved
      <3>2. CASE Deleted(p)
        <4>1. PICK d \in Call : calls[d].pc = "killTake" /\ calls[d].snap.killer = s
          BY <2>1, <2>2, <3>2 DEF Deleted, ServerInv, Doomed
        <4> QED BY <1>4, <1>7, <4>1 DEF Responsible
      <3>3. CASE Inserted(c, p)
        BY <1>3, <2>1, <2>2, <3>3
      <3>4. CASE Published(c, p)
        <4>1. Bound(s) /\ Bound(calls[c].snap.killer)
          BY <1>2, <2>1, <3>4 DEF Bound
        <4>2. servers[s].addr = pods[p].addr
          BY <2>2, <4>1 DEF ServerInv, Placed
        <4>3. calls[c].snap.killer \in Server /\ calls[c].snap.killer # s
              /\ servers[calls[c].snap.killer].addr = servers[s].addr
          BY <1>2, <2>2, <3>4, <4>2
        <4> QED BY <4>1, <4>3 DEF ServerInv, Apart
      <3> QED BY <3>1, <3>2, <3>3, <3>4
    <2>3. ASSUME NEW d \in Call, Responsible(d, s)
          PROVE  \/ \E q \in PodId : pods'[q].killer = s
                 \/ Responsible(d, s)'
      <3>1. CASE d # c
        BY <2>3, <3>1 DEF Responsible
      <3>2. CASE d = c
        BY <1>2, <1>7, <2>3, <3>2 DEF Settled, Responsible
      <3> QED BY <3>1, <3>2
    <2>4. (\E p \in PodId : pods[p].killer = s) \/ \E d \in Call : Responsible(d, s)
      BY <2>1 DEF ServerInv, Watched
    <2> QED BY <2>1, <2>2, <2>3, <2>4
  <1>8. ASSUME NEW s \in Server, NEW p \in PodId, servers'[s].phase = "up",
               pods'[p].killer = s, pods'[p].state = "Killed"
        PROVE  \E d \in Call : calls'[d].pc = "killTake" /\ calls'[d].snap.killer = s
    <2>1. CASE Kept(p)
      <3>1. PICK d \in Call : calls[d].pc = "killTake" /\ calls[d].snap.killer = s
        <4>1. servers[s].phase = "up" /\ pods[p].killer = s /\ pods[p].state = "Killed"
          BY <1>8, <2>1 DEF Settled, Kept
        <4> QED BY <4>1 DEF ServerInv, Doomed
      <3> QED BY <1>4, <1>8, <3>1
    <2>2. CASE Moved(p) /\ ~ Kept(p)
      <3>1. c \in Call /\ calls'[c].pc = "killTake" /\ calls'[c].snap.killer = pods[p].killer
        BY <1>8, <2>2 DEF Settled
      <3>2. pods'[p].killer = pods[p].killer
        BY <2>2 DEF Moved
      <3> QED BY <1>8, <3>1, <3>2
    <2>3. CASE Deleted(p)
      <3>1. pods'[p].state = "Absent"
        BY <2>3, DeletedIsEmpty
      <3> QED BY <1>8, <3>1
    <2>4. CASE Inserted(c, p)
      BY <1>3, <1>8, <2>4
    <2>5. CASE Published(c, p)
      BY <1>8, <2>5 DEF Published, PoolInv, Slots, SlotOK
    <2> QED BY <2>1, <2>2, <2>3, <2>4, <2>5
  <1>9. Placed'
    BY <1>6 DEF Placed
  <1>10. Watched'
    BY <1>7 DEF Watched
  <1>11. Doomed'
    BY <1>8 DEF Doomed
  <1> QED BY <1>5, <1>9, <1>10, <1>11 DEF ServerInv

(* The server that StartContainer starts has an address of its own. *)
LEMMA ServerBind ==
  ASSUME PoolInv, ServerInv, NEW c \in Call, start_container_bind(c)
  PROVE  ServerInv'
  <1>1. PICK s \in Server :
          /\ FreshServer(s)
          /\ servers' = [servers EXCEPT ![s] = [phase |-> "up", addr |-> calls[c].snap.addr,
                                                pod |-> calls[c].pod, armed |-> TRUE]]
          /\ calls' = [calls EXCEPT ![c].pc = "finalize", ![c].snap.state = "Running",
                                    ![c].snap.killer = s]
    BY DEF start_container_bind
  <1>2. /\ UNCHANGED pods /\ UNCHANGED stopping /\ calls[c].pc = "bind"
        /\ \A t \in Server : ~ (Bound(t) /\ servers[t].addr = calls[c].snap.addr)
    BY DEF start_container_bind, poolVars
  <1>3. calls[c] \in CallRecord /\ calls[c].snap \in Pod
    BY DEF PoolInv, TypeOK, CallRecord
  <1>4. /\ calls'[c].pc = "finalize"
        /\ calls'[c].snap = [calls[c].snap EXCEPT !.state = "Running",
                                                  !.killer = s]
        /\ \A d \in Call \ {c} : calls'[d] = calls[d]
    BY <1>1, <1>3 DEF PoolInv, TypeOK, CallRecord
  <1>5. Responsible(c, s)'
    BY <1>3, <1>4 DEF Responsible, Pod
  <1>6. /\ servers'[s].armed /\ servers'[s].phase = "up" /\ servers'[s].addr = calls[c].snap.addr
        /\ \A t \in Server \ {s} : servers'[t] = servers[t]
    BY <1>1 DEF PoolInv, TypeOK
  <1>7. \A p \in PodId : pods'[p].killer # s
    BY <1>1, <1>2 DEF FreshServer
  <1>8. Apart'
    BY <1>2, <1>6 DEF ServerInv, Apart, Bound
  <1>9. Placed'
    <2> SUFFICES ASSUME NEW t \in Server, NEW p \in PodId, pods'[p].killer = t, Bound(t)'
                 PROVE  servers'[t].addr = pods'[p].addr
      BY DEF Placed
    <2>1. t # s /\ servers'[t] = servers[t]
      BY <1>6, <1>7
    <2>2. Bound(t) /\ pods'[p] = pods[p]
      BY <1>2, <2>1 DEF Bound
    <2> QED BY <2>1, <2>2 DEF ServerInv, Placed
  <1>10. ASSUME NEW t \in Server \ {s}, NEW d \in Call, Responsible(d, t)
         PROVE  Responsible(d, t)'
    BY <1>2, <1>4, <1>10 DEF Responsible
  <1>11. ASSUME NEW t \in Server, servers'[t].phase = "up"
         PROVE  /\ servers'[t].armed
                /\ \/ \E p \in PodId : pods'[p].killer = t
                   \/ \E d \in Call : Responsible(d, t)'
    <2>1. CASE t = s
      BY <1>5, <1>6, <2>1
    <2>2. CASE t # s
      <3>1. servers'[t] = servers[t] /\ servers[t].phase = "up"
        BY <1>6, <1>11, <2>2
      <3>2. /\ servers[t].armed
            /\ (\E p \in PodId : pods[p].killer = t) \/ \E d \in Call : Responsible(d, t)
        BY <3>1 DEF ServerInv, Watched
      <3> QED BY <1>2, <1>10, <2>2, <3>1, <3>2
    <2> QED BY <2>1, <2>2
  <1>12. ASSUME NEW t \in Server, NEW p \in PodId, servers'[t].phase = "up",
                pods'[p].killer = t, pods'[p].state = "Killed"
         PROVE  \E d \in Call : calls'[d].pc = "killTake" /\ calls'[d].snap.killer = t
    <2>1. PICK d \in Call : calls[d].pc = "killTake" /\ calls[d].snap.killer = t
      <3>1. servers[t].phase = "up" /\ pods[p].killer = t /\ pods[p].state = "Killed"
        BY <1>2, <1>6, <1>7, <1>12
      <3> QED BY <3>1 DEF ServerInv, Doomed
    <2> QED BY <1>2, <1>4, <2>1
  <1>13. Watched'
    BY <1>11 DEF Watched
  <1>14. Doomed'
    BY <1>12 DEF Doomed
  <1>15. ~ stopping'
    BY <1>2 DEF ServerInv
  <1> QED BY <1>8, <1>9, <1>13, <1>14, <1>15 DEF ServerInv

(* Every step keeps the invariant of the servers. *)
LEMMA ServerStep ==
  ASSUME Obedient, PoolInv, KillerInv, ServerInv, Next
  PROVE  ServerInv'
  <1>0. calls \in [Call -> CallRecord] /\ servers \in [Server -> ServerRecord]
    BY DEF PoolInv, TypeOK
  <1>1. ASSUME UNCHANGED servers, NEW c,
               c \in Call => calls[c].pc \notin {"finalize", "stopTake", "killTake"},
               \A p \in PodId : Kept(p) \/ pods'[p].state # "Killed"
        PROVE  Settled(c)
    BY <1>1 DEF Settled, Responsible, Bound
  <1>2. ASSUME NEW c \in Call, UNCHANGED <<servers, stopping>>,
               calls[c].pc \notin {"finalize", "stopTake", "killTake"},
               \A d \in Call \ {c} : calls'[d] = calls[d],
               \A p \in PodId : Kept(p) \/ pods'[p].state # "Killed",
               \A p \in PodId : Kept(p) \/ Moved(p) \/ Inserted(c, p)
        PROVE  ServerInv'
    BY <1>1, <1>2, ServerFrame
  <1>3. ASSUME NEW c \in Call,
               \/ \E component \in Component : init_pod(c, component)
               \/ address_add(c) \/ address_add_fails(c) \/ address_add_unusable(c)
               \/ address_activate_fails(c) \/ address_undo(c)
               \/ start_container_await(c) \/ start_container_bind_fails(c)
               \/ kill_pod_deactivate(c) \/ kill_pod_deallocate(c) \/ cancel(c)
        PROVE  ServerInv'
    <2>1. UNCHANGED <<pods, servers, stopping>>
      BY <1>3 DEF init_pod, address_add, address_add_fails, address_add_unusable,
                  address_activate_fails, address_undo, start_container_await,
                  start_container_bind_fails, kill_pod_deactivate, kill_pod_deallocate, cancel,
                  poolVars, taskVars
    <2>2. calls[c].pc \notin {"finalize", "stopTake", "killTake"}
      BY <1>3 DEF init_pod, address_add, address_add_fails, address_add_unusable,
                  address_activate_fails, address_undo, start_container_await,
                  start_container_bind_fails, kill_pod_deactivate, kill_pod_deallocate, cancel
    <2>3. \A d \in Call \ {c} : calls'[d] = calls[d]
      BY <1>0, <1>3 DEF init_pod, address_add, address_add_fails, address_add_unusable,
                  address_activate_fails, address_undo, start_container_await,
                  start_container_bind_fails, kill_pod_deactivate, kill_pod_deallocate, cancel,
                  Enter, Goto, Return
    <2> QED BY <1>2, <2>1, <2>2, <2>3 DEF Kept
  <1>4. ASSUME NEW c \in Call, address_activate(c) PROVE ServerInv'
    <2>1. \A p \in PodId : Kept(p) \/ Inserted(c, p)
      BY <1>4 DEF address_activate, Kept, Inserted, PoolInv, TypeOK
    <2>2. \A p \in PodId : Kept(p) \/ pods'[p].state # "Killed"
      BY <2>1 DEF Inserted, PoolInv, TypeOK, CallRecord, Pod
    <2>3. /\ UNCHANGED <<servers, stopping>> /\ calls[c].pc = "ipAddrAdd"
          /\ \A d \in Call \ {c} : calls'[d] = calls[d]
      BY <1>0, <1>4 DEF address_activate, Return, taskVars
    <2> QED BY <1>2, <2>1, <2>2, <2>3
  <1>5. ASSUME UNCHANGED <<calls, servers, stopping>>,
               \A p \in PodId : Kept(p) \/ Moved(p) \/ Deleted(p),
               \A p \in PodId : Kept(p) \/ pods'[p].state # "Killed"
        PROVE  ServerInv'
    <2>1. PICK c : c \notin Call
      BY NoSetContainsEverything
    <2> QED BY <1>1, <1>5, <2>1, ServerFrame
  <1>6. ASSUME NEW p \in PodId, NEW config \in Config, NEW attempt \in 0 .. MaxAttempt,
               create_container(p, config, attempt)
        PROVE  ServerInv'
    <2>1. UNCHANGED <<calls, servers, stopping>>
      BY <1>6 DEF create_container, create_container_initial, create_container_again,
                  create_container_rejected, Answer, taskVars
    <2>2. \A q \in PodId : Kept(q) \/ pods'[q].state # "Killed"
      <3>1. CASE create_container_initial(p, config, attempt)
        BY <3>1 DEF create_container_initial, Kept, PoolInv, TypeOK, Pod
      <3>2. CASE create_container_again(p, config, attempt)
        <4>1. pods \in [PodId -> Pod]
          BY DEF PoolInv, TypeOK
        <4>2. \/ \E i \in Initialization :
                  pods' = [pods EXCEPT ![p].state = "Created", ![p].routes = i,
                                       ![p].attempt = attempt]
              \/ pods' = [pods EXCEPT ![p].state = "Created", ![p].attempt = attempt]
          BY <3>2 DEF create_container_again
        <4>3. pods'[p].state = "Created" /\ \A q \in PodId \ {p} : pods'[q] = pods[q]
          <5>1. CASE pods' = [pods EXCEPT ![p].state = "Created", ![p].attempt = attempt]
            BY <4>1, <5>1 DEF Pod
          <5>2. ASSUME NEW i \in Initialization,
                       pods' = [pods EXCEPT ![p].state = "Created", ![p].routes = i,
                                            ![p].attempt = attempt]
                PROVE  pods'[p].state = "Created" /\ \A q \in PodId \ {p} : pods'[q] = pods[q]
            BY <4>1, <5>2 DEF Pod
          <5> QED BY <4>2, <5>1, <5>2
        <4> QED BY <4>3 DEF Kept
      <3>3. CASE create_container_rejected(p, config)
        BY <3>3 DEF create_container_rejected, Kept, poolVars
      <3> QED BY <1>6, <3>1, <3>2, <3>3 DEF create_container
    <2> QED BY <1>5, <1>6, <2>1, <2>2, PodEffects
  <1>7. ASSUME NEW p \in PodId, remove_container(p) \/ delete_pod(p) PROVE ServerInv'
    <2>1. UNCHANGED <<calls, servers, stopping>>
      BY <1>7 DEF remove_container, delete_pod, Answer, taskVars
    <2>2. \A q \in PodId : Kept(q) \/ pods'[q].state # "Killed"
      BY <1>7 DEF remove_container, delete_pod, Kept, PoolInv, TypeOK, Pod, NoPod
    <2> QED BY <1>5, <1>7, <2>1, <2>2, PodEffects
  <1>8. ASSUME NEW c \in Call, NEW p \in PodId, start_container_without_wait(c, p),
               calls[c].pc \in {"idle", "startAgain"}, UNCHANGED taskVars
        PROVE  ServerInv'
    <2>1. \A q \in PodId : Kept(q) \/ Moved(q)
      BY <1>8, PodEffects
    <2>2. \A q \in PodId : Kept(q) \/ pods'[q].state # "Killed"
      BY <1>8 DEF start_container_without_wait, Kept, PoolInv, TypeOK, Pod
    <2>3. \A d \in Call \ {c} : calls'[d] = calls[d]
      BY <1>0, <1>8 DEF start_container_without_wait, Enter, Return
    <2> QED BY <1>2, <1>8, <2>1, <2>2, <2>3 DEF taskVars
  <1>9. ASSUME NEW c \in Call, NEW p \in PodId, start_container(c, p) PROVE ServerInv'
    <2>1. CASE UNCHANGED pods /\ \A d \in Call \ {c} : calls'[d] = calls[d]
      BY <1>2, <1>9, <2>1 DEF start_container, taskVars, Kept
    <2> QED BY <1>0, <1>8, <1>9, <2>1 DEF start_container, Enter
  <1>10. ASSUME NEW c \in Call, start_container_again(c) PROVE ServerInv'
    <2>1. calls[c].pod \in PodId
      BY <1>0 DEF CallRecord
    <2>2. CASE UNCHANGED pods /\ \A d \in Call \ {c} : calls'[d] = calls[d]
      BY <1>2, <1>10, <2>2 DEF start_container_again, taskVars, Kept
    <2> QED BY <1>0, <1>8, <1>10, <2>1, <2>2 DEF start_container_again, Return
  <1>11. ASSUME NEW c \in Call, start_container_unlock(c) PROVE ServerInv'
    <2>1. /\ UNCHANGED <<servers, stopping>> /\ calls[c].pc = "bindFailed"
          /\ \A d \in Call \ {c} : calls'[d] = calls[d]
      BY <1>0, <1>11 DEF start_container_unlock, Return, taskVars
    <2>2. \A q \in PodId : Kept(q) \/ pods'[q].state # "Killed"
      BY <1>11 DEF start_container_unlock, Kept, PoolInv, TypeOK, Pod
    <2> QED BY <1>2, <1>11, <2>1, <2>2, PodEffects
  <1>12. ASSUME NEW c \in Call, start_container_finalize(c) PROVE ServerInv'
    <2>1. \A q \in PodId : Kept(q) \/ Published(c, q)
      BY <1>12, PodEffects
    <2>2. /\ UNCHANGED stopping /\ calls[c].pc = "finalize" /\ calls[c].pod \in PodId
          /\ \A d \in Call \ {c} : calls'[d] = calls[d]
      BY <1>0, <1>12 DEF start_container_finalize, Return, CallRecord
    <2>3. \A p \in PodId : pods'[p].state = "Killed" => Kept(p)
      BY <2>1 DEF Published, PoolInv, Slots, SlotOK
    <2>4. CASE pods[calls[c].pod].state = "Starting"
      <3>1. UNCHANGED servers /\ Published(c, calls[c].pod)
        BY <1>12, <2>2, <2>4 DEF start_container_finalize, Published, PoolInv, TypeOK
      <3>2. Settled(c)
        BY <2>2, <2>3, <3>1 DEF Settled, Bound
      <3> QED BY <2>1, <2>2, <3>2, ServerFrame
    <2>5. CASE pods[calls[c].pod].state # "Starting"
      <3>0. PICK s : s = calls[c].snap.killer
        OBVIOUS
      <3>1. s \in Server /\ servers' = [servers EXCEPT ![s] = Abort(s)]
        BY <1>12, <2>2, <2>5, <3>0 DEF start_container_finalize, PoolInv, Slots, SlotOK
      <3>2. /\ \A t \in Server \ {s} : servers'[t] = servers[t]
            /\ servers'[s].addr = servers[s].addr /\ servers'[s].phase # "up"
            /\ Bound(s)' => Bound(s)
        BY <1>0, <3>1 DEF Abort, ServerRecord, Bound
      <3>3. Settled(c)
        BY <2>3, <3>0, <3>1, <3>2 DEF Settled, Responsible, Bound
      <3> QED BY <2>1, <2>2, <3>3, ServerFrame
    <2> QED BY <2>4, <2>5
  <1>13. ASSUME NEW c \in Call, NEW p \in PodId, stop_container(c, p) PROVE ServerInv'
    <2>1. /\ UNCHANGED <<servers, stopping>> /\ calls[c].pc = "idle"
          /\ \A d \in Call \ {c} : calls'[d] = calls[d]
      BY <1>0, <1>13 DEF stop_container, Enter, Return, taskVars
    <2>2. \A q \in PodId : Kept(q) \/ pods'[q].state # "Killed"
      BY <1>13 DEF stop_container, Kept, PoolInv, TypeOK, Pod
    <2> QED BY <1>2, <1>13, <2>1, <2>2, PodEffects
  <1>14. ASSUME NEW c \in Call, NEW p \in PodId, kill_pod(c, p) PROVE ServerInv'
    <2>1. /\ UNCHANGED <<servers, stopping>> /\ calls[c].pc = "idle"
          /\ \A d \in Call \ {c} : calls'[d] = calls[d]
      BY <1>0, <1>14 DEF kill_pod, Enter, Return, taskVars
    <2>2. ASSUME NEW q \in PodId, ~ Kept(q)
          PROVE  calls'[c].pc = "killTake" /\ calls'[c].snap.killer = pods[q].killer
      <3>1. pods[p].state \notin {"Killed", "Absent"} /\ q = p
        BY <1>14, <2>2 DEF kill_pod, Kept, PoolInv, TypeOK
      <3> DEFINE snap == [NoPod EXCEPT !.killer = pods[p].killer, !.addr = pods[p].addr,
                                       !.component = pods[p].component]
      <3>2. calls'[c].pc = "killTake" /\ calls'[c].snap = snap
        BY <1>0, <1>14, <3>1 DEF kill_pod, Enter
      <3>3. snap.killer = pods[p].killer
        BY DEF NoPod
      <3> HIDE DEF snap
      <3> QED BY <3>1, <3>2, <3>3
    <2>3. Settled(c)
      BY <2>1, <2>2 DEF Settled, Responsible, Bound
    <2> QED BY <1>14, <2>1, <2>3, PodEffects, ServerFrame
  <1>15. ASSUME NEW c \in Call, stop_container_take(c) \/ kill_pod_take(c) PROVE ServerInv'
    <2>0. PICK s : s = calls[c].snap.killer
      OBVIOUS
    <2>1. /\ UNCHANGED <<pods, stopping>> /\ calls[c].pc \in {"stopTake", "killTake"}
          /\ \A d \in Call \ {c} : calls'[d] = calls[d]
      BY <1>0, <1>15 DEF stop_container_take, kill_pod_take, poolVars, Goto, Return
    <2>2. CASE CanTake(s)
      <3>1. s \in Server /\ take(s)
        BY <1>15, <2>0, <2>2 DEF stop_container_take, kill_pod_take, CanTake, PoolInv, TypeOK,
                           CallRecord, Pod
      <3>2. servers[s].phase \in Phase
        BY <1>0, <3>1 DEF ServerRecord
      <3>3. /\ \A t \in Server \ {s} : servers'[t] = servers[t]
            /\ servers'[s].addr = servers[s].addr
            /\ servers'[s].phase = Signalled(servers[s].phase)
        BY <1>0, <3>1 DEF take, ServerRecord
      <3>4. servers'[s].phase # "up" /\ (Bound(s)' => Bound(s))
        BY <3>2, <3>3 DEF Signalled, Phase, Bound
      <3>5. Settled(c)
        BY <2>0, <2>1, <3>1, <3>3, <3>4 DEF Settled, Responsible, Bound, Kept
      <3> QED BY <2>1, <3>5, ServerFrame DEF Kept
    <2>3. CASE ~ CanTake(s)
      <3>1. UNCHANGED servers
        BY <1>15, <2>0, <2>3 DEF stop_container_take, kill_pod_take
      <3>2. \A t \in Server : Responsible(c, t) => servers'[t].phase # "up"
        BY <2>0, <2>3, <3>1, NoneAssumption DEF Responsible, CanTake, ServerInv, Watched
      <3>3. Settled(c)
        BY <2>1, <3>1, <3>2 DEF Settled, Bound, Kept
      <3> QED BY <2>1, <3>3, ServerFrame DEF Kept
    <2> QED BY <2>2, <2>3
  <1>16. ASSUME NEW c \in Call, stop_container_drain(c) \/ kill_pod_drain(c) PROVE ServerInv'
    <2>0. PICK s : s = calls[c].snap.killer
      OBVIOUS
    <2>1. /\ UNCHANGED <<pods, stopping>> /\ calls[c].pc \in {"stopDrain", "killDrain"}
          /\ \A d \in Call \ {c} : calls'[d] = calls[d]
      BY <1>0, <1>16 DEF stop_container_drain, kill_pod_drain, poolVars, Goto, Return
    <2>2. s \in Server
      BY <2>0, <2>1 DEF PoolInv, Slots, SlotOK
    <2>3. /\ \A t \in Server \ {s} : servers'[t] = servers[t]
          /\ servers'[s].addr = servers[s].addr /\ servers'[s].phase # "up"
          /\ Bound(s)' => Bound(s)
      <3>1. CASE servers[s].phase = "down" /\ UNCHANGED servers
        BY <3>1 DEF Bound
      <3>2. CASE TimesOut(s)
        BY <1>0, <2>2, <3>2 DEF TimesOut, Abort, ServerRecord, Bound
      <3> QED BY <1>16, <2>0, <3>1, <3>2 DEF stop_container_drain, kill_pod_drain
    <2>4. Settled(c)
      BY <2>0, <2>1, <2>2, <2>3 DEF Settled, Responsible, Bound, Kept
    <2> QED BY <2>1, <2>4, ServerFrame DEF Kept
  <1>17. ASSUME NEW t \in Server, ServerEnds(t) \/ AbortedServerEnds(t) PROVE ServerInv'
    <2>1. UNCHANGED <<pods, calls, stopping>> /\ servers[t].phase \in {"draining", "aborted"}
      BY <1>17 DEF ServerEnds, AbortedServerEnds, poolVars, Obedient
    <2>2. /\ \A s \in Server \ {t} : servers'[s] = servers[s]
          /\ servers'[t].phase = "down"
      BY <1>0, <1>17 DEF ServerEnds, AbortedServerEnds, Ended, NoServer
    <2>3. PICK c : c \notin Call
      BY NoSetContainsEverything
    <2>4. Settled(c)
      BY <2>1, <2>2, <2>3 DEF Settled, Bound, Kept
    <2> QED BY <2>1, <2>3, <2>4, ServerFrame DEF Kept
  <1>18. ASSUME NEW t \in Server, ServerShutsDown(t) PROVE ServerInv'
    BY <1>18 DEF ServerShutsDown, ServerInv, Watched, Held, Responsible
  <1>19. ASSUME NEW i \in Initialization, initialize_grpc(i) PROVE ServerInv'
    BY <1>5, <1>19 DEF initialize_grpc, poolVars, Kept
  <1>20. CASE restart
    <2>1. /\ \A p \in PodId : pods'[p] = NoPod
          /\ \A s \in Server : servers'[s] = NoServer
          /\ ~ stopping'
      BY <1>20 DEF restart
    <2>2. \A s \in Server : servers'[s].phase = "down" /\ ~ Bound(s)'
      BY <2>1 DEF NoServer, Bound
    <2>3. Apart' /\ Placed' /\ Watched' /\ Doomed'
      BY <2>2 DEF Apart, Placed, Watched, Doomed
    <2> QED BY <2>1, <2>3 DEF ServerInv
  <1>21. ASSUME NEW c \in Call, Step(c) \/ cancel(c) PROVE ServerInv'
    BY <1>3, <1>4, <1>10, <1>11, <1>12, <1>15, <1>16, <1>21, ServerBind DEF Step
  <1>22. CASE Request
    BY <1>3, <1>6, <1>7, <1>9, <1>13, <1>14, <1>22 DEF Request
  <1> QED BY <1>17, <1>18, <1>19, <1>20, <1>21, <1>22 DEF Next, shutdown_signal, Obedient

(* No interleaving of CRI calls, failures, cancellations and restarts      *)
(* leaves a server without a killer that someone can reach, as long as     *)
(* servers do not end by themselves or on the global signal.               *)
THEOREM NoOrphans ==
  ASSUME Obedient
  PROVE  Spec => []NoOrphanServer
  <1>1. Init => ServerInv
    <2> SUFFICES ASSUME Init PROVE ServerInv
      OBVIOUS
    <2>1. \A s \in Server : servers[s].phase = "down" /\ ~ Bound(s)
      BY DEF Init, NoServer, Bound
    <2>2. Apart /\ Placed /\ Watched /\ Doomed
      BY <2>1 DEF Apart, Placed, Watched, Doomed
    <2> QED BY <2>2 DEF Init, ServerInv
  <1>2. ServerInv /\ UNCHANGED vars => ServerInv'
    <2> SUFFICES ASSUME ServerInv, UNCHANGED vars PROVE ServerInv'
      OBVIOUS
    <2>1. Apart' /\ Placed'
      BY DEF ServerInv, Apart, Placed, Bound, vars
    <2>2. Watched'
      BY DEF ServerInv, Watched, Responsible, vars
    <2>3. Doomed'
      BY DEF ServerInv, Doomed, vars
    <2> QED BY <2>1, <2>2, <2>3 DEF ServerInv, vars
  <1>3. PoolInv /\ KillerInv /\ ServerInv /\ [Next]_vars => ServerInv'
    BY <1>2, ServerStep
  <1>4. ServerInv => NoOrphanServer
    BY DEF ServerInv, Watched, NoOrphanServer, Held, Responsible
  <1> QED BY <1>1, <1>3, <1>4, PoolCorrect, KillersCorrect, PTL DEF Spec

=============================================================================

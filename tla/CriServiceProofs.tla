-------------------------- MODULE CriServiceProofs --------------------------
(***************************************************************************)
(* What CriService promises, for any sets of pods, downstream ids, calls   *)
(* and filters, any number of abandoned requests and every set of faults:  *)
(* requests reach the runtime that has the pod or container they are       *)
(* about, lists are complete and report what they were asked for, and the  *)
(* client of the downstream runtime is in use or free.                     *)
(*                                                                         *)
(* Routing alone is not inductive.  RouteInv adds what the handlers and    *)
(* the startup rely on: an id is recorded before its creation is answered, *)
(* is forgotten only after it is gone for good, and what lives downstream  *)
(* when the process starts is listed before the first request is served.   *)
(* ServiceInv adds what a list knows on its way through the two runtimes,  *)
(* and that nobody is in the line for the client twice.                    *)
(***************************************************************************)
EXTENDS CriService, SequenceTheorems, TLAPS

(* A record of a call: it has the fields of Idle. *)
IsCall(c) ==
  c = [pc |-> c.pc, op |-> c.op, id |-> c.id, filter |-> c.filter, result |-> c.result,
       items |-> c.items, todo |-> c.todo, since |-> c.since]

(* The downstream runtime has executed the request of a call. *)
Executed == {"executed", "answered"}

(* What is known of a call: it is there while the process serves, what it  *)
(* created is downstream, and what it removes has been there and is gone   *)
(* once it is removed.                                                     *)
CallInv(c, ds) ==
  /\ IsCall(c)
  /\ (c.pc \in Executed /\ c.op \in Creates) => c.result \subseteq DownstreamIds
  /\ (c.pc \in {"queued", "sent"} \cup Executed /\ c.op \in Removes) =>
       /\ c.id \in DownstreamIds
       /\ ds[c.id] # "unborn"
       /\ c.pc \in Executed => ds[c.id] = "gone"

(* The ids whose downstream lives the process has to know by now. *)
Covered(p) ==
  IF p = "serving" THEN DownstreamIds ELSE IF p = "listed" THEN DownstreamPods ELSE {}

RouteInv ==
  /\ downstream \in [DownstreamIds -> {"unborn", "live", "gone"}]
  /\ downstream_ids \subseteq DownstreamIds
  /\ calls = [i \in Calls |-> calls[i]]
  /\ \A i \in Calls : CallInv(calls[i], downstream)
  /\ \A i \in Calls : calls[i].pc # "idle" => proc = "serving"
  /\ \A d \in Covered(proc) :
       downstream[d] = "live" => is_downstream(d) \/ d \in lost \/ d \in Born(Calls)

(* Free slots and new calls are records of calls. *)
LEMMA NewCalls ==
  /\ IsCall(Idle) /\ Idle.pc = "idle"
  /\ \A op, id, filter :
       LET c == Fresh(op, id, filter)
       IN  IsCall(c) /\ c.pc = "queued" /\ c.op = op /\ c.id = id
  BY DEF IsCall, Idle, Fresh

(* Two calls of which only the notes about existing pods differ. *)
Alike(c, b) == /\ IsCall(b)
               /\ c.pc = b.pc /\ c.op = b.op /\ c.id = b.id /\ c.result = b.result

(* Taking notes changes nothing else. *)
LEMMA StillAlike ==
  ASSUME NEW cs, \A i \in Calls : IsCall(cs[i])
  PROVE  /\ Still(cs) = [i \in Calls |-> Still(cs)[i]]
         /\ \A i \in Calls : Alike(cs[i], Still(cs)[i])
  <1>1. Still(cs) = [i \in Calls |-> Still(cs)[i]]
    BY DEF Still
  <1>2. ASSUME NEW i \in Calls
        PROVE  Alike(cs[i], Still(cs)[i])
    <2> DEFINE s == cs[i].since \cap Existing'
               b == [cs[i] EXCEPT !.since = s]
    <2>1. Still(cs)[i] = b
      BY DEF Still
    <2>2. IsCall(cs[i])
      OBVIOUS
    <2> HIDE DEF s
    <2>3. IsCall(b) /\ b.pc = cs[i].pc /\ b.op = cs[i].op /\ b.id = cs[i].id
          /\ b.result = cs[i].result
      BY ONLY <2>2 DEF IsCall
    <2> QED BY <2>1, <2>3 DEF Alike
  <1> QED BY <1>1, <1>2

(* The condition under which a call may become another one while the      *)
(* downstream runtime stays as it is: what it created is not forgotten.    *)
Keeps(c, b) ==
  (c.pc \in Executed /\ c.op \in Creates) =>
    (b.pc \in Executed /\ b.op \in Creates /\ c.result \subseteq b.result)

(* Steps of calls that leave the downstream runtime and the records alone. *)
LEMMA CallStep ==
  ASSUME RouteInv,
         UNCHANGED <<downstream, downstream_ids, lost, proc>>,
         calls' = [i \in Calls |-> calls'[i]],
         \A i \in Calls : CallInv(calls'[i], downstream) /\ Keeps(calls[i], calls'[i]),
         \A i \in Calls : calls'[i].pc # "idle" => proc = "serving"
  PROVE  RouteInv'
  <1>1. Born(Calls) \subseteq Born(Calls)'
    BY DEF Born, Keeps, Executed
  <1>2. \A d : is_downstream(d)' = is_downstream(d)
    BY DEF is_downstream
  <1> QED BY <1>1, <1>2 DEF RouteInv

(* The same when one call changes. *)
LEMMA OneCallStep ==
  ASSUME RouteInv, NEW i \in Calls, NEW c,
         UNCHANGED <<downstream, downstream_ids, lost, proc>>,
         calls' = [calls EXCEPT ![i] = c],
         CallInv(c, downstream), Keeps(calls[i], c),
         c.pc # "idle" => proc = "serving"
  PROVE  RouteInv'
  <1>1. calls' = [j \in Calls |-> calls'[j]] /\ calls'[i] = c
        /\ \A j \in Calls \ {i} : calls'[j] = calls[j]
    BY DEF RouteInv
  <1>2. \A j \in Calls : CallInv(calls'[j], downstream) /\ Keeps(calls[j], calls'[j])
    BY <1>1 DEF RouteInv, Keeps
  <1>3. \A j \in Calls : calls'[j].pc # "idle" => proc = "serving"
    BY <1>1 DEF RouteInv
  <1> QED BY <1>1, <1>2, <1>3, CallStep

(* A request that is sent on waits for the client.  Removals are sent on   *)
(* for downstream ids that have been alive.                                *)
LEMMA ForwardStep ==
  ASSUME RouteInv, NEW i \in Calls, Ready(i), NEW op, NEW id, NEW filter,
         forward(i, op, id, filter),
         op \in Removes => id \in DownstreamIds /\ downstream[id] # "unborn"
  PROVE  RouteInv'
  <1> DEFINE c == IF op \in Creates \cup Removes \cup Lists
                  THEN Fresh(op, id, filter) ELSE Fresh("other", None, None)
  <1>1. UNCHANGED <<downstream, downstream_ids, lost, proc>> /\ calls' = [calls EXCEPT ![i] = c]
    BY DEF forward, processVars
  <1>2. IsCall(c) /\ c.pc = "queued" /\ c.op \in {op, "other"} /\ (c.op = op => c.id = id \/ op = "other")
    BY NewCalls
  <1>3. CallInv(c, downstream)
    BY <1>2 DEF CallInv, Executed, Removes
  <1>4. Keeps(calls[i], c) /\ proc = "serving"
    BY DEF Ready, Keeps, Executed
  <1> QED BY <1>1, <1>3, <1>4, OneCallStep, Zenon

(* A request to the pool is refused, answered at once or worked on. *)
LEMMA UpstreamStep ==
  ASSUME RouteInv, NEW i \in Calls, Ready(i), NEW op, NEW id, NEW valid,
         upstream(i, op, id, valid)
  PROVE  RouteInv'
  <1>1. UNCHANGED <<downstream, downstream_ids, lost, proc>>
    BY DEF upstream, processVars
  <1>2. \/ calls' = calls
        \/ calls' = Still(calls)
        \/ calls' = [calls EXCEPT ![i] = [Fresh(op, id, None) EXCEPT !.pc = "upstream"]]
    BY DEF upstream
  <1>3. CASE calls' = calls
    BY <1>1, <1>3, CallStep DEF RouteInv, Keeps
  <1>4. CASE calls' = Still(calls)
    <2>1. \A j \in Calls : Alike(calls[j], calls'[j])
      BY <1>4, StillAlike DEF RouteInv, CallInv
    <2>2. calls' = [j \in Calls |-> calls'[j]]
      BY <1>4, StillAlike DEF RouteInv, CallInv
    <2> QED BY <1>1, <2>1, <2>2, CallStep DEF RouteInv, CallInv, Alike, Keeps
  <1>5. CASE calls' = [calls EXCEPT ![i] = [Fresh(op, id, None) EXCEPT !.pc = "upstream"]]
    <2> DEFINE c == [Fresh(op, id, None) EXCEPT !.pc = "upstream"]
    <2>1. IsCall(c) /\ c.pc = "upstream"
      <3> DEFINE f == Fresh(op, id, None)
      <3>1. IsCall(f)
        BY NewCalls
      <3> HIDE DEF f
      <3>2. IsCall([f EXCEPT !.pc = "upstream"]) /\ [f EXCEPT !.pc = "upstream"].pc = "upstream"
        BY ONLY <3>1 DEF IsCall
      <3> QED BY <3>2 DEF f
    <2>2. CallInv(c, downstream)
      BY <2>1 DEF CallInv, Executed
    <2>3. Keeps(calls[i], c) /\ proc = "serving"
      BY DEF Ready, Keeps, Executed
    <2> QED BY <1>1, <1>5, <2>2, <2>3, OneCallStep, Zenon
  <1> QED BY <1>2, <1>3, <1>4, <1>5

(* An id of the pool is never taken for a downstream id. *)
LEMMA PoolIdsStay ==
  ASSUME downstream_ids \subseteq DownstreamIds
  PROVE  \A id \in PoolIds : ~ is_downstream(id)
  <1>1. \A id \in PoolIds : id[1] \in {"p-", "c-"}
    BY DEF PoolIds, pod_prefix, container_prefix
  <1> QED BY <1>1, IdAssumption DEF is_downstream

(* Every request, about any id that kubelet may know, is routed. *)
LEMMA RouteStep ==
  ASSUME RouteInv, NEW i \in Calls, NEW op, NEW valid,
         NEW id \in KnownPods \cup KnownContainers, route(i, op, id, valid)
  PROVE  RouteInv'
  <1>1. is_downstream(id) => id \in DownstreamIds /\ downstream[id] # "unborn"
    BY PoolIdsStay DEF RouteInv, KnownPods, KnownContainers, PoolIds, DownstreamIds
  <1> QED BY <1>1, ForwardStep, UpstreamStep DEF route, Ready

(* All requests together. *)
LEMMA RequestStep ==
  ASSUME RouteInv, NEW i \in Calls, request(i)
  PROVE  RouteInv'
  <1>1. CASE \E handler \in {"vimana", "other"}, valid \in BOOLEAN :
               run_pod_sandbox(i, handler, valid)
    BY <1>1, ForwardStep, UpstreamStep DEF run_pod_sandbox, Removes
  <1>2. CASE \E id \in KnownPods :
               \/ stop_pod_sandbox(i, id) \/ remove_pod_sandbox(i, id)
               \/ pod_sandbox_status(i, id)
               \/ \E valid \in BOOLEAN : create_container(i, id, valid)
    BY <1>2, RouteStep, Zenon
       DEF stop_pod_sandbox, remove_pod_sandbox, pod_sandbox_status, create_container
  <1>3. CASE \E id \in KnownContainers :
               \/ start_container(i, id) \/ stop_container(i, id) \/ remove_container(i, id)
               \/ container_status(i, id)
    BY <1>3, RouteStep, Zenon
       DEF start_container, stop_container, remove_container, container_status
  <1>4. CASE \E id \in KnownContainers : unsupported(i, id)
    <2> PICK id \in KnownContainers : unsupported(i, id)
      BY <1>4
    <2>1. CASE is_downstream(id)
      BY <2>1, ForwardStep DEF unsupported, Removes
    <2>2. CASE ~ is_downstream(id)
      <3>1. UNCHANGED <<downstream, downstream_ids, lost, proc, calls>>
        BY <2>2 DEF unsupported, processVars
      <3> QED BY <3>1, CallStep DEF RouteInv, Keeps
    <2> QED BY <2>1, <2>2
  <1>5. CASE \/ \E filter : list_pod_sandbox(i, filter) \/ list_containers(i, filter)
             \/ status(i)
    BY <1>5, ForwardStep DEF list_pod_sandbox, list_containers, status, Removes
  <1> QED BY <1>1, <1>2, <1>3, <1>4, <1>5 DEF request

(* Steps in which a handler works on the pool, waits, or ends without news *)
(* from the downstream runtime.                                            *)
LEMMA HandlerStep ==
  ASSUME RouteInv, NEW i \in Calls,
         \/ upstream_step(i) \/ upstream_reply(i) \/ acquire(i) \/ downstream_answers(i)
         \/ list_upstream(i) \/ list_reply(i)
  PROVE  RouteInv'
  <1> USE DEF processVars
  <1>0. IsCall(calls[i]) /\ CallInv(calls[i], downstream)
    BY DEF RouteInv, CallInv
  <1>1. CASE upstream_step(i)
    <2>0. PICK p : calls' = Still([calls EXCEPT ![i].result =
                                     IF state'[p] = "Starting" THEN {} ELSE {pod_prefix(p)}])
      BY <1>1, Zenon DEF upstream_step
    <2> DEFINE r == IF state'[p] = "Starting" THEN {} ELSE {pod_prefix(p)}
    <2>1. calls' = Still([calls EXCEPT ![i].result = r])
      BY <2>0
    <2> HIDE DEF r
    <2> DEFINE cs == [calls EXCEPT ![i].result = r]
    <2>2. cs[i] = [calls[i] EXCEPT !.result = r] /\ \A j \in Calls \ {i} : cs[j] = calls[j]
      BY DEF RouteInv
    <2>3. IsCall(cs[i]) /\ cs[i].pc = "upstream" /\ calls[i].pc = "upstream"
      <3>1. calls[i].pc = "upstream"
        BY <1>1 DEF upstream_step
      <3>2. IsCall([calls[i] EXCEPT !.result = r])
            /\ [calls[i] EXCEPT !.result = r].pc = calls[i].pc
        BY ONLY <1>0 DEF IsCall
      <3> HIDE DEF cs
      <3> QED BY <2>2, <3>1, <3>2
    <2>4. \A j \in Calls : IsCall(cs[j])
      BY <2>2, <2>3 DEF RouteInv, CallInv
    <2> HIDE DEF cs
    <2>5. calls' = [j \in Calls |-> calls'[j]] /\ \A j \in Calls : Alike(cs[j], calls'[j])
      BY <2>1, <2>4, StillAlike, Zenon DEF cs
    <2>6. \A j \in Calls : CallInv(calls'[j], downstream) /\ Keeps(calls[j], calls'[j])
      <3> TAKE j \in Calls
      <3>1. CASE j = i
        BY <3>1, <2>3, <2>5 DEF CallInv, Keeps, Alike, Executed
      <3>2. CASE j # i
        BY <3>2, <2>2, <2>5 DEF CallInv, Keeps, Alike, RouteInv
      <3> QED BY <3>1, <3>2
    <2>7. \A j \in Calls : calls'[j].pc # "idle" => proc = "serving"
      BY <2>2, <2>3, <2>5 DEF RouteInv, Alike
    <2>8. UNCHANGED <<downstream, downstream_ids, lost, proc>>
      BY <1>1 DEF upstream_step
    <2> QED BY <2>5, <2>6, <2>7, <2>8, CallStep
  <1>2. CASE upstream_reply(i) \/ list_reply(i)
    <2>1. calls' = [calls EXCEPT ![i] = Idle] /\ UNCHANGED <<downstream, downstream_ids, lost, proc>>
      BY <1>2 DEF upstream_reply, list_reply
    <2>2. CallInv(Idle, downstream) /\ Keeps(calls[i], Idle)
      BY <1>2, NewCalls DEF CallInv, Keeps, Executed, upstream_reply, list_reply, Creates, Lists
    <2> QED BY <2>1, <2>2, NewCalls, OneCallStep, Zenon
  <1>3. CASE acquire(i) \/ downstream_answers(i)
    <2>1. PICK pc : /\ calls' = [calls EXCEPT ![i] = [calls[i] EXCEPT !.pc = pc]]
                    /\ \/ pc = "sent" /\ calls[i].pc = "queued"
                       \/ pc = "answered" /\ calls[i].pc = "executed"
      BY <1>3 DEF acquire, downstream_answers
    <2> DEFINE c == [calls[i] EXCEPT !.pc = pc]
    <2>2. CallInv(c, downstream) /\ Keeps(calls[i], c)
      <3>1. IsCall(c) /\ c.pc = pc /\ c.op = calls[i].op /\ c.id = calls[i].id
            /\ c.result = calls[i].result
        BY ONLY <1>0 DEF IsCall
      <3> HIDE DEF c
      <3> QED BY <1>0, <2>1, <3>1 DEF CallInv, Keeps, Executed
    <2>3. UNCHANGED <<downstream, downstream_ids, lost, proc>> /\ proc = "serving"
      BY <1>3, <2>1 DEF acquire, downstream_answers, RouteInv
    <2> QED BY <2>1, <2>2, <2>3, OneCallStep, Zenon
  <1>4. CASE list_upstream(i)
    <2> DEFINE pods == calls[i].op = "list_pod_sandbox"
               matches(p) == IF pods THEN match_pod(state[p], calls[i].filter)
                             ELSE match_container(state[p], calls[i].filter)
               item(p) == IF pods THEN cri_pod_sandbox(p) ELSE cri_container(p)
    <2>1. PICK p : calls' = [calls EXCEPT ![i].todo = @ \ {p},
                               ![i].items = IF matches(p) THEN @ \cup {item(p)} ELSE @]
      BY <1>4, Zenon DEF list_upstream
    <2> DEFINE todo == calls[i].todo \ {p}
               items == IF matches(p) THEN calls[i].items \cup {item(p)} ELSE calls[i].items
               b == [calls[i] EXCEPT !.todo = todo]
               c == [b EXCEPT !.items = items]
    <2> HIDE DEF matches, item, todo
    <2>a. calls' = [calls EXCEPT ![i] = c]
      BY <2>1, Zenon DEF RouteInv, todo
    <2> HIDE DEF items
    <2>2. Alike(calls[i], c)
      <3>1. Alike(calls[i], b)
        BY ONLY <1>0 DEF IsCall, Alike
      <3> HIDE DEF b
      <3>2. Alike(b, c)
        BY ONLY <3>1 DEF IsCall, Alike
      <3> QED BY <3>1, <3>2 DEF Alike
    <2> HIDE DEF c
    <2>3. CallInv(c, downstream) /\ Keeps(calls[i], c)
      BY <1>0, <2>2 DEF CallInv, Keeps, Alike
    <2>4. UNCHANGED <<downstream, downstream_ids, lost, proc>> /\ proc = "serving"
      BY <1>4, Zenon DEF list_upstream, RouteInv
    <2> QED BY <2>a, <2>3, <2>4, OneCallStep, Zenon
  <1> QED BY <1>1, <1>2, <1>3, <1>4

(* A handler that fails or is dropped leaves behind what it has created. *)
LEMMA DropStep ==
  ASSUME RouteInv, NEW i \in Calls, downstream_fails(i) \/ cancel(i)
  PROVE  RouteInv'
  <1>1. /\ calls' = [calls EXCEPT ![i] = Idle] /\ lost' = lost \cup Born({i})
        /\ UNCHANGED <<downstream, downstream_ids, proc>>
    BY DEF downstream_fails, cancel, processVars
  <1>2. calls' = [j \in Calls |-> calls'[j]] /\ calls'[i] = Idle
        /\ \A j \in Calls \ {i} : calls'[j] = calls[j]
    BY <1>1 DEF RouteInv
  <1>3. \A j \in Calls : CallInv(calls'[j], downstream)
    BY <1>2, NewCalls DEF RouteInv, CallInv, Executed
  <1>4. Born(Calls) \subseteq Born({i}) \cup Born(Calls)'
    BY <1>2 DEF Born
  <1>5. \A d : is_downstream(d)' = is_downstream(d)
    BY <1>1 DEF is_downstream
  <1>6. \A j \in Calls : calls'[j].pc # "idle" => proc = "serving"
    BY <1>2, NewCalls DEF RouteInv
  <1> QED BY <1>1, <1>2, <1>3, <1>4, <1>5, <1>6, Zenon DEF RouteInv

(* An answer is recorded: new ids are added, and an id is only forgotten   *)
(* when it is gone.                                                        *)
LEMMA RecordStep ==
  ASSUME RouteInv, NEW i \in Calls, record(i)
  PROVE  RouteInv'
  <1>1. calls' = [calls EXCEPT ![i] = Idle] /\ UNCHANGED <<downstream, lost, proc>>
    BY DEF record, processVars
  <1>2. calls' = [j \in Calls |-> calls'[j]] /\ calls'[i] = Idle
        /\ \A j \in Calls \ {i} : calls'[j] = calls[j]
    BY <1>1 DEF RouteInv
  <1>3. \A j \in Calls : CallInv(calls'[j], downstream)
    BY <1>2, NewCalls DEF RouteInv, CallInv, Executed
  <1>4. \A j \in Calls : calls'[j].pc # "idle" => proc = "serving"
    BY <1>2, NewCalls DEF RouteInv
  <1>5. downstream_ids' \subseteq DownstreamIds
    BY DEF record, RouteInv, CallInv, Executed
  <1>6. \A d \in downstream_ids : downstream[d] = "live" => d \in downstream_ids'
    BY DEF record, RouteInv, CallInv, Executed
  <1>7. Born(Calls) \subseteq downstream_ids' \cup Born(Calls)'
    <2>1. Born({i}) \subseteq downstream_ids'
      <3>1. CASE calls[i].op \in Creates
        <4>1. Born({i}) \subseteq calls[i].result
          BY DEF Born
        <4>2. downstream_ids' = downstream_ids \cup calls[i].result
          BY <3>1 DEF record, Creates, Removes
        <4> QED BY <4>1, <4>2
      <3>2. CASE calls[i].op \notin Creates
        BY <3>2 DEF Born
      <3> QED BY <3>1, <3>2
    <2> QED BY <2>1, <1>2 DEF Born
  <1>8. \A d \in DownstreamIds : downstream[d] = "live" /\ is_downstream(d) => is_downstream(d)'
    BY <1>6 DEF is_downstream
  <1>9. \A d : d \in downstream_ids' => is_downstream(d)'
    BY DEF is_downstream
  <1>10. Covered(proc) \subseteq DownstreamIds
    BY DEF Covered, DownstreamIds
  <1> QED BY <1>1, <1>2, <1>3, <1>4, <1>5, <1>7, <1>8, <1>9, <1>10 DEF RouteInv

(* What a request may do downstream: it creates what was not there, and    *)
(* removes for good.                                                       *)
LEMMA OutcomeFacts ==
  ASSUME downstream \in [DownstreamIds -> {"unborn", "live", "gone"}],
         NEW op, NEW id, NEW filter, NEW o \in Outcomes(op, id, filter)
  PROVE  /\ o.after \in [DownstreamIds -> {"unborn", "live", "gone"}]
         /\ op \in Creates => o.ids \subseteq DownstreamIds
         /\ \A d \in DownstreamIds :
              /\ o.after[d] = "live" => \/ downstream[d] = "live"
                                        \/ op \in Creates /\ d \in o.ids
              /\ downstream[d] # "unborn" => o.after[d] # "unborn"
              /\ downstream[d] = "gone" => o.after[d] = "gone"
              /\ (op \in Removes /\ d = id /\ downstream[d] # "unborn") => o.after[d] = "gone"
  <1> DEFINE born(ids) == {[after |-> [downstream EXCEPT ![d] = "live"], ids |-> {d}] :
                             d \in {e \in ids : downstream[e] = "unborn"}}
             removed == {id} \cup {d \in DownstreamContainers : Parent[d] = id}
             after == [d \in DownstreamIds |->
                         IF d \in Live(removed) THEN "gone" ELSE downstream[d]]
  <1> USE DEF DownstreamIds
  <1>1. CASE op \in Creates
    <2>1. \E ids : ids \subseteq DownstreamIds /\ o \in born(ids)
      <3>1. CASE op = "run_pod_sandbox"
        <4>1. o \in born(DownstreamPods)
          BY <3>1 DEF Outcomes, Removes
        <4> QED BY <4>1
      <3>2. CASE op = "create_container"
        <4>1. o \in born({d \in DownstreamContainers : Parent[d] = id /\ downstream[id] = "live"})
          BY <3>2 DEF Outcomes, Removes
        <4> QED BY <4>1
      <3> QED BY <1>1, <3>1, <3>2 DEF Creates
    <2>2. PICK d \in DownstreamIds :
            /\ downstream[d] = "unborn"
            /\ o = [after |-> [downstream EXCEPT ![d] = "live"], ids |-> {d}]
      BY <2>1
    <2> QED BY <1>1, <2>2 DEF Creates, Removes
  <1>2. CASE op \in Removes
    <2>1. o = [after |-> after, ids |-> {}]
      BY <1>2 DEF Outcomes, Removes
    <2> QED BY <1>2, <2>1 DEF Live, Creates, Removes
  <1>3. CASE op \notin Creates \cup Removes
    <2>1. o.after = downstream
      BY <1>3 DEF Outcomes, Creates, Removes
    <2> QED BY <1>3, <2>1
  <1> QED BY <1>1, <1>2, <1>3

(* A step of the downstream runtime keeps the invariant when nothing that  *)
(* is known of its pods and containers is lost.                            *)
LEMMA DownstreamStep ==
  ASSUME RouteInv,
         downstream' \in [DownstreamIds -> {"unborn", "live", "gone"}],
         UNCHANGED <<downstream_ids, proc>>,
         calls' = [j \in Calls |-> calls'[j]],
         \A j \in Calls : CallInv(calls'[j], downstream') /\ Keeps(calls[j], calls'[j]),
         \A j \in Calls : calls'[j].pc # "idle" => proc = "serving",
         \A d \in DownstreamIds : downstream'[d] = "live" =>
           /\ d \in lost => d \in lost'
           /\ downstream[d] # "live" => d \in lost' \/ d \in Born(Calls)'
  PROVE  RouteInv'
  <1>1. Born(Calls) \subseteq Born(Calls)'
    BY DEF Born, Keeps, Executed
  <1>2. \A d : is_downstream(d)' = is_downstream(d)
    BY DEF is_downstream
  <1>3. Covered(proc) \subseteq DownstreamIds
    BY DEF Covered, DownstreamIds
  <1> QED BY <1>1, <1>2, <1>3 DEF RouteInv

(* The downstream runtime executes a request of a handler. *)
LEMMA ExecuteStep ==
  ASSUME RouteInv, NEW i \in Calls, downstream_executes(i)
  PROVE  RouteInv'
  <1>1. PICK o : /\ o \in Outcomes(calls[i].op, calls[i].id, calls[i].filter)
                 /\ downstream' = o.after
                 /\ lost' = lost \cap Live(DownstreamIds)'
                 /\ UNCHANGED <<downstream_ids, proc>>
                 /\ calls' = Still([calls EXCEPT ![i].pc = "executed", ![i].result = o.ids,
                                      ![i].todo = IF calls[i].op \in Lists THEN Pods ELSE {}])
    BY Zenon DEF downstream_executes, processVars
  <1>2. calls[i].pc = "sent" /\ proc = "serving" /\ CallInv(calls[i], downstream)
    BY DEF downstream_executes, RouteInv
  <1> DEFINE ids == o.ids
             todo == IF calls[i].op \in Lists THEN Pods ELSE {}
             old == calls[i]
             a == [old EXCEPT !.pc = "executed"]
             b == [a EXCEPT !.result = ids]
             c == [b EXCEPT !.todo = todo]
             cs == [calls EXCEPT ![i].pc = "executed", ![i].result = ids, ![i].todo = todo]
  <1>6. calls' = Still(cs)
    BY <1>1
  <1> HIDE DEF todo, ids
  <1>3. cs[i] = c /\ \A j \in Calls \ {i} : cs[j] = calls[j]
    BY DEF RouteInv
  <1> HIDE DEF cs
  <1>4. IsCall(c) /\ c.pc = "executed" /\ c.op = calls[i].op /\ c.id = calls[i].id
        /\ c.result = ids
    <2>1. IsCall(old)
      BY <1>2 DEF CallInv
    <2> HIDE DEF old, b, c
    <2>2. IsCall(a) /\ a.pc = "executed" /\ a.op = old.op /\ a.id = old.id
      BY ONLY <2>1 DEF IsCall
    <2> HIDE DEF a
    <2>3. IsCall(b) /\ b.pc = a.pc /\ b.op = a.op /\ b.id = a.id /\ b.result = ids
      BY ONLY <2>2 DEF IsCall, b
    <2>4. Alike(b, c)
      BY ONLY <2>3 DEF IsCall, Alike, c
    <2> QED BY <2>2, <2>3, <2>4 DEF Alike, old
  <1> HIDE DEF a, b, c, old
  <1>5. \A j \in Calls : IsCall(cs[j])
    BY <1>3, <1>4 DEF RouteInv, CallInv
  <1>7. calls' = [j \in Calls |-> calls'[j]] /\ \A j \in Calls : Alike(cs[j], calls'[j])
    BY <1>6, <1>5, StillAlike
  <1>8. /\ IsCall(calls'[i]) /\ calls'[i].pc = "executed" /\ calls'[i].op = calls[i].op
        /\ calls'[i].id = calls[i].id /\ calls'[i].result = ids
        /\ \A j \in Calls \ {i} : Alike(calls[j], calls'[j])
    BY <1>3, <1>4, <1>7 DEF Alike
  <1>9. downstream \in [DownstreamIds -> {"unborn", "live", "gone"}]
    BY DEF RouteInv
  <1>10. /\ downstream' \in [DownstreamIds -> {"unborn", "live", "gone"}]
         /\ \A d \in DownstreamIds : downstream[d] # "unborn" => downstream'[d] # "unborn"
         /\ \A d \in DownstreamIds : downstream[d] = "gone" => downstream'[d] = "gone"
    BY ONLY <1>1, <1>9, OutcomeFacts
  <1>11. \A j \in Calls : CallInv(calls'[j], downstream') /\ Keeps(calls[j], calls'[j])
    <2> TAKE j \in Calls
    <2>1. CASE j = i
      <3>1. calls[i].op \in Creates => ids \subseteq DownstreamIds
        BY <1>1, <1>9, OutcomeFacts DEF ids
      <3>2. calls[i].op \in Removes =>
              calls[i].id \in DownstreamIds /\ downstream'[calls[i].id] = "gone"
        <4>1. calls[i].op \in Removes =>
                calls[i].id \in DownstreamIds /\ downstream[calls[i].id] # "unborn"
          BY <1>2 DEF CallInv
        <4> QED BY <4>1, <1>1, <1>9, OutcomeFacts
      <3>3. CallInv(calls'[i], downstream')
        BY <1>8, <3>1, <3>2 DEF CallInv
      <3>4. Keeps(calls[i], calls'[i])
        BY <1>2 DEF Keeps, Executed
      <3> QED BY <2>1, <3>3, <3>4
    <2>2. CASE j # i
      <3>1. CallInv(calls[j], downstream) /\ Alike(calls[j], calls'[j])
        BY <2>2, <1>8 DEF RouteInv
      <3>2. Keeps(calls[j], calls'[j])
        BY <3>1 DEF Keeps, Alike
      <3>3. CallInv(calls'[j], downstream')
        BY <3>1, <1>10 DEF CallInv, Alike
      <3> QED BY <3>2, <3>3
    <2> QED BY <2>1, <2>2
  <1>12. \A j \in Calls : calls'[j].pc # "idle" => proc = "serving"
    BY <1>2
  <1>13. \A d \in DownstreamIds : downstream'[d] = "live" =>
           /\ d \in lost => d \in lost'
           /\ downstream[d] # "live" => d \in lost' \/ d \in Born(Calls)'
    <2>1. calls[i].op \in Creates => ids \subseteq Born(Calls)'
      BY <1>8 DEF Born
    <2>2. \A d \in DownstreamIds : downstream'[d] = "live" =>
            downstream[d] = "live" \/ (calls[i].op \in Creates /\ d \in ids)
      BY <1>1, <1>9, OutcomeFacts DEF ids
    <2>3. lost' = lost \cap {d \in DownstreamIds : downstream'[d] = "live"}
      BY <1>1 DEF Live
    <2> QED BY <2>1, <2>2, <2>3
  <1>14. UNCHANGED <<downstream_ids, proc>>
    BY <1>1
  <1> QED BY <1>7, <1>10, <1>11, <1>12, <1>13, <1>14, DownstreamStep

(* A request without a handler is executed late, or never. *)
LEMMA OrphanStep ==
  ASSUME RouteInv, NEW r \in orphans, orphan_ends(r)
  PROVE  RouteInv'
  <1>1. PICK o \in Outcomes(r.op, r.id, None) \cup {[after |-> downstream, ids |-> {}]} :
          /\ downstream' = o.after
          /\ lost' = (lost \cup o.ids) \cap Live(DownstreamIds)'
          /\ UNCHANGED <<downstream_ids, proc>>
          /\ calls' = Still(calls)
    BY Zenon DEF orphan_ends, processVars
  <1>2. calls' = [j \in Calls |-> calls'[j]] /\ \A j \in Calls : Alike(calls[j], calls'[j])
    BY <1>1, StillAlike DEF RouteInv, CallInv
  <1>3. downstream \in [DownstreamIds -> {"unborn", "live", "gone"}]
    BY DEF RouteInv
  <1>4. /\ o.after \in [DownstreamIds -> {"unborn", "live", "gone"}]
        /\ \A d \in DownstreamIds :
             /\ o.after[d] = "live" => downstream[d] = "live" \/ d \in o.ids
             /\ downstream[d] # "unborn" => o.after[d] # "unborn"
             /\ downstream[d] = "gone" => o.after[d] = "gone"
    BY <1>3, OutcomeFacts
  <1>5. \A j \in Calls : CallInv(calls'[j], downstream') /\ Keeps(calls[j], calls'[j])
    <2> TAKE j \in Calls
    <2>1. CallInv(calls[j], downstream) /\ Alike(calls[j], calls'[j])
      BY <1>2 DEF RouteInv
    <2> QED BY <2>1, <1>1, <1>4 DEF CallInv, Keeps, Alike
  <1>6. \A j \in Calls : calls'[j].pc # "idle" => proc = "serving"
    BY <1>2 DEF RouteInv, Alike
  <1>7. \A d \in DownstreamIds : downstream'[d] = "live" =>
          /\ d \in lost => d \in lost'
          /\ downstream[d] # "live" => d \in lost' \/ d \in Born(Calls)'
    BY <1>1, <1>4 DEF Live
  <1>8. downstream' \in [DownstreamIds -> {"unborn", "live", "gone"}]
    BY <1>1, <1>4
  <1> QED BY <1>1, <1>2, <1>5, <1>6, <1>7, <1>8, DownstreamStep

(* Startup lists what lives downstream before it serves; when the process  *)
(* ends, nothing is known and nothing is served.                           *)
LEMMA ProcessStep ==
  ASSUME RouteInv,
         connect \/ bind \/ new_pods \/ new_containers \/ new_fails \/ shutdown \/ crash
  PROVE  RouteInv'
  <1> USE DEF serviceVars
  <1>1. CASE connect \/ bind \/ new_fails \/ shutdown
    <2>1. UNCHANGED <<downstream, calls>> /\ proc' \in {"down", "connected", "bound"}
      BY <1>1 DEF connect, bind, new_fails, shutdown, End
    <2>2. downstream_ids' \subseteq DownstreamIds
      BY <1>1 DEF connect, bind, new_fails, shutdown, End, RouteInv
    <2>3. \A i \in Calls : calls[i].pc = "idle"
      BY <1>1 DEF connect, bind, new_fails, shutdown, RouteInv
    <2>4. Covered(proc)' = {}
      BY <2>1 DEF Covered
    <2> QED BY <2>1, <2>2, <2>3, <2>4 DEF RouteInv
  <1>2. CASE crash
    <2>1. /\ UNCHANGED downstream /\ proc' = "down" /\ downstream_ids' = {}
          /\ calls' = [i \in Calls |-> Idle]
      BY <1>2 DEF crash, End
    <2>2. \A i \in Calls : CallInv(calls'[i], downstream') /\ calls'[i].pc = "idle"
      BY <2>1, NewCalls DEF CallInv, Executed
    <2>3. Covered(proc)' = {}
      BY <2>1 DEF Covered
    <2> QED BY <2>1, <2>2, <2>3 DEF RouteInv
  <1>3. ASSUME NEW from \in {"bound", "listed"}, NEW ids \in SUBSET DownstreamIds, NEW to,
               new_list(from, ids, to), Covered(to) \subseteq Covered(from) \cup ids
        PROVE  RouteInv'
    <2>1. /\ proc = from /\ proc' = to /\ UNCHANGED <<downstream, calls>>
          /\ downstream_ids' = downstream_ids \cup Live(ids) /\ lost' = lost \ ids
      BY <1>3 DEF new_list
    <2>2. \A i \in Calls : calls[i].pc = "idle"
      BY <2>1 DEF RouteInv
    <2>3. downstream_ids' \subseteq DownstreamIds
      BY <2>1 DEF RouteInv, Live
    <2>4. Born(Calls) = {}
      BY <2>2 DEF Born
    <2>5. ASSUME NEW d \in Covered(to), downstream[d] = "live"
          PROVE  is_downstream(d)' \/ d \in lost'
      <3>1. CASE d \in ids
        BY <2>1, <2>5, <3>1 DEF Live, is_downstream
      <3>2. CASE d \notin ids
        BY <1>3, <2>1, <2>4, <2>5, <3>2 DEF RouteInv, is_downstream
      <3> QED BY <3>1, <3>2
    <2> QED BY <2>1, <2>2, <2>3, <2>5 DEF RouteInv
  <1>4. CASE new_pods
    BY <1>3, <1>4 DEF new_pods, Covered, DownstreamIds
  <1>5. CASE new_containers
    BY <1>3, <1>5 DEF new_containers, Covered, DownstreamIds
  <1> QED BY <1>1, <1>2, <1>4, <1>5

(* RouteInv is inductive. *)
LEMMA RouteInitially == Init => RouteInv
  <1> SUFFICES ASSUME Init PROVE RouteInv
    OBVIOUS
  <1>1. downstream \in [DownstreamIds -> {"unborn", "live", "gone"}]
    BY DEF Init
  <1>2. calls = [i \in Calls |-> Idle] /\ downstream_ids = {} /\ proc = "down"
    BY DEF Init
  <1>3. \A i \in Calls : CallInv(calls[i], downstream) /\ calls[i].pc = "idle"
    BY <1>2, NewCalls DEF CallInv, Executed
  <1>4. Covered(proc) = {}
    BY <1>2 DEF Covered
  <1> QED BY <1>1, <1>2, <1>3, <1>4 DEF RouteInv

(* No step of a handler, of the downstream runtime or of the process       *)
(* breaks RouteInv.                                                        *)
LEMMA RouteInductive == RouteInv /\ [Next]_vars => RouteInv'
  <1> SUFFICES ASSUME RouteInv, [Next]_vars PROVE RouteInv'
    OBVIOUS
  <1>1. CASE UNCHANGED vars
    BY <1>1, CallStep DEF vars, processVars, RouteInv, Keeps
  <1>2. ASSUME NEW i \in Calls, request(i)
        PROVE  RouteInv'
    BY <1>2, RequestStep
  <1>3. ASSUME NEW i \in Calls,
               \/ upstream_step(i) \/ upstream_reply(i) \/ acquire(i) \/ downstream_answers(i)
               \/ list_upstream(i) \/ list_reply(i)
        PROVE  RouteInv'
    BY <1>3, HandlerStep
  <1>4. ASSUME NEW i \in Calls, downstream_executes(i)
        PROVE  RouteInv'
    BY <1>4, ExecuteStep
  <1>5. ASSUME NEW i \in Calls, downstream_fails(i) \/ cancel(i)
        PROVE  RouteInv'
    BY <1>5, DropStep
  <1>6. ASSUME NEW i \in Calls, record(i)
        PROVE  RouteInv'
    BY <1>6, RecordStep
  <1>7. ASSUME NEW r \in orphans, orphan_ends(r)
        PROVE  RouteInv'
    BY <1>7, OrphanStep
  <1>8. CASE connect \/ bind \/ new_pods \/ new_containers \/ new_fails \/ shutdown \/ crash
    BY <1>8, ProcessStep
  <1> QED BY <1>1, <1>2, <1>3, <1>4, <1>5, <1>6, <1>7, <1>8 DEF Next

(* Whatever its id looks like, what lives downstream is routed downstream  *)
(* unless its handler is on the way or gone, and ids of the pool never are *)
(* - whichever requests are cancelled, fail or outlive their handlers, and *)
(* however often the process is restarted.                                 *)
THEOREM Routing == Spec => []RoutedHome
  <1>1. RouteInv => RoutedHome
    BY PoolIdsStay DEF RouteInv, RoutedHome, Covered, Live
  <1> QED BY <1>1, RouteInitially, RouteInductive, PTL DEF Spec

-----------------------------------------------------------------------------
(* The line for the client of the downstream runtime *)

(* Handlers in these states have to be in the line. *)
Waiting == {"queued", "sent", "executed"}

(* ClientIsInUse is inductive when nobody is in the line twice. *)
LineInv ==
  /\ mutex \in Seq(Calls)
  /\ \A k, m \in DOMAIN mutex : mutex[k] = mutex[m] => k = m
  /\ ClientIsInUse

(* Whoever leaves the line leaves it for good; the others move up, and     *)
(* nobody becomes the first who was not the first or the second.           *)
LEMMA ReleaseFacts ==
  ASSUME mutex \in Seq(Calls), \A k, m \in DOMAIN mutex : mutex[k] = mutex[m] => k = m,
         NEW i \in Calls, Release(i)
  PROVE  /\ mutex' \in Seq(Calls)
         /\ \A k, m \in DOMAIN mutex' : mutex'[k] = mutex'[m] => k = m
         /\ ToSet(mutex') = ToSet(mutex) \ {i}
         /\ \A k \in DOMAIN mutex' :
              \E m \in DOMAIN mutex : mutex'[k] = mutex[m] /\ (m = 1 => k = 1)
  <1>0. DOMAIN mutex = 1..Len(mutex) /\ Len(mutex) \in Nat
    OBVIOUS
  <1>1. CASE \A k \in 1..Len(mutex) : mutex[k] # i
    <2>1. mutex' = mutex
      BY <1>1 DEF Release, RemoveFirst
    <2>2. i \notin ToSet(mutex)
      BY <1>0, <1>1 DEF ToSet
    <2> QED BY <2>1, <2>2
  <1>2. ASSUME NEW n \in 1..Len(mutex), mutex[n] = i
        PROVE  /\ mutex' \in Seq(Calls)
               /\ \A k, m \in DOMAIN mutex' : mutex'[k] = mutex'[m] => k = m
               /\ ToSet(mutex') = ToSet(mutex) \ {i}
               /\ \A k \in DOMAIN mutex' :
                    \E m \in DOMAIN mutex : mutex'[k] = mutex[m] /\ (m = 1 => k = 1)
    <2>1. {k \in 1..Len(mutex) : mutex[k] = i} = {n}
      BY <1>0, <1>2
    <2>2. Min({n}) = n
      BY DEF Min
    <2>3. SelectInSeq(mutex, LAMBDA v : v = i) = n
      BY <2>1, <2>2 DEF SelectInSeq
    <2>4. mutex' = SubSeq(mutex, 1, n - 1) \o SubSeq(mutex, n + 1, Len(mutex))
      BY <1>2, <2>3 DEF Release, RemoveFirst, RemoveAt
    <2> DEFINE a == SubSeq(mutex, 1, n - 1)
               b == SubSeq(mutex, n + 1, Len(mutex))
    <2>5. /\ a \in Seq(Calls) /\ Len(a) = n - 1
          /\ \A k \in 1..n-1 : a[k] = mutex[k]
      BY <1>0, SubSeqProperties
    <2>6. /\ b \in Seq(Calls) /\ Len(b) = Len(mutex) - n
          /\ \A k \in 1..Len(mutex) - n : b[k] = mutex[n + k]
      <3>1. \A k \in n + 1 .. Len(mutex) : mutex[k] \in Calls
        BY <1>0
      <3>2. n + 1 \in Int /\ Len(mutex) \in Int
        BY <1>0
      <3>3. /\ b \in Seq(Calls)
            /\ Len(b) = IF n + 1 <= Len(mutex) THEN Len(mutex) - (n + 1) + 1 ELSE 0
            /\ \A k \in 1 .. Len(mutex) - (n + 1) + 1 : b[k] = mutex[n + 1 + k - 1]
        BY <3>1, <3>2, SubSeqProperties
      <3> HIDE DEF b
      <3>4. Len(b) = Len(mutex) - n
        <4> DEFINE z == Len(b)
                   l == Len(mutex)
        <4>1. z = (IF n + 1 <= l THEN l - (n + 1) + 1 ELSE 0) /\ n \in 1..l /\ l \in Nat
          BY <3>3, <1>0, Zenon
        <4> HIDE DEF z, l
        <4>2. z = l - n
          BY ONLY <4>1
        <4> QED BY <4>2 DEF z, l
      <3>5. ASSUME NEW k \in 1..Len(mutex) - n
            PROVE  b[k] = mutex[n + k]
        <4>1. k \in 1 .. Len(mutex) - (n + 1) + 1 /\ n + 1 + k - 1 = n + k
          BY <1>0
        <4> QED BY <3>3, <4>1
      <3> QED BY <3>3, <3>4, <3>5
    <2> HIDE DEF a, b
    <2>7. /\ mutex' \in Seq(Calls) /\ Len(mutex') = Len(a) + Len(b)
          /\ \A k \in 1..Len(a) + Len(b) :
               mutex'[k] = IF k <= Len(a) THEN a[k] ELSE b[k - Len(a)]
      <3>1. a \in Seq(Calls) /\ b \in Seq(Calls) /\ mutex' = a \o b
        BY <2>4, <2>5, <2>6 DEF a, b
      <3> QED BY <3>1, ConcatProperties, Zenon
    <2>8. /\ DOMAIN mutex' = 1..Len(mutex) - 1
          /\ \A k \in 1..Len(mutex) - 1 : mutex'[k] = IF k < n THEN mutex[k] ELSE mutex[k + 1]
      <3>1. Len(mutex') = Len(mutex) - 1
        BY <1>0, <2>5, <2>6, <2>7
      <3>2. DOMAIN mutex' = 1..Len(mutex')
        BY <2>7
      <3>3. ASSUME NEW k \in 1..Len(mutex) - 1
            PROVE  mutex'[k] = IF k < n THEN mutex[k] ELSE mutex[k + 1]
        <4>1. mutex'[k] = IF k <= n - 1 THEN a[k] ELSE b[k - (n - 1)]
          <5>1. k \in 1..Len(a) + Len(b) /\ Len(a) = n - 1
            BY <1>0, <2>5, <2>6
          <5> QED BY <5>1, <2>7
        <4>2. CASE k < n
          BY <4>1, <4>2, <1>0, <2>5
        <4>3. CASE k >= n
          <5>1. k - (n - 1) \in 1..Len(mutex) - n /\ n + (k - (n - 1)) = k + 1
            BY <4>3, <1>0
          <5>2. b[k - (n - 1)] = mutex[k + 1]
            BY <5>1, <2>6
          <5> QED BY <4>1, <4>3, <5>2, <1>0
        <4> QED BY <4>2, <4>3, <1>0
      <3> QED BY <3>1, <3>2, <3>3
    <2>9. ToSet(mutex') = ToSet(mutex) \ {i}
      <3>1. \A k \in 1..Len(mutex) - 1 : mutex'[k] \in ToSet(mutex) \ {i}
        BY <1>0, <1>2, <2>8 DEF ToSet
      <3>2. ASSUME NEW m \in 1..Len(mutex), mutex[m] # i
            PROVE  \E k \in 1..Len(mutex) - 1 : mutex'[k] = mutex[m]
        <4>1. CASE m < n
          BY <4>1, <1>0, <2>8
        <4>2. CASE m > n
          <5>1. m - 1 \in 1..Len(mutex) - 1 /\ mutex'[m - 1] = mutex[m]
            BY <4>2, <1>0, <2>8
          <5> QED BY <5>1
        <4> QED BY <4>1, <4>2, <3>2, <1>2, <1>0
      <3>3. \A j : j \in ToSet(mutex) <=> \E m \in 1..Len(mutex) : mutex[m] = j
        BY <1>0 DEF ToSet
      <3>4. \A j : j \in ToSet(mutex') <=> \E k \in 1..Len(mutex) - 1 : mutex'[k] = j
        BY <2>8 DEF ToSet
      <3> QED BY <3>1, <3>2, <3>3, <3>4
    <2>10. \A k, m \in DOMAIN mutex' : mutex'[k] = mutex'[m] => k = m
      <3> DEFINE at(k) == IF k < n THEN k ELSE k + 1
      <3>1. \A k \in DOMAIN mutex' : at(k) \in DOMAIN mutex /\ mutex'[k] = mutex[at(k)]
        BY <1>0, <2>8
      <3>2. \A k, m \in DOMAIN mutex' : at(k) = at(m) => k = m
        BY <1>0, <2>8
      <3> HIDE DEF at
      <3> QED BY <3>1, <3>2
    <2>11. \A k \in DOMAIN mutex' :
             \E m \in DOMAIN mutex : mutex'[k] = mutex[m] /\ (m = 1 => k = 1)
      <3> TAKE k \in DOMAIN mutex'
      <3>1. CASE k < n
        BY <3>1, <1>0, <2>8
      <3>2. CASE k >= n
        <4>1. k + 1 \in DOMAIN mutex /\ mutex'[k] = mutex[k + 1] /\ k + 1 # 1
          BY <3>2, <1>0, <2>8
        <4> QED BY <4>1
      <3> QED BY <3>1, <3>2, <1>0, <2>8
    <2> QED BY <2>7, <2>9, <2>10, <2>11
  <1> QED BY <1>1, <1>2

(* A handler leaves the line: it gets its answer, fails or is dropped. *)
LEMMA LineLeft ==
  ASSUME LineInv, NEW i \in Calls, Release(i), calls'[i].pc \notin Waiting,
         \A j \in Calls \ {i} : calls'[j].pc = calls[j].pc
  PROVE  LineInv'
  <1>1. /\ mutex' \in Seq(Calls)
        /\ \A k, m \in DOMAIN mutex' : mutex'[k] = mutex'[m] => k = m
        /\ ToSet(mutex') = ToSet(mutex) \ {i}
        /\ \A k \in DOMAIN mutex' :
             \E m \in DOMAIN mutex : mutex'[k] = mutex[m] /\ (m = 1 => k = 1)
    BY ReleaseFacts DEF LineInv
  <1>2. \A j \in Calls : calls'[j].pc \in Waiting <=> j \in ToSet(mutex')
    BY <1>1 DEF LineInv, ClientIsInUse, Waiting
  <1>3. ASSUME NEW k \in DOMAIN mutex', calls'[mutex'[k]].pc # "queued"
        PROVE  k = 1
    <2>1. mutex'[k] \in Calls \ {i}
      <3>1. mutex'[k] \in ToSet(mutex')
        BY DEF ToSet
      <3>2. mutex'[k] \in Calls
        BY <1>1
      <3> QED BY <1>1, <3>1, <3>2
    <2>2. PICK m \in DOMAIN mutex : mutex'[k] = mutex[m] /\ (m = 1 => k = 1)
      BY <1>1
    <2> QED BY <1>3, <2>1, <2>2 DEF LineInv, ClientIsInUse
  <1> QED BY <1>1, <1>2, <1>3 DEF LineInv, ClientIsInUse, Waiting

(* A new request joins the line at its end. *)
LEMMA LineJoined ==
  ASSUME LineInv, NEW i \in Calls, mutex' = Append(mutex, i),
         calls[i].pc \notin Waiting, calls'[i].pc = "queued",
         \A j \in Calls \ {i} : calls'[j].pc = calls[j].pc
  PROVE  LineInv'
  <1>0. mutex \in Seq(Calls) /\ DOMAIN mutex = 1..Len(mutex) /\ Len(mutex) \in Nat
    BY DEF LineInv
  <1>1. /\ mutex' \in Seq(Calls) /\ DOMAIN mutex' = 1..Len(mutex) + 1
        /\ \A k \in 1..Len(mutex) : mutex'[k] = mutex[k]
        /\ mutex'[Len(mutex) + 1] = i
    BY <1>0, AppendProperties
  <1>2. i \notin ToSet(mutex)
    BY DEF LineInv, ClientIsInUse, Waiting
  <1>3. \A k \in 1..Len(mutex) : mutex[k] # i /\ mutex[k] \in Calls
    BY <1>0, <1>2 DEF ToSet
  <1>4. \A k, m \in DOMAIN mutex' : mutex'[k] = mutex'[m] => k = m
    BY <1>0, <1>1, <1>3 DEF LineInv
  <1>5. ToSet(mutex') = ToSet(mutex) \cup {i}
    <2>1. \A k \in 1..Len(mutex) + 1 : k \in 1..Len(mutex) \/ k = Len(mutex) + 1
      BY <1>0
    <2>2. 1..Len(mutex) \subseteq 1..Len(mutex) + 1 /\ Len(mutex) + 1 \in 1..Len(mutex) + 1
      BY <1>0
    <2> QED BY <1>0, <1>1, <2>1, <2>2 DEF ToSet
  <1>6. \A j \in Calls : calls'[j].pc \in Waiting <=> j \in ToSet(mutex')
    BY <1>5 DEF LineInv, ClientIsInUse, Waiting
  <1>7. \A k \in DOMAIN mutex' : calls'[mutex'[k]].pc # "queued" => k = 1
    BY <1>0, <1>1, <1>3 DEF LineInv, ClientIsInUse
  <1> QED BY <1>1, <1>4, <1>6, <1>7 DEF LineInv, ClientIsInUse, Waiting

(* The line stays as it is: nobody begins or ceases to need the client,    *)
(* and only the first in line is given it.                                 *)
LEMMA LineStays ==
  ASSUME LineInv, mutex' = mutex,
         \A j \in Calls : /\ calls'[j].pc \in Waiting <=> calls[j].pc \in Waiting
                          /\ calls'[j].pc # "queued" =>
                               calls[j].pc # "queued" \/ mutex[1] = j
  PROVE  LineInv'
  <1>1. \A k \in DOMAIN mutex : mutex[k] \in Calls /\ 1 \in DOMAIN mutex
    BY DEF LineInv
  <1>2. \A k \in DOMAIN mutex : calls'[mutex[k]].pc # "queued" => k = 1
    BY <1>1 DEF LineInv, ClientIsInUse
  <1> QED BY <1>2 DEF LineInv, ClientIsInUse, Waiting

-----------------------------------------------------------------------------
(* What lists find *)

(* What a list reports under a filter is in the state that it asks for, or *)
(* in none when it asks for exited containers.                             *)
Matches(item, filter) ==
  \/ item.state = filter
  \/ filter = "ContainerExited" /\ item.state = "ContainerUnknown"

(* What has existed since the request of c began has been found downstream *)
(* or in the pool, or belongs to a pod that is still to be looked at.      *)
Found(c) ==
  \A id \in c.since :
    \/ id \in c.result
    \/ \E item \in c.items : item.id = id
    \/ \E p \in c.todo : id \in {pod_prefix(p), container_prefix(p)}

(* What a call knows about the pods and containers ex that exist. *)
Noted(c, ex) ==
  /\ c.pc = "idle" => c.since = {}
  /\ c.since \subseteq ex \cap Listed(c.op)
  /\ c.todo \subseteq Pods /\ (c.op \notin Lists => c.todo = {})
  /\ c.op = "list_pod_sandbox" => c.filter \in {None, "SandboxReady", "SandboxNotready"}
  /\ c.op = "list_containers" =>
       c.filter \in {None, "ContainerCreated", "ContainerRunning", "ContainerExited",
                     "ContainerUnknown"}
  /\ c.filter # None => \A item \in c.items : Matches(item, c.filter)
  /\ (c.pc = "executed" /\ c.op \in Lists /\ c.filter = None) => Found(c)

NoteInv == \A i \in Calls : Noted(calls[i], Existing)

(* Handlers change single fields of their call. *)
LEMMA CallRecords ==
  ASSUME NEW c, IsCall(c), NEW v
  PROVE  /\ [c EXCEPT !.pc = v] =
              [pc |-> v, op |-> c.op, id |-> c.id, filter |-> c.filter, result |-> c.result,
               items |-> c.items, todo |-> c.todo, since |-> c.since]
         /\ [c EXCEPT !.result = v] =
              [pc |-> c.pc, op |-> c.op, id |-> c.id, filter |-> c.filter, result |-> v,
               items |-> c.items, todo |-> c.todo, since |-> c.since]
         /\ [c EXCEPT !.items = v] =
              [pc |-> c.pc, op |-> c.op, id |-> c.id, filter |-> c.filter, result |-> c.result,
               items |-> v, todo |-> c.todo, since |-> c.since]
         /\ [c EXCEPT !.todo = v] =
              [pc |-> c.pc, op |-> c.op, id |-> c.id, filter |-> c.filter, result |-> c.result,
               items |-> c.items, todo |-> v, since |-> c.since]
         /\ [c EXCEPT !.since = v] =
              [pc |-> c.pc, op |-> c.op, id |-> c.id, filter |-> c.filter, result |-> c.result,
               items |-> c.items, todo |-> c.todo, since |-> v]
  BY DEF IsCall

(* Calls take note of what a step ends, and keep everything else. *)
LEMMA StillNoted ==
  ASSUME NEW cs, \A j \in Calls : IsCall(cs[j]) /\ Noted(cs[j], Existing), calls' = Still(cs)
  PROVE  NoteInv' /\ \A j \in Calls : calls'[j].pc = cs[j].pc
  <1>1. ASSUME NEW j \in Calls
        PROVE  Noted(calls'[j], Existing') /\ calls'[j].pc = cs[j].pc
    <2> DEFINE c == cs[j]
               s == c.since \cap Existing'
               b == [c EXCEPT !.since = s]
    <2>1. calls'[j] = b
      BY DEF Still
    <2>2. IsCall(c) /\ Noted(c, Existing) /\ s \subseteq c.since /\ s \subseteq Existing'
      OBVIOUS
    <2> HIDE DEF c, s
    <2>3. b = [pc |-> c.pc, op |-> c.op, id |-> c.id, filter |-> c.filter, result |-> c.result,
               items |-> c.items, todo |-> c.todo, since |-> s]
      BY <2>2, CallRecords
    <2> HIDE DEF b
    <2>4. /\ b.pc = c.pc /\ b.op = c.op /\ b.filter = c.filter /\ b.result = c.result
          /\ b.items = c.items /\ b.todo = c.todo /\ b.since = s
      BY <2>3
    <2>5. Noted(b, Existing')
      <3>1. Found(c) => Found(b)
        BY <2>2, <2>4 DEF Found
      <3> QED BY <2>2, <2>4, <3>1 DEF Noted
    <2> QED BY <2>1, <2>4, <2>5 DEF c
  <1> QED BY <1>1 DEF NoteInv

(* A step of one call, while the pods and containers stay. *)
LEMMA OneCallNoted ==
  ASSUME RouteInv, NoteInv, UNCHANGED <<state, downstream>>, NEW i \in Calls, NEW c,
         calls' = [calls EXCEPT ![i] = c], Noted(c, Existing)
  PROVE  NoteInv' /\ calls'[i] = c /\ \A j \in Calls \ {i} : calls'[j] = calls[j]
  <1>1. calls'[i] = c /\ \A j \in Calls \ {i} : calls'[j] = calls[j]
    BY DEF RouteInv
  <1>2. Existing' = Existing
    BY DEF Existing
  <1> QED BY <1>1, <1>2 DEF NoteInv

(* Free slots know nothing, and new requests what is there. *)
LEMMA NewNoted ==
  /\ \A ex : Noted(Idle, ex)
  /\ \A op, id, filter :
       (/\ op = "list_pod_sandbox" => filter \in {None, "SandboxReady", "SandboxNotready"}
        /\ op = "list_containers" =>
             filter \in {None, "ContainerCreated", "ContainerRunning", "ContainerExited",
                         "ContainerUnknown"})
         => Noted(Fresh(op, id, filter), Existing)
  <1>1. ASSUME NEW ex PROVE Noted(Idle, ex)
    <2>1. /\ Idle.pc = "idle" /\ Idle.op = None /\ Idle.filter = None /\ Idle.since = {}
          /\ Idle.todo = {} /\ Idle.items = {}
      BY DEF Idle
    <2> QED BY <2>1 DEF Noted
  <1>2. ASSUME NEW op, NEW id, NEW filter,
               op = "list_pod_sandbox" => filter \in {None, "SandboxReady", "SandboxNotready"},
               op = "list_containers" =>
                 filter \in {None, "ContainerCreated", "ContainerRunning", "ContainerExited",
                             "ContainerUnknown"}
        PROVE  Noted(Fresh(op, id, filter), Existing)
    <2> DEFINE c == Fresh(op, id, filter)
    <2>1. /\ c.pc = "queued" /\ c.op = op /\ c.filter = filter /\ c.todo = {} /\ c.items = {}
          /\ c.since = IF filter = None THEN Existing \cap Listed(op) ELSE {}
      BY DEF Fresh
    <2> HIDE DEF c
    <2>2. Noted(c, Existing)
      BY <1>2, <2>1 DEF Noted
    <2> QED BY <2>2 DEF c
  <1> QED BY <1>1, <1>2

(* The two invariants together; RouteInv is an invariant already. *)
ServiceInv == NoteInv /\ LineInv

(* A request that is sent on joins the line. *)
LEMMA ForwardNoted ==
  ASSUME RouteInv, ServiceInv, NEW i \in Calls, Ready(i), NEW op, NEW id, NEW filter,
         forward(i, op, id, filter),
         op = "list_pod_sandbox" => filter \in {None, "SandboxReady", "SandboxNotready"},
         op = "list_containers" =>
           filter \in {None, "ContainerCreated", "ContainerRunning", "ContainerExited",
                       "ContainerUnknown"}
  PROVE  ServiceInv'
  <1> DEFINE c == IF op \in Creates \cup Removes \cup Lists
                  THEN Fresh(op, id, filter) ELSE Fresh("other", None, None)
  <1>1. /\ UNCHANGED <<state, downstream>> /\ calls' = [calls EXCEPT ![i] = c]
        /\ mutex' = Append(mutex, i)
    BY DEF forward
  <1>2. Noted(c, Existing) /\ c.pc = "queued"
    BY NewNoted, NewCalls
  <1> HIDE DEF c
  <1>3. NoteInv' /\ calls'[i] = c /\ \A j \in Calls \ {i} : calls'[j] = calls[j]
    BY <1>1, <1>2, OneCallNoted DEF ServiceInv
  <1>4. LineInv'
    BY <1>1, <1>2, <1>3, LineJoined DEF ServiceInv, Ready, Waiting
  <1> QED BY <1>3, <1>4 DEF ServiceInv

(* A request to the pool does not need the client. *)
LEMMA UpstreamNoted ==
  ASSUME RouteInv, ServiceInv, NEW i \in Calls, Ready(i), NEW op, NEW id, NEW valid,
         op \notin Lists, upstream(i, op, id, valid)
  PROVE  ServiceInv'
  <1>1. UNCHANGED <<downstream, mutex>>
    BY DEF upstream
  <1>2. \/ UNCHANGED <<calls, state>>
        \/ calls' = Still(calls)
        \/ /\ calls' = [calls EXCEPT ![i] = [Fresh(op, id, None) EXCEPT !.pc = "upstream"]]
           /\ UNCHANGED state
    BY DEF upstream
  <1>3. CASE UNCHANGED <<calls, state>>
    <2>1. Existing' = Existing
      BY <1>1, <1>3 DEF Existing
    <2> QED BY <1>1, <1>3, <2>1, LineStays DEF ServiceInv, NoteInv
  <1>4. CASE calls' = Still(calls)
    <2>1. \A j \in Calls : IsCall(calls[j]) /\ Noted(calls[j], Existing)
      BY DEF RouteInv, CallInv, ServiceInv, NoteInv
    <2>2. NoteInv' /\ \A j \in Calls : calls'[j].pc = calls[j].pc
      BY <1>4, <2>1, StillNoted
    <2> QED BY <1>1, <2>2, LineStays DEF ServiceInv
  <1>5. CASE /\ calls' = [calls EXCEPT ![i] = [Fresh(op, id, None) EXCEPT !.pc = "upstream"]]
             /\ UNCHANGED state
    <2> DEFINE f == Fresh(op, id, None)
               c == [f EXCEPT !.pc = "upstream"]
    <2>1. IsCall(f) /\ Noted(f, Existing)
      BY NewCalls, NewNoted DEF Lists
    <2>2. f.op \notin Lists /\ f.pc = "queued"
      BY DEF Fresh
    <2> HIDE DEF f
    <2>3. c = [pc |-> "upstream", op |-> f.op, id |-> f.id, filter |-> f.filter,
               result |-> f.result, items |-> f.items, todo |-> f.todo, since |-> f.since]
      BY <2>1, CallRecords
    <2>4. calls' = [calls EXCEPT ![i] = c]
      BY <1>5 DEF f
    <2> HIDE DEF c
    <2>5. c.pc = "upstream" /\ Noted(c, Existing)
      BY <2>1, <2>2, <2>3 DEF Noted
    <2>6. NoteInv' /\ calls'[i] = c /\ \A j \in Calls \ {i} : calls'[j] = calls[j]
      BY <1>1, <1>5, <2>4, <2>5, OneCallNoted DEF ServiceInv
    <2>7. LineInv'
      BY <1>1, <2>5, <2>6, LineStays DEF ServiceInv, Ready, Waiting
    <2> QED BY <2>6, <2>7 DEF ServiceInv
  <1> QED BY <1>2, <1>3, <1>4, <1>5

(* Every request about one pod or container. *)
LEMMA RouteNoted ==
  ASSUME RouteInv, ServiceInv, NEW i \in Calls, NEW op, op \notin Lists, NEW id, NEW valid,
         route(i, op, id, valid)
  PROVE  ServiceInv'
  BY ForwardNoted, UpstreamNoted DEF route, Lists

(* All requests together: lists are filtered by what they can report. *)
LEMMA RequestNoted ==
  ASSUME RouteInv, ServiceInv, NEW i \in Calls, request(i)
  PROVE  ServiceInv'
  <1>1. CASE \E handler \in {"vimana", "other"}, valid \in BOOLEAN :
               run_pod_sandbox(i, handler, valid)
    BY <1>1, ForwardNoted, UpstreamNoted DEF run_pod_sandbox, Lists
  <1>2. CASE \E id \in KnownPods :
               \/ stop_pod_sandbox(i, id) \/ remove_pod_sandbox(i, id)
               \/ pod_sandbox_status(i, id)
               \/ \E valid \in BOOLEAN : create_container(i, id, valid)
    BY <1>2, RouteNoted
       DEF stop_pod_sandbox, remove_pod_sandbox, pod_sandbox_status, create_container, Lists
  <1>3. CASE \E id \in KnownContainers :
               \/ start_container(i, id) \/ stop_container(i, id) \/ remove_container(i, id)
               \/ container_status(i, id)
    BY <1>3, RouteNoted
       DEF start_container, stop_container, remove_container, container_status, Lists
  <1>4. CASE \E id \in KnownContainers : unsupported(i, id)
    <2> PICK id \in KnownContainers : unsupported(i, id)
      BY <1>4
    <2>1. CASE is_downstream(id)
      BY <2>1, ForwardNoted DEF unsupported
    <2>2. CASE ~ is_downstream(id)
      <3>1. UNCHANGED <<state, downstream, mutex, calls>>
        BY <2>2 DEF unsupported
      <3>2. Existing' = Existing
        BY <3>1 DEF Existing
      <3> QED BY <3>1, <3>2, LineStays DEF ServiceInv, NoteInv
    <2> QED BY <2>1, <2>2
  <1>5. CASE \E filter \in {None} \cup (Filters \cap {"SandboxReady", "SandboxNotready"}) :
               list_pod_sandbox(i, filter)
    BY <1>5, ForwardNoted DEF list_pod_sandbox
  <1>6. CASE \E filter \in {None} \cup (Filters \ {"SandboxReady", "SandboxNotready"}) :
               list_containers(i, filter)
    BY <1>6, ForwardNoted, FilterAssumption DEF list_containers
  <1>7. CASE status(i)
    BY <1>7, ForwardNoted DEF status
  <1> QED BY <1>1, <1>2, <1>3, <1>4, <1>5, <1>6, <1>7 DEF request

(* A handler of the pool changes its pod. *)
LEMMA UpstreamStepNoted ==
  ASSUME RouteInv, ServiceInv, NEW i \in Calls, upstream_step(i)
  PROVE  ServiceInv'
  <1>1. PICK p : calls' = Still([calls EXCEPT ![i].result =
                                   IF state'[p] = "Starting" THEN {} ELSE {pod_prefix(p)}])
    BY Zenon DEF upstream_step
  <1> DEFINE r == IF state'[p] = "Starting" THEN {} ELSE {pod_prefix(p)}
             old == calls[i]
             c == [old EXCEPT !.result = r]
             cs == [calls EXCEPT ![i].result = r]
  <1>2. calls' = Still(cs)
    BY <1>1
  <1> HIDE DEF r
  <1>3. cs[i] = c /\ \A j \in Calls \ {i} : cs[j] = calls[j]
    BY DEF RouteInv
  <1>4. IsCall(old) /\ Noted(old, Existing) /\ old.pc = "upstream"
    BY DEF RouteInv, CallInv, ServiceInv, NoteInv, upstream_step
  <1> HIDE DEF cs, old
  <1>5. c = [pc |-> old.pc, op |-> old.op, id |-> old.id, filter |-> old.filter, result |-> r,
             items |-> old.items, todo |-> old.todo, since |-> old.since]
    BY <1>4, CallRecords
  <1> HIDE DEF c
  <1>6. IsCall(c) /\ c.pc = old.pc /\ Noted(c, Existing)
    BY <1>4, <1>5 DEF IsCall, Noted
  <1>7. \A j \in Calls : IsCall(cs[j]) /\ Noted(cs[j], Existing) /\ cs[j].pc = calls[j].pc
    BY <1>3, <1>6 DEF RouteInv, CallInv, ServiceInv, NoteInv, old
  <1>8. NoteInv' /\ \A j \in Calls : calls'[j].pc = cs[j].pc
    BY <1>2, <1>7, StillNoted
  <1>9. mutex' = mutex
    BY DEF upstream_step
  <1> QED BY <1>7, <1>8, <1>9, LineStays DEF ServiceInv

(* Handlers end, in the line or outside of it. *)
LEMMA EndNoted ==
  ASSUME RouteInv, ServiceInv, NEW i \in Calls,
         \/ upstream_reply(i) \/ list_reply(i) \/ record(i) \/ downstream_fails(i) \/ cancel(i)
  PROVE  ServiceInv'
  <1>1. calls' = [calls EXCEPT ![i] = Idle] /\ UNCHANGED <<state, downstream>>
    BY DEF upstream_reply, list_reply, record, downstream_fails, cancel
  <1>2. NoteInv' /\ calls'[i] = Idle /\ \A j \in Calls \ {i} : calls'[j] = calls[j]
    BY <1>1, NewNoted, OneCallNoted DEF ServiceInv
  <1>3. CASE upstream_reply(i) \/ record(i)
    <2>1. mutex' = mutex /\ calls[i].pc \notin Waiting /\ calls[i].pc # "queued"
      BY <1>3 DEF upstream_reply, record, Waiting
    <2>2. LineInv'
      BY <1>2, <2>1, NewCalls, LineStays DEF ServiceInv, Waiting
    <2> QED BY <1>2, <2>2 DEF ServiceInv
  <1>4. CASE list_reply(i) \/ downstream_fails(i) \/ cancel(i)
    <2>1. Release(i)
      BY <1>4 DEF list_reply, downstream_fails, cancel
    <2>2. LineInv'
      BY <1>2, <2>1, NewCalls, LineLeft DEF ServiceInv, Waiting
    <2> QED BY <1>2, <2>2 DEF ServiceInv
  <1> QED BY <1>3, <1>4

(* The client is given to the first in line, and given back. *)
LEMMA ClientNoted ==
  ASSUME RouteInv, ServiceInv, NEW i \in Calls, acquire(i) \/ downstream_answers(i)
  PROVE  ServiceInv'
  <1> DEFINE old == calls[i]
             c(pc) == [old EXCEPT !.pc = pc]
  <1>0. UNCHANGED <<state, downstream>>
    BY DEF acquire, downstream_answers
  <1>1. IsCall(old) /\ Noted(old, Existing)
    BY DEF RouteInv, CallInv, ServiceInv, NoteInv
  <1>2. ASSUME NEW pc, pc \in {"sent", "answered"}, old.pc \in Waiting,
               calls' = [calls EXCEPT ![i] = c(pc)]
        PROVE  /\ NoteInv' /\ calls'[i].pc = pc
               /\ \A j \in Calls \ {i} : calls'[j] = calls[j]
    <2> HIDE DEF old
    <2>1. c(pc) = [pc |-> pc, op |-> old.op, id |-> old.id, filter |-> old.filter,
                   result |-> old.result, items |-> old.items, todo |-> old.todo,
                   since |-> old.since]
      BY <1>1, CallRecords
    <2> HIDE DEF c
    <2>2. /\ c(pc).pc = pc /\ c(pc).op = old.op /\ c(pc).filter = old.filter
          /\ c(pc).items = old.items /\ c(pc).todo = old.todo /\ c(pc).since = old.since
      BY <2>1
    <2>3. Noted(c(pc), Existing)
      <3>1. pc # "idle" /\ pc # "executed"
        BY <1>2
      <3> QED BY <1>1, <2>2, <3>1, Zenon DEF Noted
    <2> QED BY <1>0, <1>2, <2>2, <2>3, OneCallNoted DEF ServiceInv
  <1>3. CASE acquire(i)
    <2>1. calls' = [calls EXCEPT ![i] = c("sent")] /\ old.pc = "queued" /\ mutex' = mutex
          /\ mutex[1] = i
      BY <1>3 DEF acquire
    <2>2. NoteInv' /\ calls'[i].pc = "sent" /\ \A j \in Calls \ {i} : calls'[j] = calls[j]
      BY <1>2, <2>1 DEF Waiting
    <2>3. LineInv'
      BY <2>1, <2>2, LineStays DEF ServiceInv, Waiting
    <2> QED BY <2>2, <2>3 DEF ServiceInv
  <1>4. CASE downstream_answers(i)
    <2>1. calls' = [calls EXCEPT ![i] = c("answered")] /\ old.pc = "executed" /\ Release(i)
      BY <1>4 DEF downstream_answers
    <2>2. NoteInv' /\ calls'[i].pc = "answered" /\ \A j \in Calls \ {i} : calls'[j] = calls[j]
      BY <1>2, <2>1 DEF Waiting
    <2>3. LineInv'
      BY <2>1, <2>2, LineLeft DEF ServiceInv, Waiting
    <2> QED BY <2>2, <2>3 DEF ServiceInv
  <1> QED BY <1>3, <1>4

(* Ids tell the runtimes, and pods and containers, apart. *)
LEMMA ExistingFacts ==
  /\ \A d \in DownstreamIds \cap Existing : downstream[d] = "live"
  /\ \A p \in Pods : pod_prefix(p) \in Existing => state[p] # "Absent"
  /\ \A p \in Pods : container_prefix(p) \in Existing => state[p] \in POD_STATES_CONTAINER_ALL
  /\ \A p \in Pods : /\ pod_prefix(p) \notin Listed("list_containers")
                     /\ container_prefix(p) \notin Listed("list_pod_sandbox")
  <1>1. /\ \A p, q : pod_prefix(p) = pod_prefix(q) => p = q
        /\ \A p, q : container_prefix(p) = container_prefix(q) => p = q
        /\ \A p, q : pod_prefix(p) # container_prefix(q)
    BY DEF pod_prefix, container_prefix
  <1>2. \A p \in Pods : pod_prefix(p) \notin DownstreamIds /\ container_prefix(p) \notin DownstreamIds
    BY IdAssumption DEF PoolIds
  <1>3. \A d \in DownstreamIds \cap Existing : downstream[d] = "live"
    BY <1>2 DEF Existing
  <1>4. \A p \in Pods : pod_prefix(p) \in Existing => state[p] # "Absent"
    BY <1>1, <1>2 DEF Existing
  <1>5. \A p \in Pods : container_prefix(p) \in Existing => state[p] \in POD_STATES_CONTAINER_ALL
    BY <1>1, <1>2 DEF Existing
  <1>6. \A p \in Pods : /\ pod_prefix(p) \notin Listed("list_containers")
                        /\ container_prefix(p) \notin Listed("list_pod_sandbox")
    BY <1>1, <1>2 DEF Listed, DownstreamIds
  <1> QED BY <1>3, <1>4, <1>5, <1>6

(* The downstream runtime is asked first: what it lists is there, and all  *)
(* pods of the pool are still to be looked at.                             *)
LEMMA ListedFound ==
  ASSUME NEW c, c.since \subseteq Existing \cap Listed(c.op), c.op \in Lists, c.filter = None,
         NEW o \in Outcomes(c.op, c.id, c.filter), NEW id \in c.since
  PROVE  id \in o.ids \/ \E p \in Pods : id \in {pod_prefix(p), container_prefix(p)}
  <1>1. CASE c.op = "list_pod_sandbox"
    <2>1. o.ids = Live(DownstreamPods)
      BY <1>1 DEF Outcomes, Removes
    <2>2. id \in DownstreamPods \/ \E p \in Pods : id = pod_prefix(p)
      BY <1>1 DEF Listed
    <2> QED BY <2>1, <2>2, ExistingFacts DEF Live, DownstreamIds
  <1>2. CASE c.op = "list_containers"
    <2>1. o.ids = Live(DownstreamContainers)
      BY <1>2 DEF Outcomes, Removes
    <2>2. id \in DownstreamContainers \/ \E p \in Pods : id = container_prefix(p)
      BY <1>2 DEF Listed
    <2> QED BY <2>1, <2>2, ExistingFacts DEF Live, DownstreamIds
  <1> QED BY <1>1, <1>2 DEF Lists

(* The downstream runtime executes a request. *)
LEMMA ExecuteNoted ==
  ASSUME RouteInv, ServiceInv, NEW i \in Calls, downstream_executes(i)
  PROVE  ServiceInv'
  <1>1. PICK o : /\ o \in Outcomes(calls[i].op, calls[i].id, calls[i].filter)
                 /\ calls' = Still([calls EXCEPT ![i].pc = "executed", ![i].result = o.ids,
                                      ![i].todo = IF calls[i].op \in Lists THEN Pods ELSE {}])
    BY Zenon DEF downstream_executes
  <1>2. calls[i].pc = "sent" /\ mutex' = mutex
    BY DEF downstream_executes
  <1> DEFINE ids == o.ids
             todo == IF calls[i].op \in Lists THEN Pods ELSE {}
             old == calls[i]
             a == [old EXCEPT !.pc = "executed"]
             b == [a EXCEPT !.result = ids]
             c == [b EXCEPT !.todo = todo]
             cs == [calls EXCEPT ![i].pc = "executed", ![i].result = ids, ![i].todo = todo]
  <1>3. calls' = Still(cs)
    BY <1>1
  <1>4. todo \subseteq Pods /\ (old.op \notin Lists => todo = {}) /\ (old.op \in Lists => todo = Pods)
    OBVIOUS
  <1>5. old.filter = None /\ old.op \in Lists =>
          \A id \in old.since : id \in ids \/ \E p \in todo : id \in {pod_prefix(p), container_prefix(p)}
    BY <1>1, ListedFound DEF ServiceInv, NoteInv, Noted
  <1> HIDE DEF todo, ids
  <1>6. cs[i] = c /\ \A j \in Calls \ {i} : cs[j] = calls[j]
    BY DEF RouteInv
  <1> HIDE DEF cs
  <1>7. IsCall(old) /\ Noted(old, Existing)
    BY DEF RouteInv, CallInv, ServiceInv, NoteInv
  <1> HIDE DEF old, b, c
  <1>8. a = [pc |-> "executed", op |-> old.op, id |-> old.id, filter |-> old.filter,
             result |-> old.result, items |-> old.items, todo |-> old.todo, since |-> old.since]
    BY <1>7, CallRecords
  <1> HIDE DEF a
  <1>9. b = [pc |-> "executed", op |-> old.op, id |-> old.id, filter |-> old.filter,
             result |-> ids, items |-> old.items, todo |-> old.todo, since |-> old.since]
    <2>1. IsCall(a)
      BY <1>8 DEF IsCall
    <2>2. b = [pc |-> a.pc, op |-> a.op, id |-> a.id, filter |-> a.filter,
               result |-> ids, items |-> a.items, todo |-> a.todo, since |-> a.since]
      BY <2>1, CallRecords DEF b
    <2> QED BY <1>8, <2>2
  <1>10. c = [pc |-> "executed", op |-> old.op, id |-> old.id, filter |-> old.filter,
              result |-> ids, items |-> old.items, todo |-> todo, since |-> old.since]
    <2>1. IsCall(b)
      BY <1>9 DEF IsCall
    <2>2. c = [pc |-> b.pc, op |-> b.op, id |-> b.id, filter |-> b.filter,
               result |-> b.result, items |-> b.items, todo |-> todo, since |-> b.since]
      BY <2>1, CallRecords DEF c
    <2> QED BY <1>9, <2>2
  <1>11. IsCall(c) /\ c.pc = "executed" /\ Noted(c, Existing)
    <2>1. /\ IsCall(c) /\ c.pc = "executed" /\ c.op = old.op /\ c.filter = old.filter
          /\ c.result = ids /\ c.items = old.items /\ c.todo = todo /\ c.since = old.since
      BY <1>10 DEF IsCall
    <2>2. (c.op \in Lists /\ c.filter = None) => Found(c)
      BY <1>5, <2>1 DEF Found
    <2> QED BY <1>4, <1>7, <2>1, <2>2 DEF Noted
  <1>12. \A j \in Calls : IsCall(cs[j]) /\ Noted(cs[j], Existing)
    BY <1>6, <1>11 DEF RouteInv, CallInv, ServiceInv, NoteInv
  <1>13. NoteInv' /\ \A j \in Calls : calls'[j].pc = cs[j].pc
    BY <1>3, <1>12, StillNoted
  <1>14. LineInv'
    BY <1>2, <1>6, <1>11, <1>13, LineStays DEF ServiceInv, Waiting
  <1> QED BY <1>13, <1>14 DEF ServiceInv

(* Filters compare what reports convert. *)
LEMMA ItemMatches ==
  ASSUME NEW p, NEW filter, filter # None
  PROVE  /\ (filter \in {"SandboxReady", "SandboxNotready"} /\ match_pod(state[p], filter)) =>
              Matches(cri_pod_sandbox(p), filter)
         /\ (/\ filter \in {"ContainerCreated", "ContainerRunning", "ContainerExited",
                            "ContainerUnknown"}
             /\ match_container(state[p], filter)) =>
              Matches(cri_container(p), filter)
  <1>1. ASSUME filter \in {"SandboxReady", "SandboxNotready"}, match_pod(state[p], filter)
        PROVE  Matches(cri_pod_sandbox(p), filter)
    <2>1. cri_pod_sandbox(p).state = pod_state_to_cri_pod_state(state[p])
      BY DEF cri_pod_sandbox, Item
    <2>2. (filter = "SandboxReady") # (state[p] = "Killed")
      BY <1>1 DEF match_pod
    <2>3. pod_state_to_cri_pod_state(state[p]) = filter
      BY <1>1, <2>2 DEF pod_state_to_cri_pod_state
    <2> QED BY <2>1, <2>3 DEF Matches
  <1>2. ASSUME filter \in {"ContainerCreated", "ContainerRunning", "ContainerExited",
                           "ContainerUnknown"},
               match_container(state[p], filter)
        PROVE  Matches(cri_container(p), filter)
    <2>1. cri_container(p).state = pod_state_to_cri_container_state(state[p])
      BY DEF cri_container, Item
    <2>2. state[p] \in cri_container_state_to_pod_states(filter)
      BY <1>2 DEF match_container
    <2>3. CASE filter = "ContainerCreated"
      <3>1. state[p] \in {"Created", "Starting"}
        BY <2>2, <2>3 DEF cri_container_state_to_pod_states
      <3> QED BY <2>1, <2>3, <3>1 DEF Matches, pod_state_to_cri_container_state
    <2>4. CASE filter = "ContainerRunning"
      <3>1. state[p] = "Running"
        BY <2>2, <2>4 DEF cri_container_state_to_pod_states
      <3> QED BY <2>1, <2>4, <3>1 DEF Matches, pod_state_to_cri_container_state
    <2>5. CASE filter = "ContainerExited"
      <3>1. state[p] \in {"Stopped", "Removed", "Killed"}
        BY <2>2, <2>5 DEF cri_container_state_to_pod_states
      <3> QED BY <2>1, <2>5, <3>1 DEF Matches, pod_state_to_cri_container_state
    <2>6. CASE filter = "ContainerUnknown"
      BY <2>2, <2>6 DEF cri_container_state_to_pod_states
    <2> QED BY <1>2, <2>3, <2>4, <2>5, <2>6
  <1> QED BY <1>1, <1>2

(* A list looks at one more pod of the pool. *)
LEMMA ListNoted ==
  ASSUME RouteInv, ServiceInv, NEW i \in Calls, list_upstream(i)
  PROVE  ServiceInv'
  <1> DEFINE old == calls[i]
             pods == old.op = "list_pod_sandbox"
             matches(p) == IF pods THEN match_pod(state[p], old.filter)
                           ELSE match_container(state[p], old.filter)
             item(p) == IF pods THEN cri_pod_sandbox(p) ELSE cri_container(p)
  <1>1. PICK p \in old.todo :
          calls' = [calls EXCEPT ![i].todo = @ \ {p},
                                 ![i].items = IF matches(p) THEN @ \cup {item(p)} ELSE @]
    BY Zenon DEF list_upstream
  <1>2. UNCHANGED <<state, downstream, mutex>> /\ old.pc = "executed"
    BY Zenon DEF list_upstream
  <1> DEFINE todo == old.todo \ {p}
             items == IF matches(p) THEN old.items \cup {item(p)} ELSE old.items
             b == [old EXCEPT !.todo = todo]
             c == [b EXCEPT !.items = items]
  <1> HIDE DEF matches, item, todo
  <1>3. calls' = [calls EXCEPT ![i] = c]
    BY <1>1, Zenon DEF RouteInv, todo
  <1>4. IsCall(old) /\ Noted(old, Existing)
    BY DEF RouteInv, CallInv, ServiceInv, NoteInv
  <1>5. p \in Pods /\ old.op \in Lists
    BY <1>1, <1>4 DEF Noted
  <1>6. ASSUME old.filter # None, matches(p)
        PROVE  Matches(item(p), old.filter)
    <2>1. CASE old.op = "list_pod_sandbox"
      <3>1. old.filter \in {"SandboxReady", "SandboxNotready"}
        BY <1>4, <1>6, <2>1 DEF Noted
      <3> QED BY <1>6, <2>1, <3>1, ItemMatches DEF matches, item
    <2>2. CASE old.op = "list_containers"
      <3>1. old.filter \in {"ContainerCreated", "ContainerRunning", "ContainerExited",
                            "ContainerUnknown"}
        BY <1>4, <1>6, <2>2 DEF Noted
      <3> QED BY <1>6, <2>2, <3>1, ItemMatches DEF matches, item
    <2> QED BY <1>5, <2>1, <2>2 DEF Lists
  <1>7. ASSUME old.filter = None, NEW id \in old.since, id \in {pod_prefix(p), container_prefix(p)}
        PROVE  matches(p) /\ item(p).id = id
    <2>1. id \in Existing /\ id \in Listed(old.op)
      BY <1>4, <1>7 DEF Noted
    <2>2. CASE old.op = "list_pod_sandbox"
      <3>1. id = pod_prefix(p)
        BY <1>5, <1>7, <2>1, <2>2, ExistingFacts
      <3>2. state[p] # "Absent"
        BY <1>5, <2>1, <3>1, ExistingFacts
      <3>3. match_pod(state[p], old.filter)
        BY <1>7, <3>2 DEF match_pod
      <3>4. cri_pod_sandbox(p).id = id
        BY <3>1 DEF cri_pod_sandbox, Item
      <3> QED BY <2>2, <3>3, <3>4 DEF matches, item
    <2>3. CASE old.op = "list_containers"
      <3>1. id = container_prefix(p)
        BY <1>5, <1>7, <2>1, <2>3, ExistingFacts
      <3>2. state[p] \in POD_STATES_CONTAINER_ALL
        BY <1>5, <2>1, <3>1, ExistingFacts
      <3>3. match_container(state[p], old.filter)
        <4>1. cri_container_state_to_pod_states(None) = POD_STATES_CONTAINER_ALL
          BY FilterAssumption DEF cri_container_state_to_pod_states
        <4> QED BY <1>7, <3>2, <4>1 DEF match_container
      <3>4. cri_container(p).id = id
        BY <3>1 DEF cri_container, Item
      <3> QED BY <2>3, <3>3, <3>4 DEF matches, item
    <2> QED BY <1>5, <2>2, <2>3 DEF Lists
  <1>8. /\ \A x \in items : x \in old.items \/ (matches(p) /\ x = item(p))
        /\ old.items \subseteq items
        /\ matches(p) => item(p) \in items
        /\ todo = old.todo \ {p}
    BY DEF todo
  <1> HIDE DEF items, old, c
  <1>9. b = [pc |-> old.pc, op |-> old.op, id |-> old.id, filter |-> old.filter,
             result |-> old.result, items |-> old.items, todo |-> todo, since |-> old.since]
    BY <1>4, CallRecords
  <1> HIDE DEF b
  <1>10. c = [pc |-> old.pc, op |-> old.op, id |-> old.id, filter |-> old.filter,
              result |-> old.result, items |-> items, todo |-> todo, since |-> old.since]
    <2>1. IsCall(b)
      BY <1>9 DEF IsCall
    <2>2. c = [pc |-> b.pc, op |-> b.op, id |-> b.id, filter |-> b.filter,
               result |-> b.result, items |-> items, todo |-> b.todo, since |-> b.since]
      BY <2>1, CallRecords DEF c
    <2> QED BY <1>9, <2>2
  <1>11. /\ c.pc = old.pc /\ c.op = old.op /\ c.filter = old.filter /\ c.result = old.result
         /\ c.items = items /\ c.todo = todo /\ c.since = old.since
    BY <1>10
  <1>12. old.filter # None => \A x \in items : Matches(x, old.filter)
    BY <1>4, <1>6, <1>8 DEF Noted
  <1>13. old.filter = None => Found(c)
    <2> SUFFICES ASSUME old.filter = None, NEW id \in old.since
                 PROVE  \/ id \in old.result
                        \/ \E x \in items : x.id = id
                        \/ \E q \in todo : id \in {pod_prefix(q), container_prefix(q)}
      BY <1>11 DEF Found
    <2>1. \/ id \in old.result
          \/ \E x \in old.items : x.id = id
          \/ \E q \in old.todo : id \in {pod_prefix(q), container_prefix(q)}
      BY <1>2, <1>4, <1>5 DEF Noted, Found, old
    <2>2. id \in {pod_prefix(p), container_prefix(p)} => item(p) \in items /\ item(p).id = id
      BY <1>7, <1>8
    <2> QED BY <1>8, <2>1, <2>2
  <1>14. Noted(c, Existing)
    BY <1>4, <1>8, <1>11, <1>12, <1>13 DEF Noted
  <1>15. NoteInv' /\ calls'[i] = c /\ \A j \in Calls \ {i} : calls'[j] = calls[j]
    BY <1>2, <1>3, <1>14, OneCallNoted DEF ServiceInv
  <1>16. LineInv'
    <2>1. \A j \in Calls : calls'[j].pc = calls[j].pc
      BY <1>11, <1>15 DEF old
    <2> QED BY <1>2, <2>1, LineStays DEF ServiceInv
  <1> QED BY <1>15, <1>16 DEF ServiceInv

(* A request without a handler is executed: everybody takes note of it. *)
LEMMA OrphanNoted ==
  ASSUME RouteInv, ServiceInv, NEW r \in orphans, orphan_ends(r)
  PROVE  ServiceInv'
  <1>1. calls' = Still(calls) /\ mutex' = mutex
    BY DEF orphan_ends
  <1>2. \A j \in Calls : IsCall(calls[j]) /\ Noted(calls[j], Existing)
    BY DEF RouteInv, CallInv, ServiceInv, NoteInv
  <1>3. NoteInv' /\ \A j \in Calls : calls'[j].pc = calls[j].pc
    BY <1>1, <1>2, StillNoted
  <1> QED BY <1>1, <1>3, LineStays DEF ServiceInv

(* The process starts and ends without requests, or drops them all. *)
LEMMA ProcessNoted ==
  ASSUME RouteInv, ServiceInv,
         connect \/ bind \/ new_pods \/ new_containers \/ new_fails \/ shutdown \/ crash
  PROVE  ServiceInv'
  <1>1. CASE connect \/ bind \/ new_pods \/ new_containers \/ new_fails \/ shutdown
    <2>1. UNCHANGED <<calls, mutex>>
      BY <1>1 DEF connect, bind, new_pods, new_containers, new_list, new_fails, shutdown,
                  serviceVars
    <2>2. \A j \in Calls : calls[j].pc = "idle"
      BY <1>1 DEF connect, bind, new_pods, new_containers, new_list, new_fails, shutdown, RouteInv
    <2>3. \A j \in Calls : Noted(calls[j], Existing')
      BY <2>2 DEF ServiceInv, NoteInv, Noted
    <2> QED BY <2>1, <2>3, LineStays DEF ServiceInv, NoteInv
  <1>2. CASE crash
    <2>1. calls' = [j \in Calls |-> Idle] /\ mutex' = <<>>
      BY <1>2 DEF crash
    <2>2. NoteInv'
      BY <2>1, NewNoted DEF NoteInv
    <2>3. LineInv'
      BY <2>1, NewCalls DEF LineInv, ClientIsInUse, ToSet
    <2> QED BY <2>2, <2>3 DEF ServiceInv
  <1> QED BY <1>1, <1>2

(* Nothing is asked when the process is not there yet. *)
LEMMA ServiceInitially == Init => ServiceInv
  <1> SUFFICES ASSUME Init PROVE ServiceInv
    OBVIOUS
  <1>1. calls = [j \in Calls |-> Idle] /\ mutex = <<>>
    BY DEF Init
  <1>2. NoteInv
    BY <1>1, NewNoted DEF NoteInv
  <1>3. LineInv
    BY <1>1, NewCalls DEF LineInv, ClientIsInUse, ToSet
  <1> QED BY <1>2, <1>3 DEF ServiceInv

(* No step of a handler, of the downstream runtime or of the process       *)
(* breaks ServiceInv.                                                      *)
LEMMA ServiceInductive == RouteInv /\ ServiceInv /\ [Next]_vars => ServiceInv'
  <1> SUFFICES ASSUME RouteInv, ServiceInv, [Next]_vars PROVE ServiceInv'
    OBVIOUS
  <1>1. CASE UNCHANGED vars
    <2>1. UNCHANGED <<state, downstream, calls, mutex>>
      BY <1>1 DEF vars
    <2>2. Existing' = Existing
      BY <2>1 DEF Existing
    <2> QED BY <2>1, <2>2, LineStays DEF ServiceInv, NoteInv
  <1>2. ASSUME NEW i \in Calls, request(i)
        PROVE  ServiceInv'
    BY <1>2, RequestNoted
  <1>3. ASSUME NEW i \in Calls, upstream_step(i)
        PROVE  ServiceInv'
    BY <1>3, UpstreamStepNoted
  <1>4. ASSUME NEW i \in Calls,
               \/ upstream_reply(i) \/ list_reply(i) \/ record(i) \/ downstream_fails(i)
               \/ cancel(i)
        PROVE  ServiceInv'
    BY <1>4, EndNoted
  <1>5. ASSUME NEW i \in Calls, acquire(i) \/ downstream_answers(i)
        PROVE  ServiceInv'
    BY <1>5, ClientNoted
  <1>6. ASSUME NEW i \in Calls, downstream_executes(i)
        PROVE  ServiceInv'
    BY <1>6, ExecuteNoted
  <1>7. ASSUME NEW i \in Calls, list_upstream(i)
        PROVE  ServiceInv'
    BY <1>7, ListNoted
  <1>8. ASSUME NEW r \in orphans, orphan_ends(r)
        PROVE  ServiceInv'
    BY <1>8, OrphanNoted
  <1>9. CASE connect \/ bind \/ new_pods \/ new_containers \/ new_fails \/ shutdown \/ crash
    BY <1>9, ProcessNoted
  <1> QED BY <1>1, <1>2, <1>3, <1>4, <1>5, <1>6, <1>7, <1>8, <1>9 DEF Next

(* The client of the downstream runtime is held by a handler that uses it, *)
(* and nobody waits outside of the line, whichever handlers are dropped,   *)
(* fail or end with the process.                                           *)
THEOREM Client == Spec => []ClientIsInUse
  <1>1. ServiceInv => ClientIsInUse
    BY DEF ServiceInv, LineInv
  <1> QED BY <1>1, RouteInitially, RouteInductive, ServiceInitially, ServiceInductive, PTL
          DEF Spec

(* What exists during the whole of an unfiltered list is in the answer,    *)
(* for any number of pods in either runtime and any interleaving of lists  *)
(* with each other and with other requests.                                *)
THEOREM CompleteLists == Spec => ListsComplete
  <1>1. ASSUME ServiceInv, NEW i \in Calls, calls[i].filter = None, list_reply(i)
        PROVE  calls[i].since \subseteq {item.id : item \in reply'.items}
    <2>1. /\ calls[i].pc = "executed" /\ calls[i].op \in Lists /\ calls[i].todo = {}
          /\ reply'.items = calls[i].items \cup {Item(d, None) : d \in calls[i].result}
      BY <1>1 DEF list_reply
    <2>2. Found(calls[i])
      BY <1>1, <2>1 DEF ServiceInv, NoteInv, Noted
    <2>3. \A d : Item(d, None).id = d
      BY DEF Item
    <2> QED BY <2>1, <2>2, <2>3 DEF Found
  <1>2. ServiceInv =>
          [\A i \in Calls :
             (calls[i].filter = None /\ list_reply(i)) =>
               calls[i].since \subseteq {item.id : item \in reply'.items}]_vars
    BY <1>1
  <1> QED BY <1>2, RouteInitially, RouteInductive, ServiceInitially, ServiceInductive, PTL
          DEF Spec, ListsComplete

(* What is listed by a state is reported in it, although the pool changes  *)
(* between the comparison of one pod and of the next.                      *)
THEOREM FilteredReports == Spec => []FiltersMatchReports
  <1>1. Init => FiltersMatchReports
    BY DEF Init, NoReply, FiltersMatchReports
  <1>2. ASSUME ServiceInv, FiltersMatchReports, [Next]_vars
        PROVE  FiltersMatchReports'
    <2>1. ASSUME NEW i \in Calls, list_reply(i)
          PROVE  FiltersMatchReports'
      <3>1. reply' = [items |-> calls[i].items \cup {Item(d, None) : d \in calls[i].result},
                      filter |-> calls[i].filter]
        BY <2>1 DEF list_reply
      <3>2. calls[i].filter # None => \A item \in calls[i].items : Matches(item, calls[i].filter)
        BY <1>2 DEF ServiceInv, NoteInv, Noted
      <3>3. \A d : Item(d, None).state = None
        BY DEF Item
      <3> QED BY <3>1, <3>2, <3>3 DEF FiltersMatchReports, Matches
    <2>2. CASE reply' = reply \/ reply'.filter = None
      BY <1>2, <2>2 DEF FiltersMatchReports
    <2>3. ASSUME NEW i \in Calls, request(i)
          PROVE  reply'.filter = None
      <3>1. Unanswered \/ \E items : reply' = [items |-> items, filter |-> None]
        BY <2>3 DEF request, run_pod_sandbox, stop_pod_sandbox, remove_pod_sandbox,
                    pod_sandbox_status, create_container, start_container, stop_container,
                    remove_container, container_status, unsupported, list_pod_sandbox,
                    list_containers, status, route, forward, upstream
      <3> QED BY <3>1 DEF Unanswered, NoReply
    <2>4. ASSUME NEW i \in Calls,
                 \/ upstream_step(i) \/ upstream_reply(i) \/ acquire(i) \/ downstream_executes(i)
                 \/ downstream_fails(i) \/ downstream_answers(i) \/ record(i)
                 \/ list_upstream(i) \/ cancel(i)
          PROVE  reply'.filter = None
      <3>1. Unanswered
        BY <2>4, Zenon DEF upstream_step, upstream_reply, acquire, downstream_executes,
                           downstream_fails, downstream_answers, record, list_upstream, cancel
      <3> QED BY <3>1 DEF Unanswered, NoReply
    <2>5. ASSUME \/ \E r \in orphans : orphan_ends(r)
                 \/ connect \/ bind \/ new_pods \/ new_containers \/ new_fails \/ shutdown
                 \/ crash
          PROVE  reply'.filter = None
      BY <2>5 DEF orphan_ends, connect, bind, new_pods, new_containers, new_list, new_fails,
                  shutdown, crash, Unanswered, NoReply
    <2>6. CASE UNCHANGED vars
      BY <2>2, <2>6 DEF vars
    <2> QED BY <1>2, <2>1, <2>2, <2>3, <2>4, <2>5, <2>6 DEF Next
  <1> QED BY <1>1, <1>2, RouteInitially, RouteInductive, ServiceInitially, ServiceInductive, PTL
          DEF Spec
=============================================================================

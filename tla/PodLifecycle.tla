---------------------------- MODULE PodLifecycle ----------------------------
(***************************************************************************)
(* What the pod pool promises about the state of a pod: the transitions of *)
(* runtime/README.md, with what the code does where it differs from the    *)
(* README.  CreateContainer answers a repeated call by going back to       *)
(* Created, a failed StartContainer unlocks Starting to Created, and a     *)
(* Stopped container is not started again.  WorkRuntime implements this    *)
(* specification although its handlers are spread over many steps.         *)
(***************************************************************************)
CONSTANT Pods

VARIABLE state

(* An Absent pod is one that is not in the pool. *)
Live == {"Initiated", "Created", "Starting", "Running", "Stopped", "Removed"}

Init == state = [p \in Pods |-> "Absent"]

Move(p, from, to) ==
    /\ state[p] \in from
    /\ state' = [state EXCEPT ![p] = to]

RunPodSandbox(p) == Move(p, {"Absent"}, "Initiated")

CreateContainer(p) ==
    Move(p, {"Initiated", "Removed", "Created", "Starting", "Running"}, "Created")

(* Only one StartContainer at a time leads from Created to Running. *)
StartContainer(p) == Move(p, {"Created"}, "Starting")

Ready(p) == Move(p, {"Starting"}, "Running")

StopContainer(p) == Move(p, {"Starting", "Running"}, "Stopped")

RemoveContainer(p) == Move(p, {"Stopped"}, "Removed")

StopPodSandbox(p) == Move(p, Live, "Killed")

(* Killed is final: the only way on is out of the pool. *)
RemovePodSandbox(p) == Move(p, {"Killed"}, "Absent")

(* The pool is in memory only. *)
Restart == state' = [p \in Pods |-> "Absent"]

Next ==
    \/ \E p \in Pods :
         \/ RunPodSandbox(p) \/ CreateContainer(p) \/ StartContainer(p) \/ Ready(p)
         \/ StopContainer(p) \/ RemoveContainer(p) \/ StopPodSandbox(p)
         \/ RemovePodSandbox(p)
    \/ Restart

Spec == Init /\ [][Next]_state

=============================================================================

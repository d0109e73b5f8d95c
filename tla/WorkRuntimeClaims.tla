------------------------- MODULE WorkRuntimeClaims -------------------------
(***************************************************************************)
(* Statements that the comments, the README and the tests make about the   *)
(* pod pool, and that its handlers do not keep.  Each is checked by a run  *)
(* of its own, which shows an interleaving or a fault that refutes it.     *)
(***************************************************************************)
EXTENDS WorkRuntime

(* No handler is at work on pod p. *)
Untouched(p) == \A c \in Call : calls[c].pod = p => calls[c].pc = "idle"

(* runtime/README.md: "Killed - The pod is no longer usable. It's IP       *)
(* address has been freed for re-use by other pods."  Once no handler is   *)
(* busy with a killed pod, its address is free.                            *)
KilledPodHasFreedAddress ==
    \A p \in PodId :
        (pods[p].state = "Killed" /\ Untouched(p)) =>
            \A a \in Address : allocated[a] # NameOf(p, pods[p])
=============================================================================

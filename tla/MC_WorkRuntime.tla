--------------------------- MODULE MC_WorkRuntime ---------------------------
(* Small instances of WorkRuntime for TLC. *)
EXTENDS WorkRuntime, TLC

(* Slots, task identities and addresses are interchangeable. *)
Symmetry ==
    Permutations(Call) \cup Permutations(Initialization)
        \cup Permutations(Server) \cup Permutations(Address)

=============================================================================

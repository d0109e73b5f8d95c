------------------------- MODULE MC_ContainerStore -------------------------
(* A small store for TLC: two versions of one server. *)
EXTENDS ContainerStore, TLC

CONSTANTS domain, server, version1, version2, small, large

MCComponents == {<<domain, server, version1>>, <<domain, server, version2>>}

(* Images whose components differ in size. *)
MCComponentSize == small :> 1 @@ large :> 2

Symmetry == Permutations(Calls) \cup Permutations({version1, version2})
=============================================================================

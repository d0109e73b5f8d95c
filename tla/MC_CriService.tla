--------------------------- MODULE MC_CriService ---------------------------
(* A small instance of CriService: a downstream pod with a container, whose *)
(* ids look like those of the pool.                                        *)
EXTENDS CriService, TLC

Symmetry == Permutations(Calls)

MCDownstreamPods == {<<"p-", "y">>}
MCDownstreamContainers == {<<"c-", "y">>}
MCParent == [c \in MCDownstreamContainers |-> <<"p-", "y">>]
=============================================================================

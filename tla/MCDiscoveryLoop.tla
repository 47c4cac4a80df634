-------------------------- MODULE MCDiscoveryLoop --------------------------
(* Instances of DiscoveryLoop for TLC. *)
EXTENDS DiscoveryLoop, TLC

\* Handlers, refreshers and the non-empty lists are interchangeable.
Symmetry == Permutations(Handlers) \cup Permutations(Refreshers)
=============================================================================

-------------------------- MODULE MCHostOwnership --------------------------
(* Small instances of HostOwnership.                                       *)
EXTENDS HostOwnership, TLC

Symmetry == Permutations(Desktops) \cup Permutations(Servers) \cup Permutations(Children)
=============================================================================

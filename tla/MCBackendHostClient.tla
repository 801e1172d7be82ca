------------------------ MODULE MCBackendHostClient ------------------------
(* Small instances of BackendHostClient.                                   *)
EXTENDS BackendHostClient, TLC

Symmetry == Permutations(Slots) \cup Permutations(Callers)
=============================================================================

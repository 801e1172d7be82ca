--------------------------- MODULE MCRemoteCommand ---------------------------
(* Small instances of RemoteCommand.                                       *)
EXTENDS RemoteCommand, TLC

Symmetry == Permutations(Ids) \cup Permutations(Principals) \cup Permutations(Requests)
=============================================================================

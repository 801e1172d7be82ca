---------------------------- MODULE MCEventStream ----------------------------
(* Small instances of EventStream: the bounds are in the .cfg files.       *)
EXTENDS EventStream
=============================================================================

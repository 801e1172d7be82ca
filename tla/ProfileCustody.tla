--------------------------- MODULE ProfileCustody --------------------------
(***************************************************************************)
(* What host ownership promises about one profile database                 *)
(* (docs/HOST_OWNERSHIP.md, "the fence proves the writer"): one writer at  *)
(* a time, and never a writer of an older owner generation after a newer   *)
(* one has written.  HostOwnership implements it.                          *)
(***************************************************************************)
EXTENDS Naturals

CONSTANTS Procs,    \* processes that may open the database
          NoProc    \* nobody

VARIABLES writer,     \* process with the database open
          generation  \* owner generation of the last process that opened it

Init == writer = NoProc /\ generation = 0

Open(p) ==
    /\ writer = NoProc
    /\ writer' = p
    /\ generation' \in Nat
    /\ generation' >= generation

\* An orderly close or the death of the process.
Close ==
    /\ writer # NoProc
    /\ writer' = NoProc
    /\ UNCHANGED generation

Next == Close \/ \E p \in Procs : Open(p)

Spec == Init /\ [][Next]_<<writer, generation>>
=============================================================================

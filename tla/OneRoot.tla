------------------------------ MODULE OneRoot -------------------------------
(***************************************************************************)
(* What root preparation promises about one profile (docs/                 *)
(* HOST_OWNERSHIP.md, "Automatic desktop data-root promotion"): the owned  *)
(* root receives its data once, from one source; nothing is served before  *)
(* the root was activated; and from then on it stays that root's data.     *)
(* RootPromotion implements it.                                            *)
(***************************************************************************)

VARIABLES
    lineage,  \* where the owned root's data comes from
    active,   \* may it be served?
    serving   \* is it being served?

Init == lineage = "none" /\ ~active /\ ~serving

\* A copy of the plain profile or of an offline backup is put in place.
Stage ==
    /\ lineage = "none" /\ ~active
    /\ lineage' \in {"plain", "backup"}
    /\ UNCHANGED <<active, serving>>

\* A copy is activated, or an empty root is created.
Activate ==
    /\ ~active /\ ~serving
    /\ active' = TRUE
    /\ UNCHANGED <<lineage, serving>>

\* An owner opens the root's database; an empty root gets one.
Serve ==
    /\ active /\ ~serving
    /\ serving' = TRUE
    /\ lineage' = IF lineage = "none" THEN "fresh" ELSE lineage
    /\ UNCHANGED active

Stop ==
    /\ serving /\ serving' = FALSE
    /\ UNCHANGED <<lineage, active>>

Next == Stage \/ Activate \/ Serve \/ Stop

Spec == Init /\ [][Next]_<<lineage, active, serving>>
=============================================================================

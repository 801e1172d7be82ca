--------------------------- MODULE MCScheduleRuns ---------------------------
(* Small instances of ScheduleRuns: s2 always continues the conversation,   *)
(* s1 may be edited between a fresh thread and the same conversation.       *)
EXTENDS ScheduleRuns

MCEditionsOf == [s \in Schedules |-> IF s = "s1" THEN Editions ELSE Heartbeats]
=============================================================================

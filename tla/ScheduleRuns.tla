---------------------------- MODULE ScheduleRuns ----------------------------
(***************************************************************************)
(* Scheduled work: ScheduleService starts and retries schedules;           *)
(* ScheduleRunCoordinator reserves a conversation for each attempt,        *)
(* launches it across several awaits, watches its turn and writes the      *)
(* result. Both live in one event loop over one database; the user edits,  *)
(* deletes and cancels, turns end, time limits pass and writes fail at any *)
(* await.                                                                  *)
(*                                                                         *)
(* What a schedule would execute (agent, prompt, configuration, automation)*)
(* is its edition; the editions in Heartbeats continue the one target      *)
(* conversation, the others start a fresh thread. An occurrence is what    *)
(* one due time or one "run now" leads to: up to MaxAttempts attempts.     *)
(***************************************************************************)
EXTENDS Naturals, FiniteSets

CONSTANTS
    Schedules,
    Runs,         \* names of attempts, used again when nothing refers to them
    Editions, Heartbeats,
    EditionsOf,   \* those the user gives each schedule
    MaxAttempts,  \* the retry policy's maxAttempts
    MaxFaults     \* bound: steps whose database writes fail

ASSUME EditionsAssumption ==
    Heartbeats \subseteq Editions /\ EditionsOf \in [Schedules -> SUBSET Editions]
ASSUME AttemptsAssumption == MaxAttempts \in Nat \ {0} /\ MaxFaults \in Nat
ASSUME NamesAssumption == "none" \notin Runs \cup Schedules

VARIABLES
    host,    \* up, closing, closed or down
    task,    \* scheduled_tasks: the row of each schedule
    occ,     \* runWithRetries of each schedule
    run,     \* pendingByRunId, the coroutine of the launch, and scheduled_task_runs
    target,  \* can the heartbeat conversation take a prompt?
    faults

scheduleVars == <<host, task, occ, run, target, faults>>

NoTask == [here |-> FALSE, edition |-> "none", status |-> "other"]
NoOcc == [pc |-> "off", attempt |-> 0, run |-> "none", edited |-> FALSE, stopped |-> FALSE]
NoRun == [sched |-> "none", edition |-> "none", phase |-> "none", launch |-> "none", active |-> FALSE,
          verdict |-> "none", row |-> "none"]

\* A cancelled and an interrupted attempt are treated alike: stopped. The row
\* of an attempt is open (running, or waiting for an approval), says that a
\* retry is pending, or is of no interest any more; lost marks one whose last
\* write failed where the code does not try again.
Verdicts == {"succeeded", "failed", "stopped"}
Unsettled == {"preparing", "resuming", "dispatching"}
Phases == Unsettled \cup {"none", "collecting", "evaluating", "kept"}
Awaits == {"config", "cursor", "start", "send", "revive", "resend"}
Rows == {"none", "open", "retrying", "lost"}

ScheduleTypeOK ==
    /\ host \in {"up", "closing", "closed", "down"}
    /\ task \in [Schedules -> [here : BOOLEAN, edition : Editions \cup {"none"},
                               status : {"running", "succeeded", "other"}]]
    /\ occ \in [Schedules -> [pc : {"off", "try", "wait"}, attempt : 0..MaxAttempts,
                              run : Runs \cup {"none"}, edited : BOOLEAN, stopped : BOOLEAN]]
    /\ run \in [Runs -> [sched : Schedules \cup {"none"}, edition : Editions \cup {"none"},
                         phase : Phases, launch : Awaits \cup {"none", "stale"},
                         active : BOOLEAN, verdict : Verdicts \cup {"none"}, row : Rows]]
    /\ target \in BOOLEAN
    /\ faults \in 0..MaxFaults

New(e) == [here |-> TRUE, edition |-> e, status |-> "other"]

ScheduleInit ==
    /\ host = "up"
    /\ \E e \in [Schedules -> Editions] :
         (\A s \in Schedules : e[s] \in EditionsOf[s]) /\ task = [s \in Schedules |-> New(e[s])]
    /\ occ = [s \in Schedules |-> NoOcc]
    /\ run = [r \in Runs |-> NoRun]
    /\ target = TRUE
    /\ faults = 0

(***************************************************************************)
(* The functions below map the part of the state that one continuation of  *)
(* the event loop changes; an action applies one of them. bad says that    *)
(* writes to scheduled_task_runs fail during the step.                     *)
(***************************************************************************)
Now == [host |-> host, task |-> task, occ |-> occ, run |-> run]
Become(w) == host' = w.host /\ task' = w.task /\ occ' = w.occ /\ run' = w.run

Faults == IF faults < MaxFaults THEN BOOLEAN ELSE {FALSE}
Spend(bad) == faults' = IF bad THEN faults + 1 ELSE faults
Quietly == UNCHANGED <<target, faults>>

Held(r) == run[r].phase # "none"

\* A coroutine of a launch outlives its attempt; canDispatch is false from then
\* on, so the coroutine ends at its next await, wherever that is.
Outlived(w, r) == IF w.run[r].launch = "none" THEN "none" ELSE "stale"
Released(w, r) == [w EXCEPT !.run[r] = [NoRun EXCEPT !.launch = Outlived(w, r)]]

\* settle: the service patches the row of a schedule that is still there.
Settle(w, s, status) ==
    [w EXCEPT !.occ[s] = NoOcc,
              !.task[s].status = IF ~w.task[s].here \/ w.host # "up" THEN @
                                 ELSE IF status = "succeeded" THEN status ELSE "other"]

\* For the mutant runs: the generation of the schedule is not looked at.
RetryIsCurrentForever(w, s) == w.host = "up"

\* runWithRetries after an attempt of s: another one after a delay, or the end.
\* r is the failed attempt whose row then says that a retry is pending.
RetryIsCurrent(w, s) == w.host = "up" /\ ~w.occ[s].edited
AfterAttempt(w, s, r, status, bad) ==
    IF status = "failed" /\ RetryIsCurrent(w, s) /\ w.occ[s].attempt < MaxAttempts
    THEN IF r = "none" \/ bad THEN [w EXCEPT !.occ[s].pc = "wait"]
         ELSE [w EXCEPT !.occ[s].pc = "wait", !.occ[s].run = r,
                        !.run[r].row = "retrying", !.run[r].sched = s]
    ELSE Settle(w, s, status)

\* For the mutant runs: an attempt whose result cannot be written is released.
FinishReleasing(w, r, status, final, bad) ==
    LET s == w.run[r].sched
    IN IF bad THEN Settle([w EXCEPT !.run[r].phase = "none"], s, "failed")
       ELSE IF final THEN Settle(Released(w, r), s, status)
       ELSE AfterAttempt(Released(w, r), s, r, status, bad)

\* finishPending, from the write of the result on. A result that cannot be
\* written stays in failedSettlements with its reservation, and the schedule
\* is told of a persistence error, which is not retried. final: failures that
\* are not retried either.
Finish(w, r, status, final, bad) ==
    LET s == w.run[r].sched
    IN IF bad THEN Settle([w EXCEPT !.run[r].phase = "kept"], s, "failed")
       ELSE IF final THEN Settle(Released(w, r), s, status)
       ELSE AfterAttempt(Released(w, r), s, r, status, bad)

\* For the mutant runs: the first verdict on an attempt stands.
CompleteOnce(w, r, status, bad) ==
    LET phase == w.run[r].phase
    IN CASE phase = "preparing" -> AfterAttempt(Released(w, r), w.run[r].sched, "none", status, bad)
         [] phase \in {"resuming", "dispatching"} ->
              [w EXCEPT !.run[r].phase = "collecting", !.run[r].verdict = status,
                        !.run[r].active = FALSE, !.run[r].launch = Outlived(w, r)]
         [] phase = "evaluating" /\ status = "stopped" -> Finish(w, r, status, FALSE, bad)
         [] OTHER -> w

\* complete, and finishPending up to its first await. A stop that comes while
\* the result is collected or evaluated overrides it.
Complete(w, r, status, bad) ==
    LET phase == w.run[r].phase
    IN CASE phase = "preparing" -> AfterAttempt(Released(w, r), w.run[r].sched, "none", status, bad)
         [] phase \in {"resuming", "dispatching"} ->
              [w EXCEPT !.run[r].phase = "collecting", !.run[r].verdict = status,
                        !.run[r].active = FALSE, !.run[r].launch = Outlived(w, r)]
         [] phase = "collecting" /\ status = "stopped" -> [w EXCEPT !.run[r].verdict = status]
         [] phase = "evaluating" /\ status = "stopped" -> Finish(w, r, status, FALSE, bad)
         [] OTHER -> w

\* onRetryWaitFinished: the row of the failed attempt no longer says that a
\* retry is pending, unless that write fails.
Waited(w, r, bad) ==
    IF r = "none" THEN w
    ELSE IF bad /\ w.run[r].row # "none" THEN [w EXCEPT !.run[r].row = "lost"]
    ELSE Released(w, r)
WaitCancelled(w, s, bad) == Settle(Waited(w, w.occ[s].run, bad), s, "stopped")

\* Every wait is cancelled, in a host that is closing: no status is patched any more.
WaitsCancelled(w, bad) ==
    LET waiting == {s \in Schedules : w.occ[s].pc = "wait"}
        rows == {w.occ[s].run : s \in waiting} \ {"none"}
    IN [w EXCEPT !.run = [r \in Runs |-> IF r \in rows THEN Waited(w, r, bad).run[r] ELSE w.run[r]],
                 !.occ = [s \in Schedules |-> IF s \in waiting THEN NoOcc ELSE w.occ[s]]]

\* complete, stopped, for each attempt in R. Their order is of no account: they
\* are of different schedules, and the end of one is not looked at by another.
StopAll(w, R, bad) ==
    LET over == {r \in R : w.run[r].phase \in {"preparing", "evaluating"}}
        ended == {w.run[r].sched : r \in over}
    IN [w EXCEPT !.run = [r \in Runs |-> IF r \in R THEN Complete(w, r, "stopped", bad).run[r] ELSE w.run[r]],
                 !.occ = [s \in Schedules |-> IF s \in ended THEN NoOcc ELSE w.occ[s]],
                 !.task = [s \in Schedules |-> IF s \in ended THEN Settle(w, s, "stopped").task[s] ELSE w.task[s]]]

(***************************************************************************)
(* Starting an occurrence, and its retries.                                *)
(***************************************************************************)
Kept(w) == {r \in Runs : w.run[r].phase = "kept"}
Unused(w) == {r \in Runs : /\ w.run[r].phase = "none" /\ w.run[r].launch = "none"
                           /\ w.run[r].row = "none"}
\* retryFailedSettlements, when the database takes the writes.
Recorded(w) ==
    [w EXCEPT !.run = [r \in Runs |-> IF r \in Kept(w) THEN Released(w, r).run[r] ELSE w.run[r]]]
TargetTaken(w) == \E r \in Runs : w.run[r].phase # "none" /\ w.run[r].edition \in Heartbeats

\* runScheduleAsThread up to its first await: the states it can lead to. The
\* captured schedule is the current one, for an edit ends the retries. A target
\* that is taken or cannot be used, or a project that is not there, fails the
\* attempt; finishUnstarted then inserts its row and ends it at once.
Attempted(w, s, bad) ==
    LET e == w.task[s].edition
        v == Recorded(w)
        r == CHOOSE name \in Unused(v) : TRUE
        reserved == [v EXCEPT !.run[r] = [NoRun EXCEPT !.sched = s, !.edition = e,
                                                       !.phase = "preparing", !.launch = "config"]]
        inserted == [v EXCEPT !.run[r] = [NoRun EXCEPT !.sched = s, !.row = "lost"]]
    IN IF Kept(w) # {} /\ bad THEN {Settle(w, s, "failed")}
       ELSE IF Unused(v) = {} THEN {}
       ELSE (IF e \notin Heartbeats \/ (target /\ ~TargetTaken(v)) THEN {reserved} ELSE {})
            \cup (IF ~bad THEN {AfterAttempt(v, s, r, "failed", bad)}
                  ELSE {AfterAttempt(v, s, "none", "failed", bad),
                        AfterAttempt(inserted, s, "none", "failed", bad)})

\* tick, when the schedule is due, or runNow.
StartRun(s) ==
    /\ host = "up" /\ task[s].here /\ occ[s].pc = "off"
    /\ \E bad \in Faults :
         LET started == [Now EXCEPT !.task[s].status = "running",
                                    !.occ[s] = [NoOcc EXCEPT !.pc = "try", !.attempt = 1]]
         IN (\E w \in Attempted(started, s, bad) : Become(w)) /\ Spend(bad)
    /\ UNCHANGED target

\* waitForRetry's timer.
RetryFires(s) ==
    /\ host = "up" /\ occ[s].pc = "wait"
    /\ \E bad \in Faults :
         LET r == occ[s].run
             again == [Waited(Now, r, FALSE) EXCEPT !.occ[s].pc = "try", !.occ[s].run = "none",
                                                 !.occ[s].attempt = @ + 1]
         IN /\ IF r # "none" /\ bad
               THEN Become(Settle(Waited(Now, r, bad), s, "failed"))
               ELSE \E w \in Attempted(again, s, bad) : Become(w)
            /\ Spend(bad)
    /\ UNCHANGED target

(***************************************************************************)
(* The launch of a reserved attempt, await by await.                       *)
(***************************************************************************)
CanDispatch(r) ==
    /\ host = "up" /\ run[r].phase \in Unsettled
    /\ ~(occ[run[r].sched].edited /\ run[r].phase \in {"preparing", "resuming"})
Admitted(r) == task[run[r].sched].here /\ task[run[r].sched].edition = run[r].edition
TargetUsable(r) == run[r].edition \in Heartbeats => target

At(r, await) == run[r].launch = await
Goes(r, await) == Become([Now EXCEPT !.run[r].launch = await]) /\ Quietly

\* The coroutine finds its attempt settled, aborted or the host closing.
LaunchAbandoned(r) == run[r].launch # "none" /\ ~CanDispatch(r) /\ Goes(r, "none")

\* launchPending fails: before the insert the error goes to the retries, after
\* it to complete().
Failed(r, bad) ==
    IF run[r].phase = "preparing"
    THEN AfterAttempt([Now EXCEPT !.run[r] = NoRun], run[r].sched, "none", "failed", bad)
    ELSE Complete([Now EXCEPT !.run[r].launch = "none"], r, "failed", bad)
LaunchFails(r) ==
    /\ run[r].launch # "none" /\ CanDispatch(r)
    /\ \E bad \in Faults : Become(Failed(r, bad)) /\ Spend(bad)
    /\ UNCHANGED target

\* Admission, insertRun and the call to the supervisor, with no await between
\* them. (A project that has moved since makes LaunchFails.)
Insert(r) ==
    /\ \E bad \in Faults :
         /\ Become(IF ~Admitted(r) \/ bad THEN Failed(r, bad)
                   ELSE [Now EXCEPT !.run[r].phase = "dispatching", !.run[r].row = "open",
                                    !.run[r].launch = IF run[r].edition \in Heartbeats THEN "send" ELSE "start"])
         /\ Spend(bad)
    /\ UNCHANGED target

ConfigReady(r) ==
    /\ At(r, "config") /\ CanDispatch(r) /\ TargetUsable(r)
    /\ IF run[r].edition \in Heartbeats THEN Goes(r, "cursor") ELSE Insert(r)
CursorRead(r) == At(r, "cursor") /\ CanDispatch(r) /\ TargetUsable(r) /\ Insert(r)

\* The supervisor has taken the prompt.
CallReturns(r) == run[r].launch \in {"start", "send", "resend"} /\ Goes(r, "none")

\* The conversation has no session: it is resumed first, with an empty prompt.
Revive(r) ==
    /\ At(r, "send") /\ CanDispatch(r) /\ TargetUsable(r)
    /\ Become([Now EXCEPT !.run[r].phase = "resuming", !.run[r].launch = "revive"])
    /\ Quietly
Resend(r) ==
    /\ At(r, "revive") /\ CanDispatch(r) /\ Admitted(r) /\ TargetUsable(r)
    /\ Become([Now EXCEPT !.run[r].phase = "dispatching", !.run[r].launch = "resend"])
    /\ Quietly

(***************************************************************************)
(* What the supervisor reports, the time limit, and the result.            *)
(***************************************************************************)
Listening(r) == host = "up" /\ run[r].phase = "dispatching"
Completes(r, status) ==
    /\ \E bad \in Faults : Become(Complete(Now, r, status, bad)) /\ Spend(bad)
    /\ UNCHANGED target

TurnActive(r) == Listening(r) /\ Become([Now EXCEPT !.run[r].active = TRUE]) /\ Quietly

\* An error ends the attempt at once, any other end only after the turn was seen.
TurnEnds(r) ==
    /\ Listening(r)
    /\ \E status \in Verdicts : (status = "failed" \/ run[r].active) /\ Completes(r, status)
Exited(r) == host = "up" /\ Held(r) /\ Completes(r, "stopped")
SupervisorReset ==
    /\ host = "up" /\ \E r \in Runs : Held(r)
    /\ \E bad \in Faults :
         /\ Become(StopAll(Now, Runs, bad))
         /\ Spend(bad)
    /\ UNCHANGED target

TimeLimit(r) == run[r].phase \in Unsettled /\ Completes(r, "failed")

\* The items of the turn have been read, or could not be; a success may have a
\* completion condition to evaluate.
Collected(r) ==
    /\ run[r].phase = "collecting"
    /\ \E readable, judged \in BOOLEAN, bad \in Faults :
         LET unread == run[r].verdict = "succeeded" /\ ~readable
             status == IF unread THEN "failed" ELSE run[r].verdict
         IN /\ Become(IF status = "succeeded" /\ judged
                      THEN [Now EXCEPT !.run[r].phase = "evaluating"]
                      ELSE Finish(Now, r, status, unread, bad))
            /\ Spend(bad)
    /\ UNCHANGED target

\* The completion condition was judged, or could not be.
Evaluated(r) ==
    /\ run[r].phase = "evaluating"
    /\ \E status \in {"succeeded", "failed"}, bad \in Faults :
         Become(Finish(Now, r, status, TRUE, bad)) /\ Spend(bad)
    /\ UNCHANGED target

(***************************************************************************)
(* The user.                                                               *)
(***************************************************************************)
CancelRun(r) ==
    /\ host = "up" /\ Held(r)
    /\ \E bad \in Faults :
         LET w == Complete(Now, r, "stopped", bad)
         IN /\ Become([w EXCEPT !.occ[run[r].sched].stopped = @ \/ w.run[r].phase = "collecting"])
            /\ Spend(bad)
    /\ UNCHANGED target
CancelRetry(s) ==
    /\ host = "up" /\ occ[s].pc = "wait" /\ occ[s].run # "none"
    /\ \E bad \in Faults : Become(WaitCancelled(Now, s, bad)) /\ Spend(bad)
    /\ UNCHANGED target

\* What update and delete do to the occurrence under way: the retry wait ends,
\* and an attempt that is still being prepared or resumed is cancelled. The
\* abort signal fires once.
Overtaken(w, s, bad) ==
    LET edited == [w EXCEPT !.occ[s].edited = TRUE]
        early == {r \in Runs : w.run[r].sched = s /\ w.run[r].phase \in {"preparing", "resuming"}}
    IN IF w.occ[s].pc = "off" \/ w.occ[s].edited THEN w
       ELSE IF w.occ[s].pc = "wait" THEN WaitCancelled(edited, s, bad)
       ELSE StopAll(edited, early, bad)

Update(s) ==
    /\ host = "up" /\ task[s].here
    /\ \E e \in EditionsOf[s], bad \in Faults :
         Become(Overtaken([Now EXCEPT !.task[s].edition = e], s, bad)) /\ Spend(bad)
    /\ UNCHANGED target

\* The rows of its runs go with the schedule.
Delete(s) ==
    /\ host = "up" /\ task[s].here
    /\ \E bad \in Faults :
         LET gone == [r \in Runs |-> IF run[r].sched # s THEN run[r] ELSE [run[r] EXCEPT !.row = "none"]]
         IN Become(Overtaken([Now EXCEPT !.task[s] = NoTask, !.run = gone], s, bad)) /\ Spend(bad)
    /\ UNCHANGED target
Create(s) ==
    /\ host = "up" /\ ~task[s].here /\ occ[s].pc = "off"
    /\ \A r \in Runs : run[r].phase = "none" \/ run[r].sched # s
    /\ \E e \in EditionsOf[s] : task' = [task EXCEPT ![s] = New(e)]
    /\ UNCHANGED <<host, occ, run, target, faults>>

\* The user takes or leaves the conversation.
TargetChanges == target' = ~target /\ UNCHANGED <<host, task, occ, run, faults>>
(***************************************************************************)
(* The host ends and starts.                                               *)
(***************************************************************************)
\* Both services are disposed in one turn of the loop: waits end, attempts end
\* as interrupted, and nothing new starts.
Dispose ==
    /\ host = "up"
    /\ \E bad \in Faults :
         Become(StopAll(WaitsCancelled([Now EXCEPT !.host = "closing"], bad), Runs, bad)) /\ Spend(bad)
    /\ UNCHANGED target

\* Every launch and settlement has been joined; results in custody are written,
\* or the shutdown fails and is asked for again.
Joined == \A r \in Runs : run[r].launch = "none" /\ run[r].phase \in {"none", "kept"}
Close ==
    /\ host = "closing" /\ Joined
    /\ \E bad \in Faults :
         /\ IF Kept(Now) # {} /\ bad THEN UNCHANGED <<host, run>>
            ELSE host' = "closed" /\ run' = Recorded(Now).run
         /\ Spend(bad)
    /\ UNCHANGED <<task, occ, target>>

Crash ==
    /\ host \in {"up", "closing"}
    /\ host' = "down"
    /\ occ' = [s \in Schedules |-> NoOcc]
    /\ run' = [r \in Runs |-> IF run[r].row = "none" THEN NoRun
                              ELSE [NoRun EXCEPT !.sched = run[r].sched, !.row = run[r].row]]
    /\ UNCHANGED <<task, target, faults>>

\* dbInterruptScheduleRuns, for every schedule.
Sweep(row) == row \in {"open", "retrying", "lost"}

\* normalizeAfterStartup: the rows nobody will end, then the status.
Boot ==
    /\ host \in {"closed", "down"}
    /\ host' = "up"
    /\ \E bad \in Faults :
         /\ run' = [r \in Runs |->
                      IF ~Sweep(run[r].row) THEN run[r]
                      ELSE IF bad THEN [run[r] EXCEPT !.row = "lost"] ELSE NoRun]
         /\ task' = [s \in Schedules |->
                       IF task[s].status = "running" /\ ~bad
                       THEN [task[s] EXCEPT !.status = "other"] ELSE task[s]]
         /\ Spend(bad)
    /\ UNCHANGED <<occ, target>>

(***************************************************************************)
(* The specification.                                                      *)
(***************************************************************************)
LaunchStep(r) ==
    \/ LaunchAbandoned(r) \/ LaunchFails(r) \/ ConfigReady(r) \/ CursorRead(r)
    \/ CallReturns(r) \/ Revive(r) \/ Resend(r)

ScheduleNext ==
    \/ \E s \in Schedules : StartRun(s) \/ RetryFires(s) \/ CancelRetry(s)
                            \/ Update(s) \/ Delete(s) \/ Create(s)
    \/ \E r \in Runs : LaunchStep(r) \/ TurnActive(r) \/ TurnEnds(r) \/ Exited(r) \/ TimeLimit(r)
                       \/ Collected(r) \/ Evaluated(r) \/ CancelRun(r)
    \/ SupervisorReset \/ TargetChanges
    \/ Dispose \/ Close \/ Crash \/ Boot

ScheduleSpec == ScheduleInit /\ [][ScheduleNext]_scheduleVars

\* Requests to the supervisor are answered or time out, the database answers,
\* and timers fire. Fairness of the retry timer is strong only because all the
\* names of runs may be in use for a moment, which holds back no timer of the code.
ScheduleFairSpec ==
    /\ ScheduleSpec
    /\ \A r \in Runs : WF_scheduleVars(LaunchStep(r) \/ TimeLimit(r) \/ Collected(r) \/ Evaluated(r))
    /\ \A s \in Schedules : SF_scheduleVars(RetryFires(s))

(***************************************************************************)
(* Properties.                                                             *)
(***************************************************************************)

\* Nothing under way is left to itself. A run shown as active belongs to an
\* attempt the coordinator still holds (one whose result could not be written
\* included) or to a retry that is waiting, and after a clean shutdown or the
\* next start there is none other; an occurrence has exactly one attempt; no two
\* attempts hold the heartbeat conversation; and an attempt that nobody settles
\* is being launched or has its prompt at work. Excepted: a row whose write failed
\* where the code does not try again, and an edit that overtakes the first send
\* of a heartbeat, which is then resumed for nothing and sits until its time limit.
MineOf(s) == {r \in Runs : run[r].sched = s /\ run[r].phase \notin {"none", "kept"}}
NoRunLeftAlone ==
    /\ host = "closed" => \A r \in Runs : run[r].row \in {"none", "lost"}
    /\ host \in {"up", "closing"} =>
         /\ \A r \in Runs : run[r].row \in {"open", "retrying"} /\ ~Held(r) =>
              run[r].row = "retrying" /\ occ[run[r].sched].run = r /\ occ[run[r].sched].pc = "wait"
         /\ \A s \in Schedules : Cardinality(MineOf(s)) = IF occ[s].pc = "try" THEN 1 ELSE 0
         /\ \A r, q \in Runs : Held(r) /\ Held(q) /\ {run[r].edition, run[q].edition} \subseteq Heartbeats => r = q
         /\ \A r \in Runs : run[r].phase \in {"preparing", "resuming"} =>
              run[r].launch # "none" \/ (run[r].phase = "resuming" /\ occ[run[r].sched].edited)

\* After a schedule is edited or deleted, its earlier edition makes no further
\* attempt; and a prompt is only sent for the schedule and the conversation
\* as they are at that moment, whatever changed while the launch awaited.
EditsWin ==
    [][/\ \A s \in Schedules : occ[s].edited => occ'[s].pc # "wait" /\ occ'[s].attempt <= occ[s].attempt
       /\ \A r \in Runs : run'[r].launch \in {"start", "send", "resend"} /\ run[r].launch # run'[r].launch =>
            Admitted(r) /\ TargetUsable(r)]_scheduleVars

\* An occurrence whose run the user cancelled is not retried and not reported as
\* a success, however its turn ended.
CancelIsHonoured ==
    [][\A s \in Schedules : occ[s].stopped =>
         occ'[s].pc # "wait" /\ (occ'[s].pc = "off" => task'[s].status # "succeeded")]_scheduleVars

\* Every occurrence ends, whatever its launch, its turn or the disk does.
OccurrenceEnds == \A s \in Schedules : occ[s].pc # "off" ~> occ[s].pc = "off"
=============================================================================

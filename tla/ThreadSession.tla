--------------------------- MODULE ThreadSession ---------------------------
(***************************************************************************)
(* A chat thread of the supervisor: its sessions, what the user does with  *)
(* it and what the provider reports                                        *)
(* (supervisor/runtime/threadSessionManager.ts, threadSession/*.ts),       *)
(* around the follow-up queue of FollowUpQueue.                            *)
(*                                                                         *)
(* A direct input is a plain submit (entry = None) or the promotion of a   *)
(* queued entry to a steer.  Its pc:                                       *)
(*   new      -> begun     a promotion has reserved the thread             *)
(*   begun    -> waiting   it holds the queue's mutation lock; a submit    *)
(*                         reserves and waits at once                      *)
(*   waiting  -> ready     no dispatched turn is still being admitted      *)
(*   ready    -> handed    the provider, the steer slot or a restart has   *)
(*                         it, its caller awaits the outcome               *)
(*   accepted, refused     the outcome; done, failed once the caller acted *)
(***************************************************************************)
EXTENDS FollowUpQueue, FiniteSets

CONSTANTS
    NativeSteer,    \* may sessions steer a running turn? a set of BOOLEAN
    Races,          \* bound: the races the model admits, see RaceNames
    MaxSessions     \* bound: sessions the thread ever has

\* forcedSteer: a forced stop meets a staged steer.  lateFailure: the preparation of a
\* queued message fails after a direct input has begun.  orphanedSteer: a turn fails
\* under a staged steer.  crossedFailure: a direct input fails after another one began.
RaceNames == {"forcedSteer", "lateFailure", "orphanedSteer", "crossedFailure"}

ASSUME BoundsAssumption ==
    /\ NativeSteer \subseteq BOOLEAN
    /\ Races \subseteq RaceNames
    /\ MaxSessions \in Nat \ {0}

VARIABLES
    th,         \* the thread, see FollowUpQueue
    inputs,     \* the direct inputs
    lock,       \* the promotion that runs under mutate(), or None
    native,     \* the provider's sessions have steerTurn
    sessions,   \* sessions created so far
    queued,     \* history: entries the user queued
    withdrawn,  \* history: entries the user removed or rewrote
    given,      \* history: direct inputs handed to a provider
    begun,      \* history: entries a provider reported work on
    ran         \* history: entries whose turn a provider started or completed

histories == <<queued, withdrawn, given, begun, ran>>
vars == <<th, inputs, lock, native, sessions, histories>>

Live == th.cur # 0 /\ ~Has(th, "dead")
Working(w) == w.status = "working"
Promotes(d) == inputs[d].entry # None
Pc(d) == inputs[d].pc
Reserved == {"begun", "waiting", "ready", "handed", "accepted", "refused"}
Pcs == Reserved \cup {"new", "done", "failed"}
Fresh == [pc |-> "new", entry |-> None, on |-> 0]
Failed == [pc |-> "failed", entry |-> None, on |-> 0]

\* Direct inputs whose caller awaits an outcome, as f says.
Resolve(D, outcome) ==
    [d \in Inputs |-> IF d \in D /\ Pc(d) = "handed" THEN [inputs[d] EXCEPT !.pc = outcome]
                      ELSE inputs[d]]

Init ==
    /\ th = [items |-> <<>>, active |-> NoActive, pump |-> "off", turn |-> None, flags |-> {},
             res |-> 0, cur |-> 1, status |-> "idle", job |-> None, phase |-> "none",
             late |-> None, slot |-> None, restarts |-> <<>>]
    /\ inputs = [d \in Inputs |-> Fresh]
    /\ lock = None
    /\ native \in NativeSteer
    /\ sessions = 1
    /\ queued = {} /\ withdrawn = {} /\ given = {} /\ begun = {} /\ ran = {}

-----------------------------------------------------------------------------
(* The user's operations on the queue, one at a time under mutate().       *)

\* queueThreadFollowUp waits for a session that is starting.
Queue(e) ==
    /\ lock = None
    /\ Live /\ ~Has(th, "starting")
    /\ e \notin queued
    /\ queued' = queued \cup {e}
    /\ th' = LET w == [th EXCEPT !.items = Append(@, e)]
             IN Schedule(IF w.status \in {"error", "inactive"} THEN On(w, {"paused"}) ELSE w)
    /\ UNCHANGED <<inputs, lock, native, sessions, withdrawn, given, begun, ran>>

Reorder(i, k) ==
    /\ lock = None
    /\ i \in DOMAIN th.items /\ k \in DOMAIN th.items
    /\ th' = LET w == [th EXCEPT !.items = Moved(@, i, k)]
             IN Schedule(IF Head(w.items) = w.active.entry THEN w
                         ELSE CancelPreparation(w, w.active.entry))
    /\ UNCHANGED <<inputs, lock, native, sessions, histories>>

\* The edited message f takes the place of e.
Edit(e, f) ==
    /\ lock = None
    /\ e \in ToSet(th.items)
    /\ f \notin queued
    /\ queued' = queued \cup {f}
    /\ withdrawn' = withdrawn \cup {e}
    /\ th' = LET w == CancelPreparation(th, e)
             IN Schedule([w EXCEPT !.items = [k \in DOMAIN @ |-> IF @[k] = e THEN f ELSE @[k]]])
    /\ UNCHANGED <<inputs, lock, native, sessions, given, begun, ran>>

\* removeQueuedThreadFollowUp refuses an entry that is in flight.
RemoveEntry(e) ==
    /\ lock = None
    /\ e \in ToSet(th.items)
    /\ withdrawn' = withdrawn \cup {e}
    /\ th' = LET w == [CancelPreparation(th, e) EXCEPT !.items = Without(@, e)]
             IN IF th.active.entry = e THEN Schedule(EmitState(w)) ELSE EmitState(w)
    /\ UNCHANGED <<inputs, lock, native, sessions, queued, given, begun, ran>>

Resume ==
    /\ lock = None
    /\ Has(th, "paused")
    /\ th' = Schedule(Off(th, {"paused"}))
    /\ UNCHANGED <<inputs, lock, native, sessions, histories>>

-----------------------------------------------------------------------------
(* Turns and interrupts of the current session.                            *)

\* structuredTurnQueue.start.
Start(w, j) ==
    [On(Off(w, {"launch"}), {"quiet"}) EXCEPT
                             !.status = "working", !.job = j, !.phase = "setup",
                             !.late = IF w.phase \in {"none", "done"} THEN @ ELSE w.job]

StartDirect(w, d) == Start(NoteDirectTurn(w), d)

\* A provider that is gone, or reports a failure, runs no turn any more.
Silent(w) == [w EXCEPT !.job = None, !.phase = "none", !.late = None]

\* forceStopUnacknowledgedTurn with completeForcedStructuredInterrupt: the queue is
\* told while the thread still counts as working.
ForceStopped(w) ==
    LET a == OnForcedInterrupt(Silent(Off(On(w, {"dead"}), {"quiet", "stop"})))
    IN [a EXCEPT !.status = "idle", !.slot = None,
                 !.restarts = IF w.slot = None THEN @
                              ELSE Append(@, [job |-> w.slot, on |-> w.cur])]

\* interruptStructuredTurn; a turn that may not exist natively is stopped at once.
Interrupt(w) ==
    IF Has(w, "stop") \/ ~Working(w) THEN w
    ELSE IF Has(w, "quiet") THEN ForceStopped(w)
    ELSE On(w, {"stop"})

\* interruptThread.
Stop ==
    /\ th.slot = None \/ "forcedSteer" \in Races \/ ~Has(th, "quiet")
    /\ th' = LET w == PauseThread(th) IN IF Live THEN Interrupt(w) ELSE w
    /\ UNCHANGED <<inputs, lock, native, sessions, histories>>

\* pauseThreadFollowUps for the entry the user edits.
PauseForEdit ==
    /\ lock = None
    /\ th.items # <<>>
    /\ th' = PauseThread(th)
    /\ UNCHANGED <<inputs, lock, native, sessions, histories>>

\* The deadline of an interrupt has passed.
Watchdog ==
    /\ Live
    /\ Has(th, "stop") /\ Working(th)
    /\ th.slot = None \/ "forcedSteer" \in Races
    /\ th' = ForceStopped(th)
    /\ UNCHANGED <<inputs, lock, native, sessions, histories>>

\* clearPendingSteer of a staged steer.
ClearSteer ==
    /\ th.cur # 0 /\ th.slot # None
    /\ inputs' = Resolve({th.slot}, "refused")
    /\ th' = LET w == [th EXCEPT !.slot = None]
                 a == Off(w, {"awaiting"})
             IN IF ~Has(w, "direct") THEN w
                ELSE FinishDirect(IF Has(a, "done") THEN On(a, {"completed"}) ELSE a)
    /\ UNCHANGED <<lock, native, sessions, histories>>

-----------------------------------------------------------------------------
(* Direct inputs: sendThreadInput, steerQueuedThreadFollowUp, setPendingSteer. *)

\* waitForQueuedTurnAdmission: a turn that works is admitted.
AdmissionOpen(w) == w.active.stage = "sent" /\ w.active.end = "none"
JoinAdmission(w) ==
    IF AdmissionOpen(w) /\ Working(w) /\ ~Has(w, "quiet")
    THEN [w EXCEPT !.active.stage = "admitted"] ELSE w

Begin(d, e) ==
    /\ Pc(d) = "new"
    /\ e = None \/ e \in ToSet(th.items)
    /\ inputs' = [inputs EXCEPT ![d] = [pc |-> IF e = None THEN "waiting" ELSE "begun",
                                        entry |-> e, on |-> 0]]
    /\ th' = LET w == [th EXCEPT !.res = @ + 1] IN IF e = None THEN JoinAdmission(w) ELSE w
    /\ UNCHANGED <<lock, native, sessions, histories>>

\* A promotion takes the queue's lock and calls off the entry's own delivery; it
\* fails without a trace if the entry has left the FIFO.
Arrive(d) ==
    /\ Pc(d) = "begun"
    /\ lock = None
    /\ LET e == inputs[d].entry
       IN IF e \in ToSet(th.items)
          THEN /\ inputs' = [inputs EXCEPT ![d].pc = "waiting"]
               /\ th' = JoinAdmission(CancelPreparation(th, e))
               /\ lock' = d
          ELSE /\ inputs' = [inputs EXCEPT ![d] = Failed]
               /\ th' = Release(th)
               /\ UNCHANGED lock
    /\ UNCHANGED <<native, sessions, histories>>

\* The awaited admission is settled, and so is that of a steer that was drained.
Admitted(d) ==
    /\ Pc(d) = "waiting"
    /\ ~AdmissionOpen(th)
    /\ ~\E x \in Inputs: Pc(x) = "handed" /\ Promotes(x) /\ th.job = x /\ th.phase = "setup"
    /\ inputs' = [inputs EXCEPT ![d].pc = "ready"]
    /\ UNCHANGED <<th, lock, native, sessions, histories>>

Hand(d, pc) == [inputs EXCEPT ![d].pc = pc, ![d].on = th.cur]

\* No session, or one whose transport is gone: a submit restarts it.
SubmitToDead(d) ==
    /\ Pc(d) = "ready" /\ ~Has(th, "starting")
    /\ ~Live
    /\ IF th.cur # 0 /\ ~Promotes(d)
       THEN /\ inputs' = Hand(d, "handed")
            /\ th' = [NoteDirectTurn(MarkStarted(th, FALSE)) EXCEPT
                         !.restarts = Append(@, [job |-> d, on |-> th.cur])]
       ELSE /\ inputs' = Hand(d, "refused")
            /\ th' = IF th.cur = 0 THEN th ELSE MarkStarted(th, FALSE)
    /\ UNCHANGED <<lock, native, sessions, histories>>

\* Fault: a submit keeps its reservation.
HandOverHolding(w, d) == w

\* A submit that was handed over releases its reservation; the caller of a promotion
\* waits for the start of its turn.
HandOver(w, d) == IF Promotes(d) THEN w ELSE Release(w)
HandedOver(d) ==
    [Resolve({th.slot}, "refused") EXCEPT
        ![d].pc = IF Promotes(d) THEN "handed" ELSE "done",
        ![d].on = IF Promotes(d) THEN th.cur ELSE 0]

\* An idle session starts the input as an ordinary turn; a steer staged before it is
\* replaced.
SubmitToIdle(d) ==
    /\ Pc(d) = "ready" /\ ~Has(th, "starting")
    /\ Live /\ ~Working(th)
    /\ inputs' = HandedOver(d)
    /\ given' = given \cup {d}
    /\ th' = HandOver(StartDirect([MarkStarted(th, FALSE) EXCEPT !.slot = None], d), d)
    /\ UNCHANGED <<lock, native, sessions, queued, withdrawn, begun, ran>>

\* steerStructuredTurn: the message joins the running turn.
SteerNatively(d) ==
    /\ Pc(d) = "ready" /\ ~Has(th, "starting")
    /\ Live /\ Working(th) /\ native
    /\ inputs' = Hand(d, "handed")
    /\ th' = Off(MarkStarted(th, FALSE), {"awaiting", "completed"})
    /\ UNCHANGED <<lock, native, sessions, histories>>

\* stagePendingSteer with fireSteerInterrupt: the latest steer waits in the slot for
\* the running turn to stop.
StageSteer(d) ==
    /\ Pc(d) = "ready" /\ ~Has(th, "starting")
    /\ Live /\ Working(th) /\ ~native
    /\ "forcedSteer" \in Races \/ ~Has(th, "quiet")
    /\ inputs' = HandedOver(d)
    /\ th' = HandOver(Interrupt([MarkStarted(th, TRUE) EXCEPT !.slot = d]), d)
    /\ UNCHANGED <<lock, native, sessions, histories>>

\* The caller returns: an accepted promotion takes its entry out of the FIFO.
Accepted(d) ==
    /\ Pc(d) = "accepted"
    /\ inputs' = [inputs EXCEPT ![d].pc = "done", ![d].on = 0]
    /\ lock' = IF lock = d THEN None ELSE lock
    /\ th' = Release(IF Promotes(d)
                     THEN EmitState([th EXCEPT !.items = Without(@, inputs[d].entry)])
                     ELSE th)
    /\ UNCHANGED <<native, sessions, histories>>

\* The direct inputs that the provider, the steer slot or a restart has.
Underway == Inputs \cap ({th.job, th.slot} \cup {th.restarts[i].job: i \in DOMAIN th.restarts})

\* A promotion that was meant for an earlier session leaves the current one alone.
Refused(d) ==
    /\ Pc(d) = "refused"
    /\ Underway \subseteq {d} \/ "crossedFailure" \in Races
    /\ inputs' = [inputs EXCEPT ![d] = Failed]
    /\ lock' = IF lock = d THEN None ELSE lock
    /\ th' = Release(IF Promotes(d) /\ inputs[d].on \notin {0, th.cur}
                     THEN th ELSE DirectInputFailed(th))
    /\ UNCHANGED <<native, sessions, histories>>

-----------------------------------------------------------------------------
(* The pump.                                                               *)

\* The entry leaves the FIFO: to the provider, or to a restart of the dead session.
Dispatch(w) ==
    LET e == w.active.entry
        a == [w EXCEPT !.items = Tail(@), !.active.stage = "sent"]
    IN IF Has(a, "dead")
       THEN [On(a, {"replacing", "restarting"}) EXCEPT
                !.restarts = Append(@, [job |-> e, on |-> a.cur])]
       ELSE Start(a, e)

\* Every readiness gate is checked again after the preparation.
StillDeliverable(w) == CanDeliver(Drop(w)) /\ w.active.on = w.cur /\ Head(w.items) = w.active.entry

Prepared ==
    /\ th.pump = "preparing"
    /\ th' = LET w == [th EXCEPT !.pump = "ending"]
             IN IF w.active.stage # "preparing" THEN w
                ELSE IF StillDeliverable(w) THEN Dispatch(w)
                ELSE IF CanDeliver(Drop(w)) THEN AdmissionFailed(w)
                ELSE EmitState(Restore(w))
    /\ UNCHANGED <<inputs, lock, native, sessions, histories>>

\* The preparation fails, or startTurn refuses the prepared turn.
PrepareFails ==
    /\ th.pump = "preparing"
    /\ th.res > 0 \/ Has(th, "direct") => "lateFailure" \in Races
    /\ th' = LET w == [th EXCEPT !.pump = "ending"]
             IN IF w.active.stage # "preparing" THEN w ELSE AdmissionFailed(w)
    /\ UNCHANGED <<inputs, lock, native, sessions, histories>>

PumpEnds ==
    /\ th.pump = "ending"
    /\ th' = LET w == [th EXCEPT !.pump = "off"]
             IN IF Has(w, "again") THEN Schedule(Off(w, {"again"})) ELSE EmitState(w)
    /\ UNCHANGED <<inputs, lock, native, sessions, histories>>

-----------------------------------------------------------------------------
(* The provider of the current session.  It says that it works, that the turn   *)
(* has started and completed, and that it is idle; completion and idle may come *)
(* in either order, and a completion may even come after the next turn began,   *)
(* though not after that turn's own.                                            *)
(* What a provider whose session is gone says is not heard.                     *)

SaysWorking ==
    /\ Live
    /\ th.phase \in {"setup", "live"}
    /\ th' = OnUpdate([Off(th, {"quiet"}) EXCEPT !.status = "working"], "working")
    /\ begun' = begun \cup ({th.job} \cap Entries)
    /\ UNCHANGED <<inputs, lock, native, sessions, queued, withdrawn, given, ran>>

SaysStarted ==
    /\ Live
    /\ th.phase = "setup"
    /\ th' = OnTurnStarted([Off(th, {"launch"}) EXCEPT !.phase = "live"], th.job)
    /\ inputs' = Resolve({th.job}, "accepted")
    /\ begun' = begun \cup ({th.job} \cap Entries)
    /\ ran' = ran \cup ({th.job} \cap Entries)
    /\ UNCHANGED <<lock, native, sessions, queued, withdrawn, given>>

SaysCompleted(end) ==
    /\ Live
    /\ th.phase \in {"live", "tail"} /\ th.late = None
    /\ th' = OnTurnCompleted(IF th.phase = "live" THEN [Off(th, {"quiet"}) EXCEPT !.phase = "done"]
                             ELSE [Off(th, {"quiet"}) EXCEPT !.phase = "none", !.job = None],
                             th.job, end)
    /\ UNCHANGED <<inputs, lock, native, sessions, histories>>

SaysLateCompletion ==
    /\ Live
    /\ th.late # None
    /\ th' = OnTurnCompleted([Off(th, {"quiet"}) EXCEPT !.late = None], th.late, "completed")
    /\ UNCHANGED <<inputs, lock, native, sessions, histories>>

\* handleStructuredUpdate of a settled status: the steer slot is drained before the
\* queue hears of it.  A provider is idle only after it reported work.
SaysIdle ==
    /\ Live
    /\ th.phase \in {"live", "done"}
    /\ ~Has(th, "quiet")
    /\ LET w == [Off(th, {"stop"}) EXCEPT !.status = "idle",
                                          !.phase = IF @ = "live" THEN "tail" ELSE "none",
                                          !.job = IF th.phase = "live" THEN @ ELSE None]
       IN /\ th' = OnUpdate(IF w.slot = None THEN w
                            ELSE StartDirect([w EXCEPT !.slot = None], w.slot), "idle")
          /\ given' = IF w.slot = None THEN given ELSE given \cup {w.slot}
    /\ UNCHANGED <<inputs, lock, native, sessions, queued, withdrawn, begun, ran>>

\* request.opened and request.resolved.
Asks ==
    /\ Live
    /\ th.phase = "live" /\ ~Has(th, "asks")
    /\ th' = On(Off(th, {"quiet"}), {"asks"})
    /\ UNCHANGED <<inputs, lock, native, sessions, histories>>

Answered ==
    /\ Live
    /\ Has(th, "asks")
    /\ th' = FinishOrSchedule(Off(th, {"asks"}))
    /\ UNCHANGED <<inputs, lock, native, sessions, histories>>

\* failStructuredSession: startTurn is rejected.  It leaves the steer slot alone.
Fails ==
    /\ Live
    /\ th.job # None
    /\ th.slot = None \/ "orphanedSteer" \in Races
    /\ th' = PauseForFailure([Silent(th) EXCEPT !.status = "error"])
    /\ inputs' = Resolve({th.job}, "refused")
    /\ UNCHANGED <<lock, native, sessions, histories>>

\* A prompt that needs no turn; its held-back idle status is published first.  Only that
\* of a restart is reported to the queue as a status.
CompletesWithoutTurn ==
    /\ Live
    /\ th.phase = "setup" /\ Has(th, "quiet") /\ th.late = None
    /\ LET w == [Off(th, {"quiet", "launch"}) EXCEPT !.status = "idle", !.phase = "none",
                                                    !.job = None]
           v == IF Has(th, "launch") THEN FinishOrSchedule(OnDirectWithoutTurn(w))
                ELSE IF th.job \in Inputs THEN OnDirectWithoutTurn(w) ELSE w
       IN th' = IF th.job \in Inputs THEN v
                ELSE FinishOrSchedule(IF v.active.stage # "none" /\ v.active.entry = th.job
                                      THEN [v EXCEPT !.active.end = "completed"] ELSE v)
    /\ inputs' = Resolve({th.job}, "accepted")
    /\ begun' = begun \cup ({th.job} \cap Entries)
    /\ ran' = ran \cup ({th.job} \cap Entries)
    /\ UNCHANGED <<lock, native, sessions, queued, withdrawn, given>>

\* steerTurn is answered: the message joined the turn, or no turn was left to join
\* and the provider starts one or refuses.
SteerJoins(d) ==
    /\ Pc(d) = "handed" /\ native /\ Live
    /\ inputs[d].on = th.cur /\ d \notin given
    /\ th.phase = "live"
    /\ inputs' = Resolve({d}, "accepted")
    /\ given' = given \cup {d}
    /\ UNCHANGED <<th, lock, native, sessions, queued, withdrawn, begun, ran>>

SteerFallsBack(d) ==
    /\ Pc(d) = "handed" /\ native /\ Live
    /\ inputs[d].on = th.cur /\ d \notin given
    /\ th.job = None
    /\ th' = [th EXCEPT !.job = d, !.phase = "setup"]
    /\ given' = given \cup {d}
    /\ UNCHANGED <<inputs, lock, native, sessions, queued, withdrawn, begun, ran>>

SteerRefused(d) ==
    /\ Pc(d) = "handed" /\ native
    /\ inputs[d].on # 0 /\ d \notin given
    /\ ~\E i \in DOMAIN th.restarts: th.restarts[i].job = d
    /\ inputs[d].on # th.cur \/ ~Live \/ th.job = None
    /\ inputs' = Resolve({d}, "refused")
    /\ th' = IF inputs[d].on = th.cur THEN PauseForFailure([th EXCEPT !.status = "error"]) ELSE th
    /\ UNCHANGED <<lock, native, sessions, histories>>

\* A start its session did not live to answer is rejected; the caller of a restart
\* returns as soon as the prompt is submitted.
StartRejected(d) ==
    /\ Pc(d) = "handed" /\ d \in given /\ th.job # d
    /\ inputs' = Resolve({d}, "refused")
    /\ UNCHANGED <<th, lock, native, sessions, histories>>

PromptSubmitted(d) ==
    /\ Pc(d) = "handed" /\ d \in given
    /\ ~Promotes(d) /\ inputs[d].on # th.cur
    /\ inputs' = Resolve({d}, "accepted")
    /\ UNCHANGED <<th, lock, native, sessions, histories>>

\* handleStructuredSessionClosed: the transport is gone.
Closes ==
    /\ Live
    /\ th' = LET a == OnSessionClosing(Silent(Off(th, {"quiet", "stop"})))
             IN On([a EXCEPT !.status = IF @ = "error" THEN @ ELSE "inactive"], {"dead"})
    /\ UNCHANGED <<inputs, lock, native, sessions, histories>>

-----------------------------------------------------------------------------
(* Sessions that are closed, replaced, started and restarted.              *)

\* The session is no longer in the map; what it held is gone with it.
Gone(w) ==
    [Silent(Off(w, {"dead", "quiet", "stop", "launch"})) EXCEPT !.cur = 0, !.status = "inactive",
                                                      !.slot = None]

Attach(w, status) ==
    OnSessionAttached([Silent(Off(w, {"dead", "quiet", "stop", "starting", "launch"})) EXCEPT
                          !.cur = sessions + 1, !.status = status, !.slot = None])

CloseThread ==
    /\ th.cur # 0
    /\ th' = Gone(OnSessionClosing(th))
    /\ UNCHANGED <<inputs, lock, native, sessions, histories>>

\* startThread.  It is refused while a restart holds the thread's execution slot.
StartThread ==
    /\ ~Has(th, "starting") /\ th.restarts = <<>>
    /\ sessions < MaxSessions
    /\ th' = On(IF th.cur = 0 THEN th ELSE Gone(OnSessionClosing(BeginReplacement(th))),
                {"starting"})
    /\ UNCHANGED <<inputs, lock, native, sessions, histories>>

Started ==
    /\ Has(th, "starting")
    /\ sessions' = sessions + 1
    /\ th' = Attach(th, "idle")
    /\ UNCHANGED <<inputs, lock, native, histories>>

StartFails ==
    /\ Has(th, "starting")
    /\ th' = LET w == Off(th, {"starting"})
             IN IF Has(w, "replacing") THEN ReplacementFailed(w) ELSE w
    /\ UNCHANGED <<inputs, lock, native, sessions, histories>>

\* restartThread of the restart that holds the execution slot; the message that caused
\* it is handed to the new session at once.
RestartAttaches ==
    /\ th.restarts # <<>>
    /\ Head(th.restarts).on = th.cur /\ Has(th, "dead")
    /\ sessions < MaxSessions
    /\ sessions' = sessions + 1
    /\ LET j == Head(th.restarts).job
       IN /\ th' = [Attach([th EXCEPT !.restarts = Tail(@)], "working") EXCEPT
                       !.job = j, !.phase = "setup", !.flags = @ \cup {"quiet", "launch"}]
          /\ given' = given \cup ({j} \cap Inputs)
    /\ UNCHANGED <<inputs, lock, native, queued, withdrawn, begun, ran>>

\* What the caller of the restart at i does when it fails.
RestartRejected(w, j) ==
    IF j \in Entries
    THEN LET a == Off(w, {"restarting", "replacing"})
         IN IF a.active.stage # "none" /\ a.active.entry = j THEN AdmissionFailed(a) ELSE a
    ELSE w

\* A restart fails, or is refused because another one holds the slot.
RestartFails(i) ==
    /\ i \in DOMAIN th.restarts
    /\ th.restarts[i].on = th.cur
    /\ LET j == th.restarts[i].job
       IN /\ th' = LET w == [th EXCEPT !.restarts = RemoveAt(@, i), !.status = "error"]
                   IN IF j \in Inputs /\ (Promotes(j) \/ Pc(j) # "handed") THEN PauseForFailure(w)
                      ELSE RestartRejected(w, j)
          /\ inputs' = Resolve({j}, "refused")
    /\ UNCHANGED <<lock, native, sessions, histories>>

\* The session it restarts is not the thread's session any more: the restart returns
\* without a result, which its caller takes for success.
RestartAbandoned(i) ==
    /\ i \in DOMAIN th.restarts
    /\ th.restarts[i].on # th.cur
    /\ LET j == th.restarts[i].job
           w == [th EXCEPT !.restarts = RemoveAt(@, i)]
       IN /\ th' = IF j \in Entries /\ Has(w, "restarting") THEN RestartRejected(w, j) ELSE w
          /\ inputs' = Resolve({j}, "accepted")
    /\ UNCHANGED <<lock, native, sessions, histories>>

-----------------------------------------------------------------------------
Submits(d) == SubmitToDead(d) \/ SubmitToIdle(d) \/ SteerNatively(d) \/ StageSteer(d)

Next ==
    \/ \E e \in Entries: Queue(e) \/ RemoveEntry(e)
    \/ \E i, k \in DOMAIN th.items: Reorder(i, k)
    \/ \E e, f \in Entries: Edit(e, f)
    \/ Resume \/ Stop \/ PauseForEdit \/ Watchdog \/ ClearSteer
    \/ \E d \in Inputs: \E e \in Entries \cup {None}: Begin(d, e)
    \/ \E d \in Inputs: Arrive(d) \/ Admitted(d) \/ Submits(d) \/ Accepted(d) \/ Refused(d)
    \/ Prepared \/ PrepareFails \/ PumpEnds
    \/ SaysWorking \/ SaysStarted \/ SaysLateCompletion \/ SaysIdle \/ Asks \/ Answered
    \/ \E end \in {"completed", "failed"}: SaysCompleted(end)
    \/ Fails \/ CompletesWithoutTurn \/ Closes
    \/ \E d \in Inputs: SteerJoins(d) \/ SteerFallsBack(d) \/ SteerRefused(d)
                         \/ StartRejected(d) \/ PromptSubmitted(d)
    \/ CloseThread \/ StartThread \/ Started \/ StartFails \/ RestartAttaches
    \/ \E i \in DOMAIN th.restarts: RestartFails(i) \/ RestartAbandoned(i)

Spec == Init /\ [][Next]_vars

-----------------------------------------------------------------------------
\* Types; the fields of the thread are those of FollowUpQueue.
TypeOK ==
    /\ th \in Threads
    /\ inputs \in [Inputs -> [pc: Pcs, entry: Entries \cup {None}, on: Nat]]
    /\ lock \in Inputs \cup {None}
    /\ native \in BOOLEAN
    /\ sessions \in Nat
    /\ queued \subseteq Entries /\ withdrawn \subseteq Entries
    /\ given \subseteq Inputs /\ begun \subseteq Entries /\ ran \subseteq Entries

\* Every direct input holds its reservation until its caller returns, on whichever path:
\* one that leaks holds the queue back for ever, one released twice lets it overtake.
ReservationsBalance == th.res = Cardinality({d \in Inputs: Pc(d) \in Reserved})

\* What a promotion has taken out of the FIFO.
Steered == {inputs[d].entry: d \in {x \in Inputs: Pc(x) \in {"accepted", "done"}}}

\* A queued message is never lost: until the user withdraws it, or a provider has taken
\* it up, it waits in the FIFO or is the one being delivered.  (The paths that clear
\* record.active have to put back whatever was not admitted.)
NothingLost == queued \ (withdrawn \cup begun \cup Steered) \subseteq Held(th)

\* A message whose turn a provider started never returns to the FIFO, where it would be
\* sent again (restoreActive against turnId and admitted).
NoReplay ==
    /\ ran \cap ToSet(th.items) = {}
    /\ th.active.stage = "preparing" => th.active.entry \notin ran

\* A message the user removed or rewrote stays removed: no delivery that was being
\* prepared, and no failure that puts a message back, brings the old text back.
WithdrawnStaysWithdrawn == withdrawn \cap Held(th) = {}

\* The dispatch of a queued message.
Dispatches == th.active.stage = "preparing" /\ th'.active.stage \in {"sent", "admitted"}

\* The queue believes a thread quiet from what was reported, in whatever order; it hands a
\* message over only when the provider really runs no turn and no question is open.
QueueStartsOnlyWhenQuiet ==
    [][Dispatches => th.phase \in {"none", "done"} /\ ~Has(th, "asks")]_vars

\* Direct submits and steers stay ahead of FIFO delivery: while one of them is with a
\* provider or a restart that has not answered, the queue starts nothing.
DirectInputGoesFirst ==
    [][Dispatches => /\ \A d \in Inputs: Pc(d) # "handed"
                     /\ \A i \in DOMAIN th.restarts: th.restarts[i].job \notin Inputs]_vars

\* Nobody has to poke an unpaused queue on a live session: whenever a message could be
\* delivered, the pump runs.
NoLostWakeup == Live /\ CanDeliver(th) => th.pump # "off"

\* A direct input waits for the queue's own turn to be admitted, and the queue waits for
\* the input's reservation: nobody waits for a delivery that no provider and no restart
\* has any more.
AdmissionIsOwed ==
    AdmissionOpen(th) =>
        \/ Live /\ th.job = th.active.entry
        \/ \E i \in DOMAIN th.restarts: th.restarts[i].job = th.active.entry
=============================================================================

--------------------------- MODULE FollowUpQueue ---------------------------
(***************************************************************************)
(* The follow-up queue of one chat thread                                  *)
(* (supervisor/runtime/threadSession/followUpQueueCoordinator.ts).         *)
(*                                                                         *)
(* Handlers of the supervisor are synchronous and call each other: a       *)
(* provider event finishes the active entry, which starts the pump, which  *)
(* takes the next entry.  Each handler is therefore an operator from one   *)
(* state of the thread to the next, and an action of ThreadSession is the  *)
(* composition the code makes.  A state of the thread is a record:         *)
(*                                                                         *)
(*   items, active, pump   the QueueRecord: FIFO, the entry being prepared *)
(*                         or delivered, the asynchronous delivery loop    *)
(*   turn                  the canonical turn the lifecycle knows          *)
(*   flags                 the Booleans that hold, see Flags               *)
(*   res                   direct inputs that hold a reservation           *)
(*   cur, status           current session of the thread and its status    *)
(*   job, phase, late      what the provider of that session really does   *)
(*   slot                  the steer staged for the running turn           *)
(*   restarts              restarts of a dead session that are under way   *)
(*                                                                         *)
(* A turn is named after the entry or direct input it was started for.     *)
(* The last six fields are ThreadSession's.                                *)
(***************************************************************************)
EXTENDS Integers, Sequences, SequencesExt

CONSTANTS
    Entries,        \* queued messages; an edited message is a new one
    Inputs,         \* direct inputs: submits, steers and promoted entries
    None            \* no entry, no input, no turn

ASSUME NamesAssumption ==
    /\ Entries \cap Inputs = {}
    /\ None \notin Entries \cup Inputs

Jobs == Entries \cup Inputs

\* paused, replacing, restarting, again: of the QueueRecord (again is pumpAgain).
\* done (turnCompleted), direct, awaiting (directAwaitingReplacement), completed
\* (directCompletion), asks (pendingRequestIds is not empty): of the ThreadLifecycle.
\* dead (ignoreExit), quiet (suppressInitialStructuredIdle), stop
\* (structuredTurnInterruptRequested), starting (startLocks): of the session.
\* launch: its turn is the one a restart spawned it with.
Flags == {"paused", "replacing", "restarting", "again",
          "done", "direct", "awaiting", "completed", "asks",
          "dead", "quiet", "stop", "starting", "launch"}

\* preparing until it is dispatched, sent until the provider admits it.
NoActive == [entry |-> None, on |-> 0, stage |-> "none", turn |-> None, end |-> "none"]
Stages == {"none", "preparing", "sent", "admitted"}
Actives == [entry: Entries \cup {None}, on: Nat, stage: Stages, turn: Jobs \cup {None},
            end: {"none", "completed", "failed"}]

Threads ==
    [items: Seq(Entries), active: Actives, pump: {"off", "preparing", "ending"},
     turn: Jobs \cup {None}, flags: SUBSET Flags, res: Int, cur: Nat,
     status: {"idle", "working", "error", "inactive"},
     job: Jobs \cup {None}, phase: {"none", "setup", "live", "done", "tail"},
     late: Jobs \cup {None}, slot: Inputs \cup {None},
     restarts: Seq([job: Jobs, on: Nat])]

Has(w, f) == f \in w.flags
On(w, F) == [w EXCEPT !.flags = @ \cup F]
Off(w, F) == [w EXCEPT !.flags = @ \ F]

\* The FIFO without e, and with the message at i moved to k.
Without(s, e) ==
    LET i == CHOOSE k \in DOMAIN s: s[k] = e
    IN IF e \in ToSet(s) THEN [k \in 1 .. Len(s) - 1 |-> IF k < i THEN s[k] ELSE s[k + 1]] ELSE s
Moved(s, i, k) ==
    [j \in 1 .. Len(s) |-> IF j = k THEN s[i]
                           ELSE IF i <= j /\ j < k THEN s[j + 1]
                           ELSE IF k < j /\ j <= i THEN s[j - 1] ELSE s[j]]

\* The messages the queue still has to deliver or is delivering.
Held(w) == ToSet(w.items) \cup (IF w.active.stage = "none" THEN {} ELSE {w.active.entry})

\* The record exists while it has something to do; without it the flags of a
\* replacement are gone (the paused mark is kept per thread).
Present(w) == w.items # <<>> \/ w.active.stage # "none" \/ w.pump # "off"
EmitState(w) == IF Present(w) THEN w ELSE Off(w, {"replacing", "restarting", "again"})

-----------------------------------------------------------------------------
(* Delivery: readiness, the pump, and what puts an entry back.             *)

\* Fault: a reserved direct input does not hold the queue back.
ReadyDespiteReservation(w) ==
    /\ w.cur # 0
    /\ w.status \in {"idle", "error"} \/ (Has(w, "dead") /\ w.status = "inactive")
    /\ w.turn = None
    /\ w.flags \cap {"done", "direct", "asks"} = {}

\* Fault: an idle status ends a turn, whether its completion was reported or not.
ReadyWhenIdle(w) ==
    /\ w.cur # 0
    /\ w.status \in {"idle", "error"} \/ (Has(w, "dead") /\ w.status = "inactive")
    /\ w.flags \cap {"direct", "asks"} = {}
    /\ w.res = 0

\* isReady for a live session, isRestartReady for one whose transport is gone.
Ready(w) ==
    /\ w.cur # 0
    /\ w.status \in {"idle", "error"} \/ (Has(w, "dead") /\ w.status = "inactive")
    /\ w.turn = None
    /\ w.flags \cap {"done", "direct", "asks"} = {}
    /\ w.res = 0

CanDeliver(w) ==
    /\ w.flags \cap {"paused", "replacing"} = {}
    /\ w.active.stage = "none"
    /\ w.items # <<>>
    /\ Ready(w)

\* schedulePump, with the part of runPump that runs before it awaits the prepared
\* turn.  (A turn prepared by an earlier attempt is reused without awaiting; the
\* model always lets other events in between.)
Schedule(w) ==
    IF ~Present(w) THEN w
    ELSE IF w.pump # "off" THEN On(w, {"again"})
    ELSE IF CanDeliver(w)
         THEN [w EXCEPT !.pump = "preparing",
                        !.active = [NoActive EXCEPT !.entry = Head(w.items), !.on = w.cur,
                                                    !.stage = "preparing"]]
         ELSE [w EXCEPT !.pump = "ending"]

Drop(w) == [w EXCEPT !.active = NoActive]

\* restoreActive: an entry that had left the FIFO comes back in front.
Restore(w) ==
    [w EXCEPT !.active = NoActive,
              !.items = IF w.active.stage = "none" \/ w.active.entry \in ToSet(w.items)
                        THEN w.items ELSE <<w.active.entry>> \o w.items]

DropOrRestore(w, taken) == IF taken THEN Drop(w) ELSE Restore(w)

PauseThread(w) ==
    LET p == On(w, {"paused"}) IN
    EmitState(IF p.active.stage = "preparing" THEN Restore(p) ELSE p)

\* Fault: an entry that is rewritten or promoted is still being prepared.
KeepPreparation(w, e) == w

\* cancelPreparation: the pump finds its entry gone when the turn is prepared.
CancelPreparation(w, e) ==
    IF w.active.entry = e /\ w.active.stage = "preparing" THEN Drop(w) ELSE w

-----------------------------------------------------------------------------
(* The lifecycle of turns and direct input.                                *)

ResetTurn(w) == Off([w EXCEPT !.turn = None], {"done"})
EndDirect(w) == Off(w, {"direct", "awaiting", "completed"})

\* maybeFinishDirect, with the change callback it ends with.
FinishDirect(w) ==
    IF /\ {"direct", "completed"} \subseteq w.flags
       /\ w.flags \cap {"awaiting", "asks"} = {}
       /\ w.status = "idle"
       /\ w.res = 0
    THEN Schedule(ResetTurn(Off(w, {"direct", "completed"})))
    ELSE w

DirectChanged(w) == Schedule(FinishDirect(w))

\* finishActiveIfReady: completion AND a settled status end the active entry.
FinishActive(w) ==
    IF w.active.end # "none" /\ w.status = "idle" /\ ~Has(w, "asks")
    THEN EmitState(ResetTurn(Drop(IF w.active.end = "completed" THEN w ELSE On(w, {"paused"}))))
    ELSE w

FinishOrSchedule(w) ==
    Schedule(IF w.active.stage # "none" /\ w.active.on = w.cur THEN FinishActive(w)
             ELSE IF Has(w, "direct") THEN FinishDirect(w)
             ELSE IF Has(w, "done") /\ ~Has(w, "asks") THEN ResetTurn(w)
             ELSE w)

\* Fault: whatever failed, the message goes back to the FIFO.
PauseForFailureReplaying(w) ==
    LET p == IF Present(w) THEN EmitState(On(Restore(w), {"paused"})) ELSE w
    IN ResetTurn(Off(EndDirect(p), {"asks"}))

\* Fault: the message that failed is forgotten, even if its turn never began.
PauseForFailureForgetting(w) ==
    LET p == IF Present(w) THEN EmitState(On(Drop(w), {"paused"})) ELSE w
    IN ResetTurn(Off(EndDirect(p), {"asks"}))

\* pauseForFailure: only a turn that never began goes back.
PauseForFailure(w) ==
    LET p == IF Present(w)
             THEN EmitState(On(DropOrRestore(w, w.active.turn # None), {"paused"}))
             ELSE w
    IN ResetTurn(Off(EndDirect(p), {"asks"}))

\* Provider-reported admission of the dispatched entry.
Admit(w) ==
    IF w.active.stage = "sent" /\ w.active.on = w.cur
    THEN [w EXCEPT !.active.stage = "admitted"] ELSE w

\* onStructuredUpdate.
OnUpdate(w, status) ==
    IF status = "error" THEN PauseForFailure(w)
    ELSE IF status = "working" THEN Admit(w)
    ELSE FinishOrSchedule(w)

\* turn.started of turn j.
OnTurnStarted(w, j) ==
    LET a == [Off(w, {"done"}) EXCEPT !.turn = j]
        b == IF {"direct"} = a.flags \cap {"direct", "awaiting"} THEN Off(a, {"completed"}) ELSE a
    IN IF b.active.stage \in {"sent", "admitted"} /\ b.active.on = b.cur
       THEN [b EXCEPT !.active.stage = "admitted", !.active.turn = j] ELSE b

\* turn.completed of turn j, with how it ended.
OnTurnCompleted(w, j, end) ==
    IF w.active.stage # "none" /\ w.active.on = w.cur /\ w.active.turn = j
    THEN FinishOrSchedule(On([w EXCEPT !.active.stage = "admitted", !.active.end = end], {"done"}))
    ELSE IF w.turn # j THEN w
    ELSE IF Has(w, "direct")
    THEN FinishDirect(On(w, IF Has(w, "awaiting") THEN {"done"} ELSE {"done", "completed"}))
    ELSE FinishOrSchedule(On(IF end = "completed" THEN w ELSE PauseThread(w), {"done"}))

\* onDirectTurnCompletedWithoutTurn.
OnDirectWithoutTurn(w) ==
    IF Has(w, "direct") THEN Schedule(FinishDirect(On(w, {"done", "completed"}))) ELSE w

\* markStarted of a direct input; interrupted: the running turn has to stop first.
MarkStarted(w, interrupted) ==
    LET a == IF w.active.stage \in {"sent", "admitted"} THEN Drop(w) ELSE w
        b == Off(On(a, {"direct"}), {"awaiting", "completed", "done"})
    IN DirectChanged(IF interrupted THEN On(b, {"awaiting"}) ELSE b)

\* noteDirectTurnSubmitted.
NoteDirectTurn(w) ==
    IF Has(w, "direct")
    THEN [Off(w, {"awaiting", "completed", "done"}) EXCEPT !.turn = None] ELSE w

\* Fault: nobody looks at the queue when a reservation is released.
ReleaseUnheard(w) == [w EXCEPT !.res = @ - 1]

Release(w) == DirectChanged([w EXCEPT !.res = @ - 1])

DirectInputFailed(w) == PauseThread(EndDirect(w))

-----------------------------------------------------------------------------
(* Sessions that close, are replaced or restarted.                         *)

\* onSessionClosing: a restart the queue itself runs keeps its entry.
OnSessionClosing(w) ==
    LET a == IF w.active.stage = "none" \/ Has(w, "restarting") THEN w
             ELSE DropOrRestore(w, w.active.stage = "admitted")
        b == IF Present(w) /\ ~Has(w, "replacing") THEN On(a, {"paused"}) ELSE a
    IN ResetTurn(Off(EndDirect(EmitState(b)), IF Has(w, "replacing") THEN {} ELSE {"asks"}))

BeginReplacement(w) == EndDirect(IF Present(w) THEN On(w, {"replacing"}) ELSE w)

ReplacementFailed(w) ==
    IF ~Present(w) THEN w
    ELSE EmitState(On(Off(DropOrRestore(w, w.active.turn # None), {"replacing", "restarting"}),
                      {"paused"}))

\* The entry of a queue-owned restart is bound to the new session.
Rebind(w) == [w EXCEPT !.active.on = w.cur, !.active.turn = None, !.active.end = "none"]

\* onSessionAttached; w.cur is the new session.
OnSessionAttached(w) ==
    LET a == IF w.active.stage = "none" \/ w.active.on = w.cur THEN w
             ELSE IF Has(w, "restarting") THEN Off(Rebind(w), {"restarting"})
             ELSE EmitState(DropOrRestore(w, w.active.turn # None))
    IN Schedule(ResetTurn(Off(a, {"replacing", "awaiting", "completed", "asks"})))

\* Fault: the message of the disposed provider stays in delivery.
KeepOnForcedInterrupt(w) == Schedule(EmitState(ResetTurn(Off(EndDirect(w), {"asks"}))))

\* onForcedInterrupt: a provider that was disposed reports nothing any more.
OnForcedInterrupt(w) ==
    LET a == ResetTurn(Off(EndDirect(w), {"asks"}))
    IN Schedule(EmitState(IF a.active.stage = "none" THEN a
                          ELSE DropOrRestore(a, a.active.stage = "admitted")))

\* handleAdmissionFailure of the active entry.
AdmissionFailed(w) ==
    LET a == Off(On(DropOrRestore(w, w.active.stage = "admitted"), {"paused"}),
                 {"restarting", "replacing"})
    IN EmitState(IF w.active.on = w.cur THEN ResetTurn(Off(a, {"direct"})) ELSE a)
=============================================================================

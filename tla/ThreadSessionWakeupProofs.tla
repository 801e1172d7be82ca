--------------------- MODULE ThreadSessionWakeupProofs ---------------------
(***************************************************************************)
(* Nobody has to poke the queue (NoLostWakeup), for any number of          *)
(* messages, direct inputs and sessions.                                   *)
(*                                                                         *)
(* The pump runs whenever a message could be delivered, for its operators  *)
(* look at the queue again whenever they may have made it ready; the rest  *)
(* is that no preparation is left over, and that a direct input ends by    *)
(* telling the queue.                                                      *)
(***************************************************************************)
EXTENDS ThreadSessionProofs

\* The pump looks at the queue once more.
Awake(w) == Up(w) /\ CanDeliver(w) => w.pump # "off" /\ Has(w, "again")

\* The message in preparation is in the FIFO; R: those that are promoted.
Aims(w, R) ==
    /\ Good(w)
    /\ w.res = 0 => R = {}
    /\ w.active.stage = "preparing" => w.active.entry \in ToSet(w.items) \ R

LEMMA ScheduledAwake ==
    ASSUME NEW w \in Threads
    PROVE  Awake(Schedule(w))
<1>1. CASE ~Present(w)
  <2>1. Schedule(w) = w /\ w.items = <<>>  BY <1>1 DEF Schedule, Present
  <2> QED  BY <2>1 DEF Awake, CanDeliver
<1>2. CASE Present(w) /\ w.pump # "off"
  <2>1. Schedule(w) = On(w, {"again"})  BY <1>2 DEF Schedule
  <2> QED  BY <1>2, <2>1, FlagsOn DEF Awake, Has
<1>3. CASE Present(w) /\ w.pump = "off" /\ CanDeliver(w)
  <2> DEFINE a == [NoActive EXCEPT !.entry = Head(w.items), !.on = w.cur, !.stage = "preparing"]
             v == [w EXCEPT !.pump = "preparing", !.active = a]
  <2>1. Schedule(w) = v  BY <1>3 DEF Schedule
  <2>2. a.stage = "preparing"  BY DEF NoActive
  <2> HIDE DEF a
  <2>3. v.active = a  BY DEF Threads
  <2> QED  BY <2>1, <2>2, <2>3 DEF Awake, CanDeliver
<1>4. CASE Present(w) /\ w.pump = "off" /\ ~CanDeliver(w)
  <2> DEFINE v == [w EXCEPT !.pump = "ending"]
  <2>1. Schedule(w) = v  BY <1>4 DEF Schedule
  <2>2. /\ v.flags = w.flags /\ v.active = w.active /\ v.items = w.items /\ v.cur = w.cur
        /\ v.status = w.status /\ v.turn = w.turn /\ v.res = w.res
    BY DEF Threads
  <2> HIDE DEF v
  <2>3. ~CanDeliver(v)  BY <1>4, <2>2 DEF CanDeliver, Ready, Has
  <2> QED  BY <2>1, <2>3 DEF Awake
<1> QED  BY <1>1, <1>2, <1>3, <1>4

LEMMA EmittedAwake ==
    ASSUME NEW w \in Threads, Awake(w)
    PROVE  Awake(EmitState(w))
<1>1. ~Present(w) => EmitState(w).items = <<>>
  <2>1. EmitState(w).items = w.items  BY FlagsEmit
  <2> QED  BY <2>1 DEF Present
<1>2. Present(w) => EmitState(w) = w  BY DEF EmitState
<1> QED  BY <1>1, <1>2 DEF Awake, CanDeliver

\* A paused queue waits for the user.
LEMMA PausedSleeps ==
    ASSUME NEW w, Has(w, "paused")
    PROVE  Awake(w)
  BY DEF Awake, CanDeliver, Has

LEMMA PauseSleeps ==
    ASSUME NEW w, Good(w)
    PROVE  Has(PauseThread(w), "paused") /\ Good(PauseThread(w))
<1> DEFINE p == On(w, {"paused"})
           r == IF p.active.stage = "preparing" THEN Restore(p) ELSE p
<1>1. w \in Threads  BY DEF Good
<1>2. p.flags = w.flags \cup {"paused"} /\ Keeps(w, p)  BY <1>1, FlagsOn, KeepsItself, PausedKeeps
<1> HIDE DEF p
<1>3. p \in Threads  BY <1>2 DEF Keeps, Good
<1>4. r.flags = p.flags /\ Keeps(w, r)
  <2>1. Restore(p).flags = p.flags  BY <1>3 DEF Restore, Threads
  <2> QED  BY <1>2, <2>1, RestoreKeeps
<1>5. PauseThread(w) = EmitState(r)  BY DEF PauseThread, p
<1> HIDE DEF r
<1>6. r \in Threads  BY <1>4 DEF Keeps, Good
<1>7. "paused" \in EmitState(r).flags  BY <1>2, <1>4, <1>6, FlagsEmit
<1>8. Keeps(w, EmitState(r))  BY <1>4, EmitKeeps
<1> QED  BY <1>5, <1>7, <1>8 DEF Has, Keeps

LEMMA ReleasedAwake ==
    ASSUME NEW w, Good(w)
    PROVE  /\ Awake(DirectChanged(w)) /\ Awake(FinishOrSchedule(w))
<1> DEFINE x == FinishDirect(w)
           y == IF w.active.stage # "none" /\ w.active.on = w.cur THEN FinishActive(w)
                ELSE IF Has(w, "direct") THEN FinishDirect(w)
                ELSE IF Has(w, "done") /\ ~Has(w, "asks") THEN ResetTurn(w)
                ELSE w
<1>1. Keeps(w, x) /\ Keeps(w, y)
  BY KeepsItself, FinishDirectKeeps, FinishActiveKeeps, ResetKeeps
<1>2. DirectChanged(w) = Schedule(x) /\ FinishOrSchedule(w) = Schedule(y)
  BY DEF DirectChanged, FinishOrSchedule
<1> HIDE DEF x, y
<1> QED  BY <1>1, <1>2, ScheduledAwake DEF Keeps, Good

-----------------------------------------------------------------------------
(* What the operators of the queue do to a preparation.                    *)

LEMMA AimsSame ==
    ASSUME NEW R, NEW w, Aims(w, R), NEW v, Keeps(w, v),
           v.active.stage # "preparing" \/ (v.active = w.active /\ v.items = w.items)
    PROVE  Aims(v, R)
  BY DEF Aims, Keeps, Same

LEMMA AimsFields ==
    ASSUME NEW R, NEW w, Aims(w, R)
    PROVE  /\ \A F \in SUBSET Flags : Aims(On(w, F), R)
           /\ \A F : Aims(Off(w, F), R)
           /\ \A p \in {"off", "preparing", "ending"} : Aims([w EXCEPT !.pump = p], R)
           /\ Aims(ResetTurn(w), R) /\ Aims(EmitState(w), R) /\ Aims(EndDirect(w), R)
<1>0. Good(w) /\ w \in Threads /\ Keeps(w, w)  BY KeepsItself DEF Aims, Good
<1>1. ASSUME NEW F \in SUBSET Flags  PROVE Aims(On(w, F), R)
  <2>1. Keeps(w, On(w, F))  BY <1>0, OnKeeps
  <2> QED  BY <1>0, <2>1, FlagsOn, AimsSame
<1>2. ASSUME NEW F  PROVE Aims(Off(w, F), R)
  <2>1. Keeps(w, Off(w, F))  BY <1>0, OffKeeps
  <2> QED  BY <1>0, <2>1, FlagsOff, AimsSame
<1>3. ASSUME NEW p \in {"off", "preparing", "ending"}  PROVE Aims([w EXCEPT !.pump = p], R)
  <2> DEFINE v == [w EXCEPT !.pump = p]
  <2>1. Keeps(w, v) /\ v.active = w.active /\ v.items = w.items  BY <1>0, PumpKeeps DEF Threads
  <2> HIDE DEF v
  <2>2. Aims(v, R)  BY <2>1, AimsSame
  <2> QED  BY <2>2 DEF v
<1>4. Aims(ResetTurn(w), R)
  <2>1. Keeps(w, ResetTurn(w))  BY <1>0, ResetKeeps
  <2> QED  BY <1>0, <2>1, FlagsReset, AimsSame
<1>5. Aims(EmitState(w), R)
  <2>1. Keeps(w, EmitState(w))  BY <1>0, EmitKeeps
  <2> QED  BY <1>0, <2>1, FlagsEmit, AimsSame
<1>6. Aims(EndDirect(w), R)  BY <1>2 DEF EndDirect
<1> QED  BY <1>1, <1>2, <1>3, <1>4, <1>5, <1>6

LEMMA AimsDrop ==
    ASSUME NEW R, NEW w, Aims(w, R)
    PROVE  /\ Aims(Drop(w), R) /\ Aims(Restore(w), R) /\ Drop(w).active = NoActive
           /\ Restore(w).active = NoActive /\ NoActive.stage = "none"
           /\ \A taken : Aims(DropOrRestore(w, taken), R)
           /\ \A e : Aims(CancelPreparation(w, e), R)
<1>0. w \in Threads /\ Keeps(w, w)  BY KeepsItself DEF Aims, Good
<1>1. Keeps(w, Drop(w)) /\ Keeps(w, Restore(w))  BY <1>0, DropKeeps, RestoreKeeps
<1>2. Drop(w).active = NoActive /\ Restore(w).active = NoActive /\ NoActive.stage = "none"
  BY <1>0 DEF Drop, Restore, Threads, NoActive
<1>3. Aims(Drop(w), R) /\ Aims(Restore(w), R)  BY <1>1, <1>2, AimsSame
<1> QED  BY <1>2, <1>3 DEF DropOrRestore, CancelPreparation

LEMMA AimsSchedule ==
    ASSUME NEW R, NEW w, Aims(w, R)
    PROVE  Aims(Schedule(w), R)
<1>0. w \in Threads /\ Good(w) /\ w.items \in Seq(Entries) /\ IsInjective(w.items)
  BY DEF Aims, Good, Once, Threads
<1>1. Aims(On(w, {"again"}), R) /\ Aims([w EXCEPT !.pump = "ending"], R)
  <2>1. {"again"} \in SUBSET Flags  BY DEF Flags
  <2> QED  BY <2>1, AimsFields
<1>2. ASSUME CanDeliver(w), Present(w), w.pump = "off"
      PROVE  Aims(Schedule(w), R)
  <2> DEFINE a == [NoActive EXCEPT !.entry = Head(w.items), !.on = w.cur, !.stage = "preparing"]
             v == [w EXCEPT !.pump = "preparing", !.active = a]
  <2>1. Schedule(w) = v  BY <1>2 DEF Schedule
  <2>2. a.entry = Head(w.items)  BY DEF NoActive
  <2> HIDE DEF a
  <2>3. v.active = a /\ v.items = w.items /\ v.res = w.res  BY <1>0 DEF Threads
  <2> HIDE DEF v
  <2>4. w.items # <<>> /\ w.res = 0  BY <1>2 DEF CanDeliver, Ready
  <2>5. Head(w.items) \in ToSet(w.items)  BY <1>0, <2>4, Tailed
  <2>6. Good(v)
    <3>1. Keeps(w, w)  BY <1>0, KeepsItself
    <3>2. Keeps(w, Schedule(w))  BY <3>1, ScheduleKeeps
    <3> QED  BY <2>1, <3>2 DEF Keeps
  <2> QED  BY <2>1, <2>2, <2>3, <2>4, <2>5, <2>6 DEF Aims
<1> QED  BY <1>1, <1>2 DEF Schedule

LEMMA AimsPause ==
    ASSUME NEW R, NEW w, Aims(w, R)
    PROVE  Aims(PauseThread(w), R)
<1> DEFINE p == On(w, {"paused"})
<1>1. Aims(p, R)  BY AimsFields DEF Flags
<1> HIDE DEF p
<1>2. Aims(IF p.active.stage = "preparing" THEN Restore(p) ELSE p, R)  BY <1>1, AimsDrop
<1> QED  BY <1>2, AimsFields DEF PauseThread, p

LEMMA AimsFinish ==
    ASSUME NEW R, NEW w, Aims(w, R)
    PROVE  /\ Aims(FinishDirect(w), R) /\ Aims(DirectChanged(w), R)
           /\ Aims(FinishActive(w), R) /\ Aims(FinishOrSchedule(w), R)
           /\ Aims(OnDirectWithoutTurn(w), R)
<1>0. {"paused"} \in SUBSET Flags /\ {"done", "completed"} \in SUBSET Flags  BY DEF Flags
<1>1. ASSUME NEW x, Aims(x, R)  PROVE Aims(FinishDirect(x), R)
  <2>1. Aims(Off(x, {"direct", "completed"}), R)  BY <1>1, AimsFields
  <2>2. Aims(ResetTurn(Off(x, {"direct", "completed"})), R)  BY <2>1, AimsFields
  <2> QED  BY <1>1, <2>2, AimsSchedule DEF FinishDirect
<1>2. Aims(FinishActive(w), R)
  <2>1. Aims(On(w, {"paused"}), R)  BY <1>0, AimsFields
  <2> DEFINE x == IF w.active.end = "completed" THEN w ELSE On(w, {"paused"})
  <2>2. Aims(x, R)  BY <2>1
  <2> HIDE DEF x
  <2>3. Aims(Drop(x), R)  BY <2>2, AimsDrop
  <2>4. Aims(ResetTurn(Drop(x)), R)  BY <2>3, AimsFields
  <2>5. Aims(EmitState(ResetTurn(Drop(x))), R)  BY <2>4, AimsFields
  <2> QED  BY <2>5 DEF FinishActive, x
<1>3. Aims(DirectChanged(w), R)  BY <1>1, AimsSchedule DEF DirectChanged
<1>4. Aims(FinishOrSchedule(w), R)
  BY <1>1, <1>2, AimsFields, AimsSchedule DEF FinishOrSchedule
<1>5. Aims(OnDirectWithoutTurn(w), R)
  <2>1. Aims(On(w, {"done", "completed"}), R)  BY <1>0, AimsFields
  <2> QED  BY <1>1, <2>1, AimsSchedule DEF OnDirectWithoutTurn
<1> QED  BY <1>1, <1>2, <1>3, <1>4, <1>5

LEMMA AimsFailure ==
    ASSUME NEW R, NEW w, Aims(w, R)
    PROVE  /\ Aims(PauseForFailure(w), R) /\ Aims(DirectInputFailed(w), R)
           /\ Aims(AdmissionFailed(w), R) /\ Aims(ReplacementFailed(w), R)
           /\ Aims(NoteDirectTurn(w), R)
<1>0. {"paused"} \in SUBSET Flags  BY DEF Flags
<1>1. Aims(PauseForFailure(w), R)
  <2> DEFINE r == DropOrRestore(w, w.active.turn # None)
             p == IF Present(w) THEN EmitState(On(r, {"paused"})) ELSE w
  <2>1. Aims(r, R)  BY AimsDrop
  <2> HIDE DEF r
  <2>2. Aims(On(r, {"paused"}), R)  BY <1>0, <2>1, AimsFields
  <2>3. Aims(p, R)  BY <2>2, AimsFields
  <2> HIDE DEF p
  <2>4. Aims(EndDirect(p), R)  BY <2>3, AimsFields
  <2>5. Aims(Off(EndDirect(p), {"asks"}), R)  BY <2>4, AimsFields
  <2>6. Aims(ResetTurn(Off(EndDirect(p), {"asks"})), R)  BY <2>5, AimsFields
  <2> QED  BY <2>6 DEF PauseForFailure, p, r
<1>2. Aims(DirectInputFailed(w), R)  BY AimsFields, AimsPause DEF DirectInputFailed
<1>3. Aims(AdmissionFailed(w), R)
  <2> DEFINE r == DropOrRestore(w, w.active.stage = "admitted")
             a == Off(On(r, {"paused"}), {"restarting", "replacing"})
  <2>1. Aims(r, R)  BY AimsDrop
  <2> HIDE DEF r
  <2>2. Aims(On(r, {"paused"}), R)  BY <1>0, <2>1, AimsFields
  <2>3. Aims(a, R)  BY <2>2, AimsFields
  <2> HIDE DEF a
  <2>4. Aims(Off(a, {"direct"}), R)  BY <2>3, AimsFields
  <2>5. Aims(ResetTurn(Off(a, {"direct"})), R)  BY <2>4, AimsFields
  <2> QED  BY <2>3, <2>5, AimsFields DEF AdmissionFailed, a, r
<1>4. Aims(ReplacementFailed(w), R)
  <2> DEFINE r == DropOrRestore(w, w.active.turn # None)
             a == Off(r, {"replacing", "restarting"})
  <2>1. Aims(r, R)  BY AimsDrop
  <2> HIDE DEF r
  <2>2. Aims(a, R)  BY <2>1, AimsFields
  <2> HIDE DEF a
  <2>3. Aims(On(a, {"paused"}), R)  BY <1>0, <2>2, AimsFields
  <2>4. Aims(EmitState(On(a, {"paused"})), R)  BY <2>3, AimsFields
  <2> QED  BY <2>4 DEF ReplacementFailed, a, r
<1>5. Aims(NoteDirectTurn(w), R)
  <2> DEFINE y == Off(w, {"awaiting", "completed", "done"})
             v == [y EXCEPT !.turn = None]
  <2>1. Aims(y, R)  BY AimsFields
  <2>2. y \in Threads /\ Keeps(y, y)  BY <2>1, KeepsItself DEF Aims, Good
  <2> HIDE DEF y
  <2>3. Keeps(y, v) /\ v.active = y.active /\ v.items = y.items  BY <2>2, TurnKeeps DEF Threads
  <2> HIDE DEF v
  <2>4. Aims(v, R)  BY <2>1, <2>3, AimsSame
  <2> QED  BY <2>4 DEF NoteDirectTurn, v, y
<1> QED  BY <1>1, <1>2, <1>3, <1>4, <1>5

LEMMA AimsMarked ==
    ASSUME NEW R, NEW w, Aims(w, R), NEW interrupted
    PROVE  Aims(MarkStarted(w, interrupted), R)
<1> DEFINE v == MarkStarted(w, interrupted)
<1>1. /\ Keeps(w, v) /\ v.items = w.items
      /\ v.active = IF w.active.stage \in {"sent", "admitted"} THEN NoActive ELSE w.active
  BY MarkedEffect DEF Aims
<1> HIDE DEF v
<1>2. NoActive.stage = "none"  BY DEF NoActive
<1>3. Aims(v, R)  BY <1>1, <1>2, AimsSame
<1> QED  BY <1>3 DEF v

LEMMA AimsCompleted ==
    ASSUME NEW R, NEW w, Aims(w, R), NEW j \in Jobs, NEW end \in {"completed", "failed"}
    PROVE  Aims(OnTurnCompleted(w, j, end), R)
<1>0. {"done"} \in SUBSET Flags /\ {"done", "completed"} \in SUBSET Flags  BY DEF Flags
<1>1. ASSUME w.active.stage # "none", w.active.turn = j
      PROVE  Aims([w EXCEPT !.active.stage = "admitted", !.active.end = end], R)
  <2> DEFINE c == [w.active EXCEPT !.stage = "admitted", !.end = end]
             v == [w EXCEPT !.active = c]
  <2>1. w.active \in Actives /\ Keeps(w, w) /\ Good(w)  BY KeepsItself DEF Aims, Good, Threads
  <2>2. c \in Actives /\ c.entry = w.active.entry /\ c.stage = "admitted"
    BY <2>1 DEF Actives, Stages
  <2>3. w.active.stage \in {"sent", "admitted"}
    BY <1>1, <2>1, NamesAssumption DEF Good, Once, Actives, Stages, Jobs
  <2>4. [w EXCEPT !.active.stage = "admitted", !.active.end = end] = v
    BY <2>1 DEF Good, Threads, Actives
  <2> HIDE DEF c
  <2>5. v.active = c  BY <2>1 DEF Good, Threads
  <2>6. Keeps(w, v)  BY <2>1, <2>2, <2>3, StageKeeps
  <2> HIDE DEF v
  <2>7. Aims(v, R)  BY <2>2, <2>5, <2>6, AimsSame
  <2> QED  BY <2>4, <2>7
<1>2. ASSUME w.active.stage # "none", w.active.turn = j
      PROVE  Aims(FinishOrSchedule(On([w EXCEPT !.active.stage = "admitted",
                                                    !.active.end = end], {"done"})), R)
  <2> DEFINE x == [w EXCEPT !.active.stage = "admitted", !.active.end = end]
  <2>1. Aims(x, R)  BY <1>1, <1>2
  <2> HIDE DEF x
  <2>2. Aims(On(x, {"done"}), R)  BY <1>0, <2>1, AimsFields
  <2>3. Aims(FinishOrSchedule(On(x, {"done"})), R)  BY <2>2, AimsFinish
  <2> QED  BY <2>3 DEF x
<1>3. Aims(On(w, {"done"}), R) /\ Aims(On(w, {"done", "completed"}), R)
  BY <1>0, AimsFields
<1>4. Aims(On(PauseThread(w), {"done"}), R)  BY <1>0, AimsPause, AimsFields
<1>5. Aims(FinishDirect(On(w, {"done"})), R) /\ Aims(FinishDirect(On(w, {"done", "completed"})), R)
      /\ Aims(FinishOrSchedule(On(w, {"done"})), R)
      /\ Aims(FinishOrSchedule(On(PauseThread(w), {"done"})), R)
  BY <1>3, <1>4, AimsFinish
<1> QED  BY <1>2, <1>5 DEF OnTurnCompleted

LEMMA AimsSessions ==
    ASSUME NEW R, NEW w, Aims(w, R)
    PROVE  Aims(OnForcedInterrupt(w), R) /\ Aims(OnSessionAttached(w), R)
<1>1. Aims(OnForcedInterrupt(w), R)
  <2> DEFINE e == EndDirect(w)
             f == Off(e, {"asks"})
             a == ResetTurn(f)
             g == IF a.active.stage = "none" THEN a
                  ELSE DropOrRestore(a, a.active.stage = "admitted")
  <2>1. Aims(e, R)  BY AimsFields
  <2> HIDE DEF e
  <2>2. Aims(f, R)  BY <2>1, AimsFields
  <2> HIDE DEF f
  <2>3. Aims(a, R)  BY <2>2, AimsFields
  <2> HIDE DEF a
  <2>4. Aims(g, R)  BY <2>3, AimsDrop
  <2> HIDE DEF g
  <2>5. Aims(Schedule(EmitState(g)), R)  BY <2>4, AimsFields, AimsSchedule
  <2> QED  BY <2>5 DEF OnForcedInterrupt, g, a, f, e
<1>2. Aims(OnSessionAttached(w), R)
  <2> DEFINE b == Rebind(w)
             x == Off(b, {"restarting"})
             d == DropOrRestore(w, w.active.turn # None)
             y == EmitState(d)
             a == IF w.active.stage = "none" \/ w.active.on = w.cur THEN w
                  ELSE IF Has(w, "restarting") THEN x ELSE y
             z == Off(a, {"replacing", "awaiting", "completed", "asks"})
             r == ResetTurn(z)
  <2>1. Aims(b, R)
    <3> DEFINE c == [w.active EXCEPT !.on = w.cur, !.turn = None, !.end = "none"]
    <3>1. Keeps(w, w) /\ w \in Threads /\ w.active \in Actives  BY KeepsItself DEF Aims, Good, Threads
    <3>2. Keeps(w, b)  BY <3>1, RebindKeeps
    <3>3. b = [w EXCEPT !.active = c]  BY <3>1 DEF Rebind, Threads, Actives
    <3>4. c.entry = w.active.entry /\ c.stage = w.active.stage  BY <3>1 DEF Actives
    <3> HIDE DEF c
    <3>5. b.active = c /\ b.items = w.items /\ b.res = w.res  BY <3>1, <3>3 DEF Threads
    <3> HIDE DEF b
    <3> QED  BY <3>2, <3>4, <3>5 DEF Aims, Keeps
  <2>2. Aims(d, R)  BY AimsDrop
  <2> HIDE DEF b, d
  <2>3. Aims(x, R) /\ Aims(y, R)  BY <2>1, <2>2, AimsFields
  <2> HIDE DEF x, y
  <2>4. Aims(a, R)  BY <2>3
  <2> HIDE DEF a
  <2>5. Aims(z, R)  BY <2>4, AimsFields
  <2> HIDE DEF z
  <2>6. Aims(r, R)  BY <2>5, AimsFields
  <2> HIDE DEF r
  <2>7. Aims(Schedule(r), R)  BY <2>6, AimsSchedule
  <2>8. OnSessionAttached(w) = Schedule(r)
    BY DEF OnSessionAttached, r, z, a, x, y, b, d
  <2> QED  BY <2>7, <2>8
<1> QED  BY <1>1, <1>2

-----------------------------------------------------------------------------
(* A direct input ends by telling the queue.                               *)

\* The queue will hear of the turn that was started for a direct input: the input is in
\* H, whose callers wait for it, or the queue counts it, or it was started by a restart.
Keen(w, H) ==
    /\ Good(w)
    /\ w.phase = "setup" /\ w.job \in Inputs
         => w.job \in H \/ Has(w, "direct") \/ Has(w, "launch") \/ w.status = "idle"

LEMMA KeenSame ==
    ASSUME NEW H, NEW w, Keen(w, H), NEW v, Keeps(w, v),
           Has(w, "direct") => Has(v, "direct") \/ w.status = "idle",
           Has(w, "launch") => Has(v, "launch")
    PROVE  Keen(v, H)
  BY DEF Keen, Keeps, Same

LEMMA KeenFields ==
    ASSUME NEW H, NEW w, Keen(w, H)
    PROVE  /\ \A F \in SUBSET Flags : Keen(On(w, F), H)
           /\ \A F : F \cap {"direct", "launch"} = {} \/ w.status = "idle" => Keen(Off(w, F), H)
           /\ \A p \in {"off", "preparing", "ending"} : Keen([w EXCEPT !.pump = p], H)
           /\ Keen(ResetTurn(w), H) /\ Keen(EmitState(w), H) /\ Keen(Drop(w), H) /\ Keen(Restore(w), H)
           /\ \A e : Keen(CancelPreparation(w, e), H)
<1>0. Good(w) /\ w \in Threads /\ Keeps(w, w)  BY KeepsItself DEF Keen, Good
<1>1. ASSUME NEW F \in SUBSET Flags  PROVE Keen(On(w, F), H)
  <2>1. Keeps(w, On(w, F)) /\ On(w, F).flags = w.flags \cup F  BY <1>0, OnKeeps, FlagsOn
  <2> QED  BY <2>1, KeenSame DEF Has
<1>2. ASSUME NEW F, F \cap {"direct", "launch"} = {} \/ w.status = "idle"
      PROVE  Keen(Off(w, F), H)
  <2>1. Keeps(w, Off(w, F)) /\ Off(w, F).flags = w.flags \ F  BY <1>0, OffKeeps, FlagsOff
  <2> HIDE DEF Off
  <2>2. CASE w.status = "idle"  BY <2>1, <2>2 DEF Keen, Keeps, Same
  <2>3. CASE F \cap {"direct", "launch"} = {}
    <3>1. "direct" \notin F /\ "launch" \notin F  BY <2>3
    <3> QED  BY <2>1, <3>1, KeenSame DEF Has
  <2> QED  BY <1>2, <2>2, <2>3
<1>3. ASSUME NEW p \in {"off", "preparing", "ending"}  PROVE Keen([w EXCEPT !.pump = p], H)
  <2> DEFINE v == [w EXCEPT !.pump = p]
  <2>1. Keeps(w, v) /\ v.flags = w.flags  BY <1>0, PumpKeeps DEF Threads
  <2> HIDE DEF v
  <2>2. Keen(v, H)  BY <2>1, KeenSame DEF Has
  <2> QED  BY <2>2 DEF v
<1>4. Keen(ResetTurn(w), H)
  <2>1. Keeps(w, ResetTurn(w)) /\ ResetTurn(w).flags = w.flags \ {"done"}
    BY <1>0, ResetKeeps, FlagsReset
  <2> QED  BY <2>1, KeenSame DEF Has
<1>5. Keen(EmitState(w), H)
  <2>1. Keeps(w, EmitState(w))  BY <1>0, EmitKeeps
  <2>2. \A g \in {"direct", "launch"} : g \in w.flags => g \in EmitState(w).flags
    BY <1>0, FlagsEmit
  <2> QED  BY <2>1, <2>2, KeenSame DEF Has
<1>6. Keen(Drop(w), H) /\ Keen(Restore(w), H)
  <2>1. Keeps(w, Drop(w)) /\ Keeps(w, Restore(w))  BY <1>0, DropKeeps, RestoreKeeps
  <2>2. Drop(w).flags = w.flags /\ Restore(w).flags = w.flags  BY <1>0 DEF Drop, Restore, Threads
  <2> QED  BY <2>1, <2>2, KeenSame DEF Has
<1>7. \A e : Keen(CancelPreparation(w, e), H)  BY <1>6 DEF CancelPreparation
<1> QED  BY <1>1, <1>2, <1>3, <1>4, <1>5, <1>6, <1>7

LEMMA KeenSchedule ==
    ASSUME NEW H, NEW w, Keen(w, H)
    PROVE  Keen(Schedule(w), H)
<1>0. w \in Threads /\ Keeps(w, w)  BY KeepsItself DEF Keen, Good
<1>1. Keeps(w, Schedule(w))  BY <1>0, ScheduleKeeps
<1>2. w.flags \subseteq Schedule(w).flags
  <2>1. CASE CanDeliver(w) /\ Present(w) /\ w.pump = "off"
    <3> DEFINE a == [NoActive EXCEPT !.entry = Head(w.items), !.on = w.cur, !.stage = "preparing"]
    <3>1. Schedule(w) = [w EXCEPT !.pump = "preparing", !.active = a]  BY <2>1 DEF Schedule
    <3> HIDE DEF a
    <3> QED  BY <1>0, <3>1 DEF Threads
  <2>2. CASE ~(CanDeliver(w) /\ Present(w) /\ w.pump = "off")
    <3>1. /\ On(w, {"again"}).flags = w.flags \cup {"again"}
          /\ [w EXCEPT !.pump = "ending"].flags = w.flags
      BY <1>0, FlagsOn DEF Threads
    <3> QED  BY <2>2, <3>1 DEF Schedule
  <2> QED  BY <2>1, <2>2
<1> QED  BY <1>1, <1>2, KeenSame DEF Has

LEMMA KeenPause ==
    ASSUME NEW H, NEW w, Keen(w, H)
    PROVE  Keen(PauseThread(w), H)
<1> DEFINE p == On(w, {"paused"})
<1>1. Keen(p, H)  BY KeenFields DEF Flags
<1> HIDE DEF p
<1>2. Keen(IF p.active.stage = "preparing" THEN Restore(p) ELSE p, H)  BY <1>1, KeenFields
<1> QED  BY <1>2, KeenFields DEF PauseThread, p

LEMMA KeenFinish ==
    ASSUME NEW H, NEW w, Keen(w, H)
    PROVE  /\ Keen(FinishDirect(w), H) /\ Keen(DirectChanged(w), H)
           /\ Keen(FinishActive(w), H) /\ Keen(FinishOrSchedule(w), H)
           /\ Keen(OnDirectWithoutTurn(w), H)
<1>0. {"paused"} \in SUBSET Flags /\ {"done", "completed"} \in SUBSET Flags  BY DEF Flags
<1>1. ASSUME NEW x, Keen(x, H)  PROVE Keen(FinishDirect(x), H)
  <2>1. CASE x.status = "idle"
    <3>1. Keen(Off(x, {"direct", "completed"}), H)  BY <1>1, <2>1, KeenFields
    <3>2. Keen(ResetTurn(Off(x, {"direct", "completed"})), H)  BY <3>1, KeenFields
    <3> QED  BY <1>1, <3>2, KeenSchedule DEF FinishDirect
  <2>2. CASE x.status # "idle"  BY <1>1, <2>2 DEF FinishDirect
  <2> QED  BY <2>1, <2>2
<1>2. Keen(FinishActive(w), H)
  <2>1. Keen(On(w, {"paused"}), H)  BY <1>0, KeenFields
  <2> DEFINE x == IF w.active.end = "completed" THEN w ELSE On(w, {"paused"})
  <2>2. Keen(x, H)  BY <2>1
  <2> HIDE DEF x
  <2>3. Keen(Drop(x), H)  BY <2>2, KeenFields
  <2>4. Keen(ResetTurn(Drop(x)), H)  BY <2>3, KeenFields
  <2>5. Keen(EmitState(ResetTurn(Drop(x))), H)  BY <2>4, KeenFields
  <2> QED  BY <2>5 DEF FinishActive, x
<1>3. Keen(DirectChanged(w), H)  BY <1>1, KeenSchedule DEF DirectChanged
<1>4. Keen(FinishOrSchedule(w), H)
  BY <1>1, <1>2, KeenFields, KeenSchedule DEF FinishOrSchedule
<1>5. Keen(OnDirectWithoutTurn(w), H)
  <2>1. Keen(On(w, {"done", "completed"}), H)  BY <1>0, KeenFields
  <2> QED  BY <1>1, <2>1, KeenSchedule DEF OnDirectWithoutTurn
<1> QED  BY <1>1, <1>2, <1>3, <1>4, <1>5

LEMMA KeenMarked ==
    ASSUME NEW H, NEW w, Keen(w, H), NEW interrupted
    PROVE  Keen(MarkStarted(w, interrupted), H)
<1> DEFINE v == MarkStarted(w, interrupted)
<1>1. Keeps(w, v) /\ Has(v, "direct") /\ (Has(w, "launch") => Has(v, "launch"))
  BY MarkedEffect DEF Keen
<1> HIDE DEF v
<1>2. Keen(v, H)  BY <1>1, KeenSame
<1> QED  BY <1>2 DEF v

-----------------------------------------------------------------------------
(* The invariant behind NoLostWakeup.                                      *)

Heeds(w, H, R) == Aims(w, R) /\ Keen(w, H)

\* The promotions that have called off the delivery of their own message.
Under == Reserved \ {"begun"}
Promoted == {inputs[d].entry : d \in {x \in Inputs : Pc(x) \in Under}}

\* No turn is left of an input that was refused.
Unrefused == th.job \in Inputs => Pc(th.job) # "refused"

Woken == Awake(th) /\ Heeds(th, Waiting, Promoted) /\ Unrefused
WInv == SInv /\ Woken

LEMMA HeedsOperators ==
    ASSUME NEW H, NEW R, NEW w, Heeds(w, H, R)
    PROVE  /\ w \in Threads /\ Good(w)
           /\ \A F \in SUBSET Flags : Heeds(On(w, F), H, R)
           /\ \A F : F \cap {"direct", "launch"} = {} => Heeds(Off(w, F), H, R)
           /\ \A p \in {"off", "preparing", "ending"} : Heeds([w EXCEPT !.pump = p], H, R)
           /\ Heeds(EmitState(w), H, R) /\ Heeds(Schedule(w), H, R)
           /\ Heeds(PauseThread(w), H, R) /\ Heeds(Restore(w), H, R)
           /\ \A e : Heeds(CancelPreparation(w, e), H, R)
           /\ Heeds(FinishDirect(w), H, R) /\ Heeds(DirectChanged(w), H, R)
           /\ Heeds(FinishOrSchedule(w), H, R) /\ Heeds(OnDirectWithoutTurn(w), H, R)
           /\ \A interrupted : Heeds(MarkStarted(w, interrupted), H, R)
<1>0. Aims(w, R) /\ Keen(w, H)  BY DEF Heeds
<1>1. w \in Threads /\ Good(w)  BY <1>0 DEF Keen, Good
<1>2. /\ \A F \in SUBSET Flags : Heeds(On(w, F), H, R)
      /\ \A F : F \cap {"direct", "launch"} = {} => Heeds(Off(w, F), H, R)
      /\ \A p \in {"off", "preparing", "ending"} : Heeds([w EXCEPT !.pump = p], H, R)
      /\ Heeds(EmitState(w), H, R)
  BY ONLY <1>0, AimsFields, KeenFields DEF Heeds
<1>3. Heeds(Restore(w), H, R) /\ \A e : Heeds(CancelPreparation(w, e), H, R)
  BY ONLY <1>0, AimsDrop, KeenFields DEF Heeds
<1>4. Heeds(Schedule(w), H, R) /\ Heeds(PauseThread(w), H, R)
  BY ONLY <1>0, AimsSchedule, KeenSchedule, AimsPause, KeenPause DEF Heeds
<1>5. Heeds(FinishDirect(w), H, R) /\ Heeds(DirectChanged(w), H, R)
      /\ Heeds(FinishOrSchedule(w), H, R) /\ Heeds(OnDirectWithoutTurn(w), H, R)
  BY ONLY <1>0, AimsFinish, KeenFinish DEF Heeds
<1>6. \A interrupted : Heeds(MarkStarted(w, interrupted), H, R)
  BY ONLY <1>0, AimsMarked, KeenMarked DEF Heeds
<1> QED  BY <1>1, <1>2, <1>3, <1>4, <1>5, <1>6

\* What changes the provider or the session leaves the preparation as it is.
LEMMA AimsElsewhere ==
    ASSUME NEW R, NEW w, Aims(w, R), NEW v \in Threads, v.items = w.items,
           v.active = w.active, v.res = w.res
    PROVE  Aims(v, R) /\ Good(v)
  BY DEF Aims, Good, Once

LEMMA HeedsElsewhere ==
    ASSUME NEW H, NEW R, NEW w, Heeds(w, H, R), NEW v \in Threads, v.items = w.items,
           v.active = w.active, v.res = w.res,
           v.phase # "setup" \/ v.job \notin Inputs
             \/ v.job \in H \/ Has(v, "direct") \/ Has(v, "launch") \/ v.status = "idle"
    PROVE  Heeds(v, H, R)
  BY AimsElsewhere DEF Heeds, Keen

LEMMA HeedsItems ==
    ASSUME NEW H, NEW R, NEW w, Heeds(w, H, R), NEW s \in Seq(Entries), IsInjective(s),
           w.active.stage \in {"sent", "admitted"} => w.active.entry \notin ToSet(s),
           w.active.stage = "preparing" => w.active.entry \in ToSet(s)
    PROVE  Heeds([w EXCEPT !.items = s], H, R)
<1> DEFINE v == [w EXCEPT !.items = s]
<1>1. w \in Threads /\ Aims(w, R) /\ Keen(w, H)  BY DEF Heeds, Aims, Good
<1>2. v \in Threads  BY <1>1 DEF Threads
<1>3. v.items = s /\ v.active = w.active /\ v.flags = w.flags /\ v.turn = w.turn /\ Same(w, v)
  BY <1>1 DEF Threads, Same
<1> HIDE DEF v
<1>4. Good(v)  BY <1>1, <1>2, <1>3 DEF Aims, Good, Once
<1> QED  BY <1>1, <1>3, <1>4 DEF Heeds, Aims, Keen, Has, Same, v

\* A step that no caller hears of.
LEMMA Alike ==
    ASSUME WInv, inputs' = inputs, th'.cur = th.cur, Heeds(th', Waiting, Promoted), Awake(th'),
           th'.job \in {th.job, None} \cup Entries
    PROVE  Woken'
<1>1. Promoted' = Promoted /\ Waiting' = Waiting  BY DEF Promoted, Waiting, Pc
<1>2. Unrefused'  BY NamesAssumption DEF WInv, Woken, Unrefused, Pc
<1> QED  BY <1>1, <1>2 DEF Woken

LEMMA StartsHeeding ==
    ASSUME WInv
    PROVE  /\ Heeds(th, Waiting, Promoted) /\ Awake(th) /\ Good(th) /\ th \in Threads
           /\ Keeps(th, th) /\ SInv /\ IInv
<1>1. Heeds(th, Waiting, Promoted) /\ Awake(th) /\ SInv  BY DEF WInv, Woken
<1>2. Good(th)  BY <1>1 DEF Heeds, Aims
<1> QED  BY <1>1, <1>2, KeepsItself DEF Good, SInv

LEMMA Stirred ==
    ASSUME WInv, inputs' = inputs, Stays(th, th'), Heeds(th', Waiting, Promoted), Awake(th')
    PROVE  Woken'
  BY Alike DEF Stays

\* What was put in order is scheduled.
LEMMA Scheduled ==
    ASSUME WInv, inputs' = inputs, Stays(th, th'), NEW w, Heeds(w, Waiting, Promoted),
           th' = Schedule(w)
    PROVE  Woken'
<1>1. Heeds(th', Waiting, Promoted) /\ Awake(th')  BY HeedsOperators, ScheduledAwake
<1> QED  BY <1>1, Stirred

LEMMA QueueWoken ==
    ASSUME WInv, NEW e \in Entries, Queue(e)
    PROVE  Woken'
<1> DEFINE s == Append(th.items, e)
           w == [th EXCEPT !.items = s]
           x == IF w.status \in {"error", "inactive"} THEN On(w, {"paused"}) ELSE w
<1>1. Stays(th, th') /\ inputs' = inputs  BY StartsHeeding, QueueServed DEF Queue
<1>2. e \notin Held(th)  BY StartsHeeding DEF IInv, Books, Queue
<1>3. th.items \in Seq(Entries) /\ IsInjective(th.items) /\ Once(th)
  BY StartsHeeding DEF Threads, Good, Once
<1>4. s \in Seq(Entries) /\ IsInjective(s) /\ ToSet(s) = {e} \cup ToSet(th.items)
  BY <1>2, <1>3, Appended DEF Held
<1> HIDE DEF s
<1>5. th.active.stage \in {"sent", "admitted"} => th.active.entry \notin ToSet(s)
  BY <1>2, <1>3, <1>4 DEF Held, Once
<1>6. th.active.stage = "preparing" => th.active.entry \in ToSet(s)
  BY <1>4, StartsHeeding DEF Heeds, Aims
<1>7. Heeds(w, Waiting, Promoted)  BY <1>4, <1>5, <1>6, StartsHeeding, HeedsItems
<1>8. th' = Schedule(x)  BY DEF Queue, s
<1> HIDE DEF w
<1>9. {"paused"} \in SUBSET Flags  BY DEF Flags
<1>10. Heeds(x, Waiting, Promoted)  BY <1>7, <1>9, HeedsOperators
<1> HIDE DEF x
<1> QED  BY <1>1, <1>8, <1>10, Scheduled

LEMMA ReorderWoken ==
    ASSUME WInv, NEW i \in DOMAIN th.items, NEW k \in DOMAIN th.items, Reorder(i, k)
    PROVE  Woken'
<1> DEFINE q == th.items
           s == Moved(q, i, k)
           w == [th EXCEPT !.items = s]
           x == IF Head(w.items) = w.active.entry THEN w ELSE CancelPreparation(w, w.active.entry)
<1>1. Stays(th, th') /\ inputs' = inputs  BY StartsHeeding, ReorderServed DEF Reorder
<1>2. q \in Seq(Entries) /\ IsInjective(q) /\ Once(th) /\ i \in DOMAIN q /\ k \in DOMAIN q
  BY StartsHeeding DEF Threads, Good, Once
<1>3. th' = Schedule(x)  BY DEF Reorder
<1>4. ToSet(q) = ToSet(th.items)  OBVIOUS
<1> HIDE DEF q
<1>5. s \in Seq(Entries) /\ IsInjective(s) /\ ToSet(s) = ToSet(q)
  <2>1. s \in Seq(Entries) /\ IsInjective(s) /\ ToSet(s) \subseteq ToSet(q)  BY <1>2, Reordered
  <2>2. ToSet(q) \subseteq ToSet(s)  BY <1>2, MovedAll
  <2> QED  BY <2>1, <2>2
<1> HIDE DEF s
<1>6. /\ th.active.stage \in {"sent", "admitted"} => th.active.entry \notin ToSet(s)
      /\ th.active.stage = "preparing" => th.active.entry \in ToSet(s)
  BY <1>2, <1>4, <1>5, StartsHeeding DEF Once, Heeds, Aims
<1>7. Heeds(w, Waiting, Promoted)  BY <1>5, <1>6, StartsHeeding, HeedsItems
<1> HIDE DEF w
<1>8. Heeds(x, Waiting, Promoted)  BY <1>7, HeedsOperators
<1> HIDE DEF x
<1> QED  BY <1>1, <1>3, <1>8, Scheduled

LEMMA EditWoken ==
    ASSUME WInv, NEW e \in Entries, NEW f \in Entries, Edit(e, f)
    PROVE  Woken'
<1> DEFINE w == CancelPreparation(th, e)
           q == w.items
           s == [k \in DOMAIN q |-> IF q[k] = e THEN f ELSE q[k]]
           v == [w EXCEPT !.items = s]
<1>1. Stays(th, th') /\ inputs' = inputs  BY StartsHeeding, EditServed DEF Edit
<1>2. e \in ToSet(th.items) /\ f \notin queued  BY DEF Edit
<1>3. f \notin Held(th)  BY <1>2, StartsHeeding DEF IInv, Books
<1>4. w.items = th.items /\ (w.active.stage # "none" => w.active.entry # e)
  BY <1>2, StartsHeeding, CancelledOut
<1>5. Heeds(w, Waiting, Promoted)  BY StartsHeeding, HeedsOperators
<1>6. Held(w) \subseteq Held(th)  BY StartsHeeding, CancelKeeps DEF Keeps
<1>7. th' = Schedule(v)  BY DEF Edit
<1> HIDE DEF w
<1>8. Good(w) /\ (w.active.stage = "preparing" => w.active.entry \in ToSet(q))
  BY <1>5 DEF Heeds, Aims
<1>9. q \in Seq(Entries) /\ IsInjective(q) /\ e \in ToSet(q) /\ f \notin ToSet(q)
  BY <1>2, <1>3, <1>4, <1>8 DEF Good, Threads, Once, Held
<1>10. w.active.stage # "none" => w.active.entry # f  BY <1>3, <1>6 DEF Held
<1>11. w.active.stage \in {"sent", "admitted"} => w.active.entry \notin ToSet(q)
  BY <1>8 DEF Good, Once
<1> HIDE DEF q
<1>12. s \in Seq(Entries) /\ IsInjective(s) /\ ToSet(s) = (ToSet(q) \ {e}) \cup {f}
  <2>1. s \in Seq(Entries) /\ IsInjective(s) /\ ToSet(s) \subseteq (ToSet(q) \ {e}) \cup {f}
    BY <1>9, Replaced
  <2>2. (ToSet(q) \ {e}) \cup {f} \subseteq ToSet(s)  BY <1>9, ReplacedAll
  <2> QED  BY <2>1, <2>2
<1> HIDE DEF s
<1>13. /\ w.active.stage \in {"sent", "admitted"} => w.active.entry \notin ToSet(s)
       /\ w.active.stage = "preparing" => w.active.entry \in ToSet(s)
  BY <1>4, <1>8, <1>10, <1>11, <1>12
<1>14. Heeds(v, Waiting, Promoted)  BY <1>5, <1>12, <1>13, HeedsItems
<1> HIDE DEF v
<1> QED  BY <1>1, <1>7, <1>14, Scheduled

LEMMA RemoveWoken ==
    ASSUME WInv, NEW e \in Entries, RemoveEntry(e)
    PROVE  Woken'
<1> DEFINE w == CancelPreparation(th, e)
           q == w.items
           s == Without(q, e)
           v == [w EXCEPT !.items = s]
<1>1. Stays(th, th') /\ inputs' = inputs  BY StartsHeeding, RemoveServed DEF RemoveEntry
<1>2. e \in ToSet(th.items)  BY DEF RemoveEntry
<1>3. w.items = th.items /\ (w.active.stage # "none" => w.active.entry # e)
  BY <1>2, StartsHeeding, CancelledOut
<1>4. Heeds(w, Waiting, Promoted)  BY StartsHeeding, HeedsOperators
<1>5. th' = IF th.active.entry = e THEN Schedule(EmitState(v)) ELSE EmitState(v)
  BY DEF RemoveEntry
<1>6. th.active.entry # e => w = th  BY DEF CancelPreparation
<1> HIDE DEF w
<1>7. Good(w) /\ (w.active.stage = "preparing" => w.active.entry \in ToSet(q))
  BY <1>4 DEF Heeds, Aims
<1>8. q \in Seq(Entries) /\ IsInjective(q)  BY <1>7 DEF Good, Threads, Once
<1>9. w.active.stage \in {"sent", "admitted"} => w.active.entry \notin ToSet(q)
  BY <1>7 DEF Good, Once
<1>10. q # <<>>
  <2>1. q = th.items  BY <1>3
  <2> QED  BY <1>2, <2>1 DEF ToSet
<1> HIDE DEF q
<1>11. s \in Seq(Entries) /\ IsInjective(s) /\ ToSet(s) = ToSet(q) \ {e}
  BY <1>8, Removed, WithoutAll
<1> HIDE DEF s
<1>12. /\ w.active.stage \in {"sent", "admitted"} => w.active.entry \notin ToSet(s)
       /\ w.active.stage = "preparing" => w.active.entry \in ToSet(s)
  BY <1>3, <1>7, <1>9, <1>11
<1>13. Heeds(v, Waiting, Promoted)  BY <1>4, <1>11, <1>12, HeedsItems
<1>14. th.active.entry # e => Awake(v)
  <2> SUFFICES ASSUME th.active.entry # e PROVE Awake(v)  OBVIOUS
  <2>1. w = th  BY <1>6
  <2>2. /\ v.active = th.active /\ v.flags = th.flags /\ v.pump = th.pump /\ v.cur = th.cur
        /\ v.status = th.status /\ v.turn = th.turn /\ v.res = th.res
    BY <2>1, StartsHeeding DEF Threads
  <2>3. th.items # <<>>  BY <1>3, <1>10, <2>1 DEF q
  <2> HIDE DEF v
  <2>4. CanDeliver(v) => CanDeliver(th)  BY <2>2, <2>3 DEF CanDeliver, Ready, Has
  <2>5. Up(v) <=> Up(th)  BY <2>2 DEF Up, Has
  <2> QED  BY <2>2, <2>4, <2>5, StartsHeeding DEF Awake, Has
<1> HIDE DEF v
<1>15. v \in Threads /\ Heeds(EmitState(v), Waiting, Promoted)  BY <1>13, HeedsOperators
<1>16. CASE th.active.entry = e
  <2>1. th' = Schedule(EmitState(v))  BY <1>5, <1>16
  <2> QED  BY <1>1, <1>15, <2>1, Scheduled
<1>17. CASE th.active.entry # e
  <2>1. th' = EmitState(v)  BY <1>5, <1>17
  <2>2. Awake(th')  BY <1>14, <1>15, <1>17, <2>1, EmittedAwake
  <2> QED  BY <1>1, <1>15, <2>1, <2>2, Stirred
<1> QED  BY <1>16, <1>17

LEMMA ResumeWoken ==
    ASSUME WInv, Resume
    PROVE  Woken'
<1>1. Stays(th, th') /\ inputs' = inputs  BY StartsHeeding, ResumeServed DEF Resume
<1> DEFINE w == Off(th, {"paused"})
<1>2. {"paused"} \cap {"direct", "launch"} = {}  OBVIOUS
<1>3. Heeds(w, Waiting, Promoted)  BY <1>2, StartsHeeding, HeedsOperators
<1>4. th' = Schedule(w)  BY DEF Resume
<1> HIDE DEF w
<1> QED  BY <1>1, <1>3, <1>4, Scheduled

LEMMA AimsForced ==
    ASSUME NEW R, NEW w, Aims(w, R)
    PROVE  Aims(ForceStopped(w), R)
<1> DEFINE o == On(w, {"dead"})
           y == Off(o, {"quiet", "stop"})
           z == Silent(y)
           a == OnForcedInterrupt(z)
           f == [a EXCEPT !.status = "idle", !.slot = None,
                          !.restarts = IF w.slot = None THEN @
                                       ELSE Append(@, [job |-> w.slot, on |-> w.cur])]
<1>1. Aims(o, R)  BY AimsFields DEF Flags
<1> HIDE DEF o
<1>2. Aims(y, R) /\ y \in Threads  BY <1>1, AimsFields DEF Aims, Good
<1> HIDE DEF y
<1>3. z \in Threads /\ z.items = y.items /\ z.active = y.active /\ z.res = y.res
  BY <1>2 DEF Silent, Threads
<1> HIDE DEF z
<1>4. Aims(z, R)  BY <1>2, <1>3, AimsElsewhere
<1>5. Aims(a, R) /\ a \in Threads  BY <1>4, AimsSessions DEF Aims, Good
<1> HIDE DEF a
<1>6. f \in Threads
  <2>1. a.restarts \in Seq([job : Jobs, on : Nat])  BY <1>5 DEF Threads
  <2>2. w.slot # None => [job |-> w.slot, on |-> w.cur] \in [job : Jobs, on : Nat]
    BY DEF Jobs, Aims, Good, Threads
  <2> DEFINE x == [job |-> w.slot, on |-> w.cur]
             r == IF w.slot = None THEN a.restarts ELSE Append(a.restarts, x)
  <2>3. r \in Seq([job : Jobs, on : Nat])
    <3> HIDE DEF x
    <3>1. CASE w.slot = None  BY <2>1, <3>1
    <3>2. CASE w.slot # None
      <4>1. x \in [job : Jobs, on : Nat]  BY <2>2, <3>2 DEF x
      <4> QED  BY <2>1, <3>2, <4>1
    <3> QED  BY <3>1, <3>2
  <2>4. f = [a EXCEPT !.status = "idle", !.slot = None, !.restarts = r]  BY <1>5 DEF Threads
  <2> HIDE DEF r, f
  <2> QED  BY <1>5, <2>3, <2>4 DEF Threads
<1>7. f.items = a.items /\ f.active = a.active /\ f.res = a.res  BY <1>5 DEF Threads
<1>8. ForceStopped(w) = f
  BY DEF ForceStopped, f, a, z, y, o
<1> HIDE DEF f
<1> QED  BY <1>5, <1>6, <1>7, <1>8, AimsElsewhere

LEMMA StopWoken ==
    ASSUME WInv, Stop \/ Watchdog, Races = {}
    PROVE  Woken'
<1>1. Stays(th, th') /\ inputs' = inputs  BY StartsHeeding, StopServed DEF Stop, Watchdog
<1>2. Core(th, Due, ran, Waiting, native) /\ Conn(th)  BY StartsHeeding, StartsServing
<1>3. ASSUME NEW w, Core(w, Due, ran, Waiting, native), Up(w), w.slot = None,
             Aims(w, Promoted), th' = ForceStopped(w)
      PROVE  Woken'
  <2>1. ~Up(th') /\ Core(th', Due, ran, Waiting, native)  BY <1>3, ForcedCore
  <2>2. th'.phase = "none" /\ Good(th')  BY <2>1 DEF Core, Conn, Believes
  <2>3. Aims(th', Promoted)  BY <1>3, AimsForced
  <2>4. Heeds(th', Waiting, Promoted) /\ Awake(th')  BY <2>1, <2>2, <2>3 DEF Heeds, Keen, Awake
  <2> QED  BY <1>1, <2>4, Stirred
<1>4. CASE Watchdog
  <2>1. th' = ForceStopped(th) /\ th.slot = None /\ Up(th)  BY <1>4 DEF Watchdog, Live, Up
  <2> QED  BY <1>2, <1>3, <2>1, StartsHeeding DEF Heeds
<1>5. CASE Stop
  <2> DEFINE w == PauseThread(th)
  <2>1. th' = (IF Live THEN Interrupt(w) ELSE w) /\ (th.slot = None \/ ~Has(th, "quiet"))
    BY <1>5 DEF Stop
  <2>2. Serves(th, w, Due, ran, Waiting, native)  BY StartsHeeding, StartsServing, ServesPause
  <2>3. Has(w, "paused")  BY StartsHeeding, PauseSleeps
  <2>4. Heeds(w, Waiting, Promoted)  BY StartsHeeding, HeedsOperators
  <2> HIDE DEF w
  <2>5. Core(w, Due, ran, Waiting, native)  BY <1>2, <2>2, ServedCore
  <2>6. (Up(w) <=> Live) /\ w.slot = th.slot /\ (Has(w, "quiet") <=> Has(th, "quiet"))
    BY <2>2 DEF Serves, Tame, Same, SessionFlags, Up, Live, Has
  <2>7. CASE th' = w  BY <1>1, <2>3, <2>4, <2>7, PausedSleeps, Stirred
  <2>8. CASE th' = On(w, {"stop"})
    <3>1. {"stop"} \in SUBSET Flags  BY DEF Flags
    <3>2. Heeds(th', Waiting, Promoted)  BY <2>4, <2>8, <3>1, HeedsOperators
    <3>3. Has(th', "paused")
      <4>1. w \in Threads  BY <2>4, HeedsOperators
      <4> QED  BY <2>3, <2>8, <4>1, FlagsOn DEF Has
    <3> QED  BY <1>1, <3>2, <3>3, PausedSleeps, Stirred
  <2>9. CASE th' = ForceStopped(w) /\ Live /\ Has(w, "quiet")
    <3>1. Up(w) /\ w.slot = None  BY <2>1, <2>6, <2>9
    <3> QED  BY <1>3, <2>4, <2>5, <2>9, <3>1 DEF Heeds
  <2> QED  BY <2>1, <2>7, <2>8, <2>9 DEF Interrupt
<1> QED  BY <1>4, <1>5

LEMMA PauseForEditWoken ==
    ASSUME WInv, PauseForEdit
    PROVE  Woken'
<1>1. Stays(th, th') /\ inputs' = inputs  BY StartsHeeding, PauseForEditServed DEF PauseForEdit
<1>2. th' = PauseThread(th)  BY DEF PauseForEdit
<1>3. Heeds(th', Waiting, Promoted) /\ Awake(th')
  BY <1>2, StartsHeeding, HeedsOperators, PauseSleeps, PausedSleeps
<1> QED  BY <1>1, <1>3, Stirred

-----------------------------------------------------------------------------
(* Nothing is left for the queue to do after a step whose state is known.  *)

LEMMA Rouses ==
    ASSUME SInv', Awake(th'),
           th'.active.stage = "preparing" => th'.active.entry \in ToSet(th'.items) \ Promoted',
           th'.phase = "setup" /\ th'.job \in Inputs
             => th'.job \in Waiting' \/ Has(th', "direct") \/ Has(th', "launch")
                  \/ th'.status = "idle",
           th'.job \in Inputs => inputs'[th'.job].pc # "refused"
    PROVE  Woken'
<1>1. Good(th') /\ IInv'  BY DEF SInv, Served, Core
<1>2. th'.res = 0 => Promoted' = {}
  <2> SUFFICES ASSUME th'.res = 0 PROVE Promoted' = {}  OBVIOUS
  <2>1. IsFiniteSet(Res') /\ Cardinality(Res') = 0  BY <1>1 DEF IInv, ReservationsBalance, Res
  <2>2. Res' = {}  BY <2>1, FS_EmptySet
  <2> QED  BY <2>2 DEF Promoted, Under, Res
<1>3. Aims(th', Promoted') /\ Keen(th', Waiting')  BY <1>1, <1>2 DEF Aims, Keen
<1>4. Unrefused'  BY DEF Unrefused, Pc
<1> QED  BY <1>3, <1>4 DEF Woken, Heeds

\* The same for a step that ends with the operators of the queue.
LEMMA Heard ==
    ASSUME SInv', Awake(th'), Heeds(th', Waiting', Promoted'),
           th'.job \in Inputs => inputs'[th'.job].pc # "refused"
    PROVE  Woken'
<1>1. Unrefused'  BY DEF Unrefused, Pc
<1> QED  BY <1>1 DEF Woken

\* A queue that sleeps has nothing to be woken for.
LEMMA Sleeps ==
    ASSUME NEW w, \/ ~Up(w)
                  \/ w.active.stage # "none"
                  \/ w.res # 0
                  \/ w.turn # None
                  \/ w.status = "working"
                  \/ w.flags \cap {"paused", "replacing", "direct", "asks", "done"} # {}
    PROVE  Awake(w)
  BY DEF Awake, CanDeliver, Ready, Up, Has

-----------------------------------------------------------------------------
(* The pump.                                                               *)

LEMMA PumpEndsWoken ==
    ASSUME WInv, PumpEnds
    PROVE  Woken'
<1> DEFINE w == [th EXCEPT !.pump = "off"]
<1>1. Stays(th, th') /\ inputs' = inputs  BY StartsHeeding, PumpEndsServed DEF PumpEnds
<1>2. th' = IF Has(w, "again") THEN Schedule(Off(w, {"again"})) ELSE EmitState(w)  BY DEF PumpEnds
<1>3. Heeds(w, Waiting, Promoted) /\ w \in Threads  BY StartsHeeding, HeedsOperators
<1>4. /\ w.active = th.active /\ w.flags = th.flags /\ w.items = th.items /\ w.cur = th.cur
      /\ w.status = th.status /\ w.turn = th.turn /\ w.res = th.res
  BY StartsHeeding DEF Threads
<1> HIDE DEF w
<1>5. CASE Has(w, "again")
  <2>1. {"again"} \cap {"direct", "launch"} = {}  OBVIOUS
  <2>2. Heeds(Off(w, {"again"}), Waiting, Promoted)  BY <1>3, <2>1, HeedsOperators
  <2> QED  BY <1>1, <1>2, <1>5, <2>2, Scheduled
<1>6. CASE ~Has(w, "again")
  <2>1. (CanDeliver(w) <=> CanDeliver(th)) /\ (Up(w) <=> Up(th)) /\ ~Has(th, "again")
    BY <1>4, <1>6 DEF CanDeliver, Ready, Has, Up
  <2>2. Awake(w)  BY <2>1, StartsHeeding DEF Awake
  <2>3. Heeds(th', Waiting, Promoted) /\ Awake(th')
    BY <1>2, <1>3, <1>6, <2>2, HeedsOperators, EmittedAwake
  <2> QED  BY <1>1, <2>3, Stirred
<1> QED  BY <1>5, <1>6

\* An admission that fails pauses the queue; no direct input loses its mark by it.
LEMMA AdmissionHeeds ==
    ASSUME NEW H, NEW R, NEW w, Heeds(w, H, R), ~Has(w, "direct")
    PROVE  Heeds(AdmissionFailed(w), H, R) /\ Awake(AdmissionFailed(w))
<1> DEFINE F == {"restarting", "replacing"}
           r == DropOrRestore(w, w.active.stage = "admitted")
           p == On(r, {"paused"})
           a == Off(p, F)
           b == Off(a, {"direct"})
           c == IF w.active.on = w.cur THEN ResetTurn(b) ELSE a
           v == AdmissionFailed(w)
<1>1. Good(w) /\ w \in Threads /\ Aims(w, R) /\ Keen(w, H) /\ Keeps(w, w)
  BY KeepsItself DEF Heeds, Aims, Good
<1>2. r \in Threads /\ r.flags = w.flags
  <2>1. Drop(w).flags = w.flags /\ Restore(w).flags = w.flags
    BY <1>1 DEF Drop, Restore, Threads
  <2>2. Good(Drop(w)) /\ Good(Restore(w))  BY <1>1, DropKeeps, RestoreKeeps DEF Keeps
  <2> QED  BY <2>1, <2>2 DEF DropOrRestore, Good
<1>3. v = EmitState(c)  BY DEF AdmissionFailed
<1>4. Keeps(w, v)  BY <1>1, AdmissionFailedKeeps
<1> HIDE DEF r
<1>5. p \in Threads /\ p.flags = w.flags \cup {"paused"}
  <2>1. p.flags = w.flags \cup {"paused"}  BY <1>2, FlagsOn
  <2>2. {"paused"} \in SUBSET Flags  BY DEF Flags
  <2> QED  BY <1>2, <2>1, <2>2 DEF On, Threads
<1> HIDE DEF p
<1>6. a \in Threads /\ a.flags = p.flags \ F
  <2>1. a.flags = p.flags \ F  BY <1>5, FlagsOff
  <2> QED  BY <1>5, <2>1 DEF Off, Threads
<1> HIDE DEF a
<1>7. b \in Threads /\ b.flags = a.flags \ {"direct"}
  <2>1. b.flags = a.flags \ {"direct"}  BY <1>6, FlagsOff
  <2> QED  BY <1>6, <2>1 DEF Off, Threads
<1> HIDE DEF b
<1>8. ResetTurn(b).flags = b.flags \ {"done"} /\ ResetTurn(b) \in Threads
  BY <1>7, FlagsReset DEF ResetTurn, Off, Threads
<1>9. /\ c \in Threads /\ "paused" \in c.flags
      /\ "launch" \in w.flags => "launch" \in c.flags
  BY <1>5, <1>6, <1>7, <1>8
<1> HIDE DEF c
<1>10. /\ "paused" \in EmitState(c).flags
       /\ "launch" \in w.flags => "launch" \in EmitState(c).flags
  BY <1>9, FlagsEmit
<1>11. Has(v, "paused") /\ (Has(w, "launch") => Has(v, "launch"))  BY <1>3, <1>10 DEF Has
<1> HIDE DEF v
<1>12. Keen(v, H)  BY <1>1, <1>4, <1>11, KeenSame
<1>13. Aims(v, R)  BY <1>1, AimsFailure DEF v
<1> QED  BY <1>11, <1>12, <1>13, PausedSleeps DEF Heeds, v

LEMMA PrepareFailsWoken ==
    ASSUME WInv, Races = {}, PrepareFails
    PROVE  Woken'
<1> DEFINE w == [th EXCEPT !.pump = "ending"]
<1>1. Stays(th, th') /\ inputs' = inputs
  BY StartsHeeding, PrepareFailsServed DEF PrepareFails
<1>2. th' = IF w.active.stage # "preparing" THEN w ELSE AdmissionFailed(w)  BY DEF PrepareFails
<1>3. Heeds(w, Waiting, Promoted) /\ w \in Threads  BY StartsHeeding, HeedsOperators
<1>4. /\ w.active = th.active /\ w.flags = th.flags /\ w.items = th.items /\ w.cur = th.cur
      /\ w.status = th.status /\ w.turn = th.turn /\ w.res = th.res /\ w.pump = "ending"
  BY StartsHeeding DEF Threads
<1> HIDE DEF w
<1>5. ~Has(th, "direct")  BY DEF PrepareFails
<1>6. CASE w.active.stage = "preparing"
  <2>1. Heeds(th', Waiting, Promoted) /\ Awake(th')
    BY <1>2, <1>3, <1>4, <1>5, <1>6, AdmissionHeeds DEF Has
  <2> QED  BY <1>1, <2>1, Stirred
<1>7. CASE w.active.stage # "preparing"
  <2>1. (CanDeliver(w) <=> CanDeliver(th)) /\ (Up(w) <=> Up(th)) /\ (Has(w, "again") <=> Has(th, "again"))
    BY <1>4 DEF CanDeliver, Ready, Has, Up
  <2>2. Awake(w)  BY <1>4, <2>1, StartsHeeding DEF Awake
  <2> QED  BY <1>1, <1>2, <1>3, <1>7, <2>2, Stirred
<1> QED  BY <1>6, <1>7

LEMMA PreparedWoken ==
    ASSUME WInv, SInv', Prepared
    PROVE  Woken'
<1> DEFINE w == [th EXCEPT !.pump = "ending"]
<1>1. inputs' = inputs  BY DEF Prepared
<1>2. th' = IF w.active.stage # "preparing" THEN w
            ELSE IF StillDeliverable(w) THEN Dispatch(w)
            ELSE IF CanDeliver(Drop(w)) THEN AdmissionFailed(w)
            ELSE EmitState(Restore(w))
  BY DEF Prepared
<1>3. Heeds(w, Waiting, Promoted) /\ w \in Threads  BY StartsHeeding, HeedsOperators
<1>4. /\ w.active = th.active /\ w.flags = th.flags /\ w.items = th.items /\ w.cur = th.cur
      /\ w.status = th.status /\ w.turn = th.turn /\ w.res = th.res /\ w.pump = "ending"
  BY StartsHeeding DEF Threads
<1>5. CASE w.active.stage = "preparing" /\ StillDeliverable(w)
  <2>1. SInv /\ th.active.stage = "preparing"  BY <1>4, <1>5, StartsHeeding
  <2>2. th.restarts = <<>> /\ th' = Dispatch(w)  BY <1>5, <2>1, PreparedDispatches
  <2>3. Sends(th, th')  BY <2>2, StartsHeeding, DispatchSends
  <2>4. th.active.entry \in Entries  BY <2>1, StartsHeeding DEF Good, Once
  <2>5. th'.active.stage = "sent"  BY <2>3 DEF Sends
  <2>6. th'.job \notin Inputs
    <3>1. CASE th'.job = th.active.entry  BY <2>4, <3>1, NamesAssumption
    <3>2. CASE Has(th', "dead")
      <4>1. ~Up(th')  BY <3>2 DEF Up
      <4>2. th'.job = None  BY <4>1 DEF SInv, Served, Core, Conn
      <4> QED  BY <4>2, NamesAssumption
    <3> QED  BY <2>3, <3>1, <3>2 DEF Sends
  <2>7. Awake(th')  BY <2>5, Sleeps
  <2> QED  BY <2>5, <2>6, <2>7, Rouses
<1>6. CASE ~(w.active.stage = "preparing" /\ StillDeliverable(w))
  <2>1. Stays(th, th')
    <3>1. SInv /\ ~(th.active.stage = "preparing" /\ StillDeliverable(w))  BY <1>4, <1>6, StartsHeeding
    <3> QED  BY <3>1, PreparedServed
  <2> HIDE DEF w
  <2>2. CASE w.active.stage # "preparing"
    <3>1. /\ CanDeliver(w) <=> CanDeliver(th)
          /\ Up(w) <=> Up(th)
          /\ Has(w, "again") <=> Has(th, "again")
      BY <1>4 DEF CanDeliver, Ready, Has, Up
    <3>2. Awake(w)  BY <1>4, <3>1, StartsHeeding DEF Awake
    <3> QED  BY <1>1, <1>2, <1>3, <2>1, <2>2, <3>2, Stirred
  <2>3. CASE w.active.stage = "preparing" /\ CanDeliver(Drop(w))
    <3>1. th' = AdmissionFailed(w)  BY <1>2, <1>6, <2>3
    <3>2. "direct" \notin Drop(w).flags  BY <2>3 DEF CanDeliver, Ready
    <3>3. ~Has(w, "direct")  BY <1>3, <3>2 DEF Drop, Has, Threads
    <3> QED  BY <1>1, <1>3, <2>1, <3>1, <3>3, AdmissionHeeds, Stirred
  <2>4. CASE w.active.stage = "preparing" /\ ~CanDeliver(Drop(w))
    <3>1. th' = EmitState(Restore(w))  BY <1>2, <1>6, <2>4
    <3>2. Restore(w).items = w.items
      <4>1. w.active.entry \in ToSet(w.items)  BY <1>3, <2>4 DEF Heeds, Aims
      <4> QED  BY <1>3, <4>1 DEF Restore, Threads
    <3>3. /\ Restore(w).active = NoActive /\ Drop(w).active = NoActive /\ Drop(w).items = w.items
          /\ Restore(w).flags = w.flags /\ Drop(w).flags = w.flags
          /\ Restore(w).cur = w.cur /\ Drop(w).cur = w.cur
          /\ Restore(w).status = w.status /\ Drop(w).status = w.status
          /\ Restore(w).turn = w.turn /\ Drop(w).turn = w.turn
          /\ Restore(w).res = w.res /\ Drop(w).res = w.res
      BY <1>3 DEF Restore, Drop, Threads
    <3>4. ~CanDeliver(Restore(w))  BY <2>4, <3>2, <3>3 DEF CanDeliver, Ready, Has
    <3>5. Heeds(Restore(w), Waiting, Promoted) /\ Restore(w) \in Threads
      BY <1>3, HeedsOperators
    <3>6. Awake(Restore(w))  BY <3>4 DEF Awake
    <3>7. Awake(th') /\ Heeds(th', Waiting, Promoted)
      BY <3>1, <3>5, <3>6, EmittedAwake, HeedsOperators
    <3> QED  BY <1>1, <2>1, <3>7, Stirred
  <2> QED  BY <2>2, <2>3, <2>4
<1> QED  BY <1>5, <1>6

-----------------------------------------------------------------------------
(* What the provider says, when no caller hears of it.                     *)

LEMMA SameCallers ==
    ASSUME inputs' = inputs, th'.cur = th.cur
    PROVE  Promoted' = Promoted /\ Waiting' = Waiting
  BY DEF Promoted, Waiting, Pc

\* The turn of a direct input, which the queue counts.
LEMMA StartHeeds ==
    ASSUME NEW R, NEW z, Aims(z, R), Holds(z, z), Has(z, "direct"), NEW d \in Inputs,
           NEW s, s = StartDirect(z, d)
    PROVE  /\ Aims(s, R) /\ Has(s, "direct") /\ s \in Threads /\ Good(s)
           /\ s.job = d /\ s.phase = "setup" /\ s.status = "working" /\ s.res = z.res
           /\ s.cur = z.cur /\ s.slot = z.slot
<1> DEFINE o == Off(z, {"awaiting", "completed", "done"})
           n == NoteDirectTurn(z)
           b == Off(n, {"launch"})
           c == On(b, {"quiet"})
           l == IF n.phase \in {"none", "done"} THEN c.late ELSE n.job
<1>1. z \in Threads  BY DEF Aims, Good
<1>2. o \in Threads /\ "direct" \in o.flags
  <2>1. o.flags = z.flags \ {"awaiting", "completed", "done"}  BY <1>1, FlagsOff
  <2> QED  BY <1>1, <2>1 DEF Off, Threads, Has
<1>3. n = [o EXCEPT !.turn = None]  BY DEF NoteDirectTurn
<1>4. Aims(n, R)  BY AimsFailure
<1>5. o.cur = z.cur /\ o.slot = z.slot /\ o.res = z.res  BY <1>1 DEF Off, Threads
<1>6. Aims(s, R) /\ s \in Threads /\ s.res = z.res
  <2>1. Holds(z, s)  BY StartDirectHolds
  <2>2. s \in Threads /\ s.res = z.res  BY <2>1, SoundTyped DEF Holds
  <2>3. s = Start(n, d)  BY DEF StartDirect
  <2>4. n \in Threads /\ n.res = z.res
    <3>1. n \in Threads  BY <1>4 DEF Aims, Good
    <3>2. n.res = o.res  BY <1>2, <1>3 DEF Threads
    <3> QED  BY <1>5, <3>1, <3>2
  <2> HIDE DEF n
  <2>5. s.items = n.items /\ s.active = n.active  BY <2>3, <2>4 DEF Start, On, Off, Threads
  <2> QED  BY <1>4, <2>2, <2>4, <2>5, AimsElsewhere
<1> HIDE DEF o
<1>7. /\ n \in Threads /\ "direct" \in n.flags /\ n.cur = z.cur /\ n.slot = z.slot
  BY <1>2, <1>3, <1>4, <1>5 DEF Aims, Good, Threads
<1>8. s = Start(n, d)  BY DEF StartDirect
<1> HIDE DEF n
<1>9. /\ "direct" \in s.flags /\ s.job = d /\ s.phase = "setup" /\ s.status = "working"
      /\ s.cur = n.cur /\ s.slot = n.slot
  BY <1>7, <1>8 DEF Start, On, Off, Threads
<1>10. Good(s)  BY <1>6 DEF Aims
<1> QED  BY <1>6, <1>7, <1>9, <1>10 DEF Has

LEMMA AnsweredWoken ==
    ASSUME WInv, Answered
    PROVE  Woken'
<1>1. Stays(th, th') /\ inputs' = inputs  BY StartsHeeding, AnsweredServed DEF Answered
<1>2. {"asks"} \cap {"direct", "launch"} = {}  OBVIOUS
<1> DEFINE w == Off(th, {"asks"})
<1>3. Heeds(w, Waiting, Promoted)  BY <1>2, StartsHeeding, HeedsOperators
<1>4. th' = FinishOrSchedule(w)  BY DEF Answered
<1> HIDE DEF w
<1>5. Heeds(th', Waiting, Promoted) /\ Awake(th')
  BY <1>3, <1>4, HeedsOperators, ReleasedAwake
<1> QED  BY <1>1, <1>5, Stirred

LEMMA AsksWoken ==
    ASSUME WInv, Asks
    PROVE  Woken'
<1>1. Stays(th, th') /\ inputs' = inputs  BY StartsHeeding, AsksServed DEF Asks
<1>2. {"quiet"} \cap {"direct", "launch"} = {} /\ {"asks"} \in SUBSET Flags  BY DEF Flags
<1> DEFINE w == Off(th, {"quiet"})
<1>3. Heeds(w, Waiting, Promoted)  BY <1>2, StartsHeeding, HeedsOperators
<1>4. th' = On(w, {"asks"})  BY DEF Asks
<1> HIDE DEF w
<1>5. Heeds(th', Waiting, Promoted)  BY <1>2, <1>3, <1>4, HeedsOperators
<1>6. "asks" \in th'.flags
  <2>1. w \in Threads  BY <1>3, HeedsOperators
  <2> QED  BY <1>4, <2>1, FlagsOn
<1>7. Awake(th')  BY <1>6, Sleeps
<1> QED  BY <1>1, <1>5, <1>7, Stirred

LEMMA SaysWorkingWoken ==
    ASSUME WInv, SInv', SaysWorking
    PROVE  Woken'
<1> DEFINE v == [Off(th, {"quiet"}) EXCEPT !.status = "working"]
<1>1. Stays(th, th') /\ inputs' = inputs  BY StartsHeeding, SaysWorkingServed DEF SaysWorking
<1>2. th' = Admit(v)  BY DEF SaysWorking, OnUpdate
<1>3. /\ v \in Threads /\ v.items = th.items /\ v.active = th.active /\ v.res = th.res
      /\ v.job = th.job /\ v.phase = th.phase /\ v.status = "working"
      /\ v.flags = th.flags \ {"quiet"}
  BY StartsHeeding DEF Threads, Off
<1> HIDE DEF v
<1>4. Aims(v, Promoted) /\ Good(v)  BY <1>3, StartsHeeding, AimsElsewhere DEF Heeds
<1>5. Keeps(v, th')  BY <1>2, <1>4, KeepsItself, AdmitKeeps DEF Good
<1>6. Aims(th', Promoted)
  <2>1. CASE v.active.stage = "sent" /\ v.active.on = v.cur
    <3>1. th'.active.stage = "admitted"
      <4>1. th' = [v EXCEPT !.active.stage = "admitted"]  BY <1>2, <2>1 DEF Admit
      <4> QED  BY <1>3, <4>1 DEF Threads, Actives
    <3> QED  BY <1>4, <1>5, <3>1, AimsSame
  <2>2. CASE ~(v.active.stage = "sent" /\ v.active.on = v.cur)
    BY <1>2, <1>4, <2>2 DEF Admit
  <2> QED  BY <2>1, <2>2
<1>7. th'.flags = v.flags /\ th'.status = "working"
  <2>1. th'.status = "working"  BY <1>3, <1>5 DEF Keeps, Same
  <2> QED  BY <1>2, <1>3, <2>1 DEF Admit, Threads
<1>8. Believes(th, Waiting, native)  BY StartsHeeding, StartsServing
<1>9. Keen(th', Waiting)
  <2>1. th'.phase = th.phase /\ th'.job = th.job /\ Good(th')  BY <1>3, <1>5 DEF Keeps, Same
  <2>2. "direct" \in th.flags => "direct" \in th'.flags  BY <1>3, <1>7
  <2>3. "launch" \in th.flags => "launch" \in th'.flags  BY <1>3, <1>7
  <2>4. Keen(th, Waiting)  BY StartsHeeding DEF Heeds
  <2>5. th.phase = "setup" => th.status # "idle" \/ th.job \in Waiting  BY <1>8 DEF Believes
  <2> QED  BY <2>1, <2>2, <2>3, <2>4, <2>5 DEF Keen, Has
<1>10. Awake(th')  BY <1>7, Sleeps
<1> QED  BY <1>1, <1>6, <1>9, <1>10, Stirred DEF Heeds

\* The turn in delivery has ended.
LEMMA EndedGood ==
    ASSUME NEW w, Good(w), w.active.stage # "none", NEW j \in Jobs, w.active.turn = j,
           NEW end \in {"completed", "failed"}
    PROVE  Good([w EXCEPT !.active.stage = "admitted", !.active.end = end])
<1> DEFINE c == [w.active EXCEPT !.stage = "admitted", !.end = end]
<1>1. w.active \in Actives /\ Keeps(w, w)  BY KeepsItself DEF Good, Threads
<1>2. c \in Actives /\ c.entry = w.active.entry /\ c.stage = "admitted"
  BY <1>1 DEF Actives, Stages
<1>3. w.active.stage \in {"sent", "admitted"}
  BY <1>1, NamesAssumption DEF Good, Once, Actives, Stages, Jobs
<1>4. [w EXCEPT !.active.stage = "admitted", !.active.end = end] = [w EXCEPT !.active = c]
  BY <1>1 DEF Good, Threads, Actives
<1> HIDE DEF c
<1>5. Keeps(w, [w EXCEPT !.active = c])  BY <1>1, <1>2, <1>3, StageKeeps
<1> QED  BY <1>4, <1>5 DEF Keeps

LEMMA CompletedAwake ==
    ASSUME NEW w, Good(w), NEW j \in Jobs, w.turn = j, NEW end \in {"completed", "failed"}
    PROVE  Awake(OnTurnCompleted(w, j, end))
<1>0. w \in Threads /\ Keeps(w, w)  BY KeepsItself DEF Good
<1>1. CASE w.active.stage # "none" /\ w.active.on = w.cur /\ w.active.turn = j
  <2> DEFINE x == [w EXCEPT !.active.stage = "admitted", !.active.end = end]
  <2>1. Good(x)  BY <1>1, EndedGood
  <2>2. OnTurnCompleted(w, j, end) = FinishOrSchedule(On(x, {"done"}))
    BY <1>1 DEF OnTurnCompleted
  <2> HIDE DEF x
  <2>3. Keeps(x, x) /\ {"done"} \in SUBSET Flags  BY <2>1, KeepsItself DEF Good, Flags
  <2>4. Good(On(x, {"done"}))  BY <2>3, OnKeeps DEF Keeps
  <2> QED  BY <2>2, <2>4, ReleasedAwake
<1>2. CASE ~(w.active.stage # "none" /\ w.active.on = w.cur /\ w.active.turn = j) /\ Has(w, "direct")
  <2> DEFINE F == IF Has(w, "awaiting") THEN {"done"} ELSE {"done", "completed"}
             x == On(w, F)
  <2>1. F \in SUBSET Flags /\ "done" \in F  BY DEF Flags
  <2>2. OnTurnCompleted(w, j, end) = FinishDirect(x)  BY <1>2 DEF OnTurnCompleted
  <2> HIDE DEF F
  <2>3. Keeps(w, x) /\ "done" \in x.flags  BY <1>0, <2>1, OnKeeps, FlagsOn
  <2> HIDE DEF x
  <2> DEFINE y == ResetTurn(Off(x, {"direct", "completed"}))
  <2>4. FinishDirect(x) = Schedule(y) \/ FinishDirect(x) = x  BY DEF FinishDirect
  <2>5. Keeps(w, y)  BY <2>3, OffKeeps, ResetKeeps
  <2> HIDE DEF y
  <2>6. Awake(Schedule(y))  BY <2>5, ScheduledAwake DEF Keeps, Good
  <2>7. Awake(x)  BY <2>3, Sleeps
  <2> QED  BY <2>2, <2>4, <2>6, <2>7
<1>3. CASE ~(w.active.stage # "none" /\ w.active.on = w.cur /\ w.active.turn = j) /\ ~Has(w, "direct")
  <2> DEFINE x == IF end = "completed" THEN w ELSE PauseThread(w)
  <2>1. OnTurnCompleted(w, j, end) = FinishOrSchedule(On(x, {"done"}))
    BY <1>3 DEF OnTurnCompleted
  <2>2. Keeps(w, x)  BY <1>0, PauseKeeps
  <2> HIDE DEF x
  <2>3. {"done"} \in SUBSET Flags  BY DEF Flags
  <2>4. Good(On(x, {"done"}))  BY <2>2, <2>3, OnKeeps DEF Keeps
  <2> QED  BY <2>1, <2>4, ReleasedAwake
<1> QED  BY <1>1, <1>2, <1>3

LEMMA SaysCompletedWoken ==
    ASSUME WInv, NEW end \in {"completed", "failed"}, SaysCompleted(end)
    PROVE  Woken'
<1> DEFINE v == IF th.phase = "live" THEN [Off(th, {"quiet"}) EXCEPT !.phase = "done"]
                ELSE [Off(th, {"quiet"}) EXCEPT !.phase = "none", !.job = None]
<1>1. Stays(th, th') /\ inputs' = inputs
  BY StartsHeeding, SaysCompletedServed DEF SaysCompleted
<1>2. th' = OnTurnCompleted(v, th.job, end) /\ th.phase \in {"live", "tail"}
  BY DEF SaysCompleted
<1>3. /\ v \in Threads /\ v.items = th.items /\ v.active = th.active /\ v.turn = th.turn
      /\ v.res = th.res /\ v.phase \in {"done", "none"}
  BY StartsHeeding DEF Threads, Off
<1> HIDE DEF v
<1>4. Aims(v, Promoted) /\ Good(v)  BY <1>3, StartsHeeding, AimsElsewhere DEF Heeds
<1>5. Believes(th, Waiting, native)  BY StartsHeeding, StartsServing
<1>6. th.job \in Jobs /\ v.turn = th.job
  <2>1. th.turn = th.job /\ th.job # None  BY <1>2, <1>5 DEF Believes
  <2>2. th.job \in Jobs \cup {None}  BY StartsHeeding DEF Threads
  <2> QED  BY <1>3, <2>1, <2>2
<1>7. Aims(th', Promoted)  BY <1>2, <1>4, <1>6, AimsCompleted
<1>8. Keeps(v, th')  BY <1>2, <1>4, <1>6, KeepsItself, CompletedKeeps DEF Good
<1>9. Keen(th', Waiting)  BY <1>3, <1>8 DEF Keen, Keeps, Same
<1>10. Awake(th')  BY <1>2, <1>4, <1>6, CompletedAwake
<1> QED  BY <1>1, <1>7, <1>9, <1>10, Stirred DEF Heeds

LEMMA SaysLateWoken ==
    ASSUME WInv, SaysLateCompletion
    PROVE  Woken'
<1> DEFINE v == [Off(th, {"quiet"}) EXCEPT !.late = None]
<1>1. Stays(th, th') /\ inputs' = inputs
  BY StartsHeeding, SaysLateServed DEF SaysLateCompletion
<1>2. th' = OnTurnCompleted(v, th.late, "completed") /\ th.late # None
  BY DEF SaysLateCompletion
<1>3. /\ v \in Threads /\ v.items = th.items /\ v.active = th.active /\ v.turn = th.turn
      /\ v.cur = th.cur /\ v.res = th.res /\ v.pump = th.pump
      /\ v.job = th.job /\ v.phase = th.phase /\ v.status = th.status
      /\ v.flags = th.flags \ {"quiet"}
  BY StartsHeeding DEF Threads, Off
<1> HIDE DEF v
<1>4. Believes(th, Waiting, native) /\ Good(th)  BY StartsHeeding, StartsServing
<1>5. th.late # th.turn /\ th.active.stage \in {"none", "preparing"}  BY <1>2, <1>4 DEF Believes
<1>6. th' = v
  <2>1. v.active.stage # "none" => v.active.turn # th.late
    BY <1>2, <1>3, <1>4, <1>5 DEF Good, Once
  <2> QED  BY <1>2, <1>3, <1>5, <2>1 DEF OnTurnCompleted
<1>7. \A f \in {"dead", "direct", "launch", "again", "paused", "replacing", "done", "asks"} :
          f \in v.flags <=> f \in th.flags
  BY <1>3
<1>8. Heeds(v, Waiting, Promoted)
  <2>1. Heeds(th, Waiting, Promoted)  BY StartsHeeding
  <2> QED  BY <1>3, <1>7, <2>1, HeedsElsewhere DEF Heeds, Keen, Has
<1>9. Awake(v)
  <2>1. Up(v) <=> Up(th)  BY <1>3, <1>7 DEF Up, Has
  <2>2. Ready(v) => Ready(th)
    <3> SUFFICES ASSUME Ready(v) PROVE Ready(th)  OBVIOUS
    <3>1. th.flags \cap {"done", "direct", "asks"} = {}  BY <1>7 DEF Ready
    <3>2. Has(th, "dead") <=> Has(v, "dead")  BY <1>7 DEF Has
    <3> QED  BY <1>3, <3>1, <3>2 DEF Ready
  <2>3. v.flags \cap {"paused", "replacing"} = {} => th.flags \cap {"paused", "replacing"} = {}
    BY <1>7
  <2>4. CanDeliver(v) => CanDeliver(th)  BY <1>3, <2>2, <2>3 DEF CanDeliver
  <2>5. Has(v, "again") <=> Has(th, "again")  BY <1>7 DEF Has
  <2> QED  BY <1>3, <2>1, <2>4, <2>5, StartsHeeding DEF Awake
<1> QED  BY <1>1, <1>6, <1>8, <1>9, Stirred

\* The steer that waited is started before the queue hears that the turn is over.
LEMMA SaysIdleWoken ==
    ASSUME WInv, SInv', SaysIdle
    PROVE  Woken'
<1> DEFINE w == [Off(th, {"stop"}) EXCEPT !.status = "idle",
                                          !.phase = IF @ = "live" THEN "tail" ELSE "none",
                                          !.job = IF th.phase = "live" THEN @ ELSE None]
           d == th.slot
           z == [w EXCEPT !.slot = None]
           s == StartDirect(z, d)
<1>1. inputs' = inputs /\ th.phase \in {"live", "done"} /\ Live
      /\ th' = OnUpdate(IF w.slot = None THEN w ELSE StartDirect(z, w.slot), "idle")
  BY DEF SaysIdle
<1>2. Core(th, Due, ran, Waiting, native) /\ Believes(th, Waiting, native)
  BY StartsHeeding, StartsServing
<1>3. /\ w \in Threads /\ w.items = th.items /\ w.active = th.active /\ w.res = th.res
      /\ w.slot = th.slot /\ w.cur = th.cur /\ w.flags = th.flags \ {"stop"}
      /\ w.phase \in {"tail", "none"} /\ (w.phase # "none" => w.job \in Jobs)
  <2> DEFINE o == Off(th, {"stop"})
             p == IF th.phase = "live" THEN "tail" ELSE "none"
             j == IF th.phase = "live" THEN th.job ELSE None
  <2>1. /\ o \in Threads /\ o.items = th.items /\ o.active = th.active /\ o.cur = th.cur
        /\ o.res = th.res /\ o.slot = th.slot /\ o.flags = th.flags \ {"stop"}
        /\ o.phase = th.phase /\ o.job = th.job
    BY StartsHeeding DEF Threads, Off
  <2>2. p \in {"none", "tail"} /\ j \in Jobs \cup {None}  BY StartsHeeding DEF Threads
  <2>3. th.phase = "live" => th.job # None  BY <1>2 DEF Believes
  <2>4. p # "none" => j \in Jobs  BY <2>2, <2>3
  <2>5. w = [o EXCEPT !.status = "idle", !.phase = p, !.job = j]  BY <2>1 DEF Threads
  <2> HIDE DEF o, p, j, w
  <2>6. /\ w \in Threads /\ w.items = o.items /\ w.active = o.active /\ w.cur = o.cur
        /\ w.res = o.res /\ w.slot = o.slot /\ w.flags = o.flags /\ w.phase = p /\ w.job = j
    BY <2>1, <2>2, <2>5 DEF Threads
  <2> QED  BY <2>1, <2>2, <2>4, <2>6
<1> HIDE DEF w
<1>4. Heeds(w, Waiting, Promoted)  BY <1>3, StartsHeeding, HeedsElsewhere
<1>5. CASE th.slot = None
  <2>1. Stays(th, th')  BY <1>5, StartsHeeding, SaysIdleServed
  <2>2. th' = FinishOrSchedule(w)  BY <1>1, <1>3, <1>5 DEF OnUpdate
  <2>3. Heeds(th', Waiting, Promoted) /\ Awake(th')
    BY <1>4, <2>2, HeedsOperators, ReleasedAwake
  <2> QED  BY <1>1, <2>1, <2>3, Stirred
<1>6. CASE th.slot # None
  <2>1. d \in Inputs /\ Pc(d) # "refused"
    <3>1. d \in Inputs  BY <1>6, StartsHeeding DEF Threads
    <3> QED  BY <3>1, StartsHeeding DEF SInv, Links, Steers
  <2>2. th' = FinishOrSchedule(s)  BY <1>1, <1>3, <1>6 DEF OnUpdate
  <2>3. /\ z \in Threads /\ z.items = w.items /\ z.active = w.active /\ z.res = w.res
        /\ z.flags = w.flags /\ z.phase = w.phase /\ z.job = w.job /\ z.cur = w.cur
    BY <1>3 DEF Threads
  <2> HIDE DEF z, d
  <2>4. Has(z, "direct")  BY <1>1, <1>2, <1>3, <1>6, <2>3 DEF Believes, Has, Live, Up
  <2>5. Aims(z, Promoted) /\ Good(z)  BY <1>4, <2>3, AimsElsewhere DEF Heeds
  <2>6. Holds(z, z)  BY <1>3, <2>3, <2>5, HoldsItself DEF Sound
  <2>7. /\ Aims(s, Promoted) /\ Has(s, "direct") /\ Good(s) /\ s.job = d /\ s.cur = z.cur
        /\ s \in Threads
    BY <2>1, <2>4, <2>5, <2>6, StartHeeds
  <2> HIDE DEF s
  <2>8. Heeds(s, Waiting, Promoted)  BY <2>7 DEF Heeds, Keen
  <2>9. Heeds(th', Waiting, Promoted) /\ Awake(th')
    BY <2>2, <2>7, <2>8, HeedsOperators, ReleasedAwake
  <2>10. th'.job = d /\ th'.cur = th.cur
    BY <1>3, <2>2, <2>3, <2>7, KeepsItself, FinishOrScheduleKeeps DEF Keeps, Same
  <2>11. Promoted' = Promoted /\ Waiting' = Waiting  BY <1>1, <2>10, SameCallers
  <2>12. inputs'[th'.job].pc # "refused"  BY <1>1, <2>1, <2>10 DEF Pc
  <2> QED  BY <2>9, <2>11, <2>12, Heard
<1> QED  BY <1>5, <1>6

-----------------------------------------------------------------------------
(* The outcomes that the callers of direct inputs hear.                    *)

LEMMA PromotedLess ==
    ASSUME \A d \in Inputs : inputs'[d].pc \in Under
               => Pc(d) \in Under /\ inputs'[d].entry = inputs[d].entry
    PROVE  Promoted' \subseteq Promoted
  BY DEF Promoted, Pc

LEMMA PromotedResolved ==
    ASSUME SInv, NEW D, NEW o \in {"accepted", "refused"}, inputs' = Resolve(D, o)
    PROVE  /\ Promoted' \subseteq Promoted
           /\ \A x \in Inputs \ D : inputs'[x] = inputs[x]
           /\ \A x \in Inputs : o = "accepted" /\ Pc(x) # "refused" => inputs'[x].pc # "refused"
<1>1. \A x \in Inputs : /\ inputs'[x] = IF x \in D /\ Pc(x) = "handed"
                                        THEN [inputs[x] EXCEPT !.pc = o] ELSE inputs[x]
                        /\ [inputs[x] EXCEPT !.pc = o].pc = o
                        /\ [inputs[x] EXCEPT !.pc = o].entry = inputs[x].entry
  BY RecordsTyped DEF Resolve
<1>2. "handed" \in Under  BY DEF Under, Reserved
<1>3. \A x \in Inputs : inputs'[x].pc \in Under
          => Pc(x) \in Under /\ inputs'[x].entry = inputs[x].entry
  BY <1>1, <1>2 DEF Pc
<1> QED  BY <1>1, <1>3, PromotedLess DEF Pc

LEMMA AimsLess ==
    ASSUME NEW R, NEW w, Aims(w, R), NEW S \in SUBSET R
    PROVE  Aims(w, S)
  BY DEF Aims

\* After a step that leaves no turn of a direct input without its answer.
LEMMA Quieted ==
    ASSUME SInv', Aims(th', Promoted), Promoted' \subseteq Promoted, Awake(th'),
           th'.phase = "setup" /\ th'.job \in Inputs
             => \/ th'.job \in Waiting' \/ Has(th', "direct") \/ Has(th', "launch")
                \/ th'.status = "idle",
           th'.job \in Inputs => inputs'[th'.job].pc # "refused"
    PROVE  Woken'
<1>1. Aims(th', Promoted')  BY AimsLess
<1>2. Heeds(th', Waiting', Promoted')  BY <1>1 DEF Heeds, Keen, Aims
<1> QED  BY <1>2, Heard

\* The thread is as it was.
LEMMA Unmoved ==
    ASSUME WInv, SInv', th' = th, Promoted' \subseteq Promoted,
           th.job \in Waiting => th.job \in Waiting',
           th.job \in Inputs => inputs'[th.job].pc # "refused"
    PROVE  Woken'
  BY StartsHeeding, Quieted DEF Heeds, Keen

\* A turn that failed pauses the queue.
LEMMA FailureSleeps ==
    ASSUME NEW w, Good(w)
    PROVE  Awake(PauseForFailure(w))
<1> DEFINE r == DropOrRestore(w, w.active.turn # None)
           o == On(r, {"paused"})
           p == IF Present(w) THEN EmitState(o) ELSE w
           e == EndDirect(p)
           a == Off(e, {"asks"})
           v == ResetTurn(a)
<1>1. w \in Threads /\ Keeps(w, w)  BY KeepsItself DEF Good
<1>2. Keeps(w, o)  BY <1>1, DropOrRestoreKeeps, PausedKeeps
<1>3. "paused" \in o.flags
  <2>1. Keeps(w, r)  BY <1>1, DropOrRestoreKeeps
  <2> HIDE DEF r
  <2> QED  BY <2>1, FlagsOn DEF Keeps, Good
<1>4. v = PauseForFailure(w)  BY DEF PauseForFailure
<1> HIDE DEF o
<1>5. p \in Threads /\ ("paused" \in p.flags \/ p.items = <<>>)
  <2>1. CASE Present(w)
    <3>1. Keeps(w, EmitState(o)) /\ o \in Threads  BY <1>2, EmitKeeps DEF Keeps, Good
    <3> QED  BY <1>3, <2>1, <3>1, FlagsEmit DEF Keeps, Good
  <2>2. CASE ~Present(w)  BY <1>1, <2>2 DEF Present
  <2> QED  BY <2>1, <2>2
<1> HIDE DEF p
<1>6. e \in Threads /\ ("paused" \in e.flags \/ e.items = <<>>)
  BY <1>5, FlagsOff DEF EndDirect, Off, Threads
<1> HIDE DEF e
<1>7. a \in Threads /\ ("paused" \in a.flags \/ a.items = <<>>)
  BY <1>6, FlagsOff DEF Off, Threads
<1> HIDE DEF a
<1>8. "paused" \in v.flags \/ v.items = <<>>  BY <1>7, FlagsReset
<1> QED  BY <1>4, <1>8 DEF Awake, CanDeliver

LEMMA SaysStartedWoken ==
    ASSUME WInv, SInv', SaysStarted
    PROVE  Woken'
<1> DEFINE j == th.job
           v == [Off(th, {"launch"}) EXCEPT !.phase = "live"]
           a == [Off(v, {"done"}) EXCEPT !.turn = j]
           b == IF {"direct"} = a.flags \cap {"direct", "awaiting"} THEN Off(a, {"completed"}) ELSE a
<1>1. th' = OnTurnStarted(v, j) /\ inputs' = Resolve({j}, "accepted") /\ th.phase = "setup"
  BY DEF SaysStarted
<1>2. Believes(th, Waiting, native)  BY StartsHeeding, StartsServing
<1>3. j \in Jobs /\ j # None
  <2>1. th.job \in Jobs \cup {None} /\ th.job # None  BY <1>1, <1>2, StartsHeeding DEF Threads, Believes
  <2> QED  BY <2>1
<1>4. v \in Threads /\ v.items = th.items /\ v.active = th.active /\ v.phase = "live" /\ v.job = j
      /\ v.res = th.res
  BY StartsHeeding DEF Off, Threads
<1>5. Aims(v, Promoted) /\ Good(v)  BY <1>4, StartsHeeding, AimsElsewhere DEF Heeds
<1> HIDE DEF v
<1>6. Keeps(v, th')  BY <1>1, <1>3, <1>4, <1>5, KeepsItself, StartedKeeps
<1>7. a \in Threads /\ a.items = v.items /\ a.active = v.active /\ a.turn = j
  BY <1>3, <1>4 DEF Off, Threads
<1>8. th' = IF b.active.stage \in {"sent", "admitted"} /\ b.active.on = b.cur
            THEN [b EXCEPT !.active.stage = "admitted", !.active.turn = j] ELSE b
  BY <1>1 DEF OnTurnStarted
<1> HIDE DEF a
<1>9. b \in Threads /\ b.items = v.items /\ b.active = v.active /\ b.turn = j
  <2>1. Off(a, {"completed"}) \in Threads  BY <1>7 DEF Off, Threads
  <2> QED  BY <1>7, <2>1, FlagsOff
<1> HIDE DEF b
<1>10. th'.turn = j  BY <1>8, <1>9 DEF Threads
<1>11. Aims(th', Promoted)
  <2>1. CASE th' = b  BY <1>5, <1>6, <1>9, <2>1, AimsSame
  <2>2. CASE th' = [b EXCEPT !.active.stage = "admitted", !.active.turn = j]
    <3>1. th'.active.stage = "admitted"  BY <1>9, <2>2 DEF Threads, Actives
    <3> QED  BY <1>5, <1>6, <3>1, AimsSame
  <2> QED  BY <1>8, <2>1, <2>2
<1>12. Awake(th')  BY <1>3, <1>10, Sleeps
<1>13. th'.phase = "live" /\ th'.job = j  BY <1>4, <1>6 DEF Keeps, Same
<1>14. j \in Inputs => Pc(j) # "refused"  BY DEF WInv, Woken, Unrefused
<1> QED  BY <1>1, <1>11, <1>12, <1>13, <1>14, PromotedResolved, StartsHeeding, Quieted

LEMMA FailsWoken ==
    ASSUME WInv, SInv', Fails
    PROVE  Woken'
<1> DEFINE v == [Silent(th) EXCEPT !.status = "error"]
<1>1. th' = PauseForFailure(v) /\ inputs' = Resolve({th.job}, "refused")  BY DEF Fails
<1>2. /\ v \in Threads /\ v.items = th.items /\ v.active = th.active /\ v.res = th.res
      /\ v.job = None /\ v.phase = "none"
  BY StartsHeeding DEF Threads, Silent
<1> HIDE DEF v
<1>3. Aims(v, Promoted) /\ Good(v)  BY <1>2, StartsHeeding, AimsElsewhere DEF Heeds
<1>4. Aims(th', Promoted) /\ Awake(th')  BY <1>1, <1>3, AimsFailure, FailureSleeps
<1>5. th'.job = None /\ th'.phase = "none"
  BY <1>1, <1>2, <1>3, KeepsItself, FailureKeeps DEF Keeps, Same
<1> QED  BY <1>1, <1>4, <1>5, NamesAssumption, PromotedResolved, StartsHeeding, Quieted

LEMMA SteerJoinsWoken ==
    ASSUME WInv, SInv', NEW d \in Inputs, SteerJoins(d)
    PROVE  Woken'
<1>1. th' = th /\ inputs' = Resolve({d}, "accepted") /\ th.phase = "live"  BY DEF SteerJoins
<1>2. th.job \in Inputs => Pc(th.job) # "refused"  BY DEF WInv, Woken, Unrefused
<1> QED  BY <1>1, <1>2, PromotedResolved, StartsHeeding, Quieted DEF Heeds

LEMMA StartRejectedWoken ==
    ASSUME WInv, SInv', NEW d \in Inputs, StartRejected(d)
    PROVE  Woken'
<1>1. th' = th /\ inputs' = Resolve({d}, "refused") /\ th.job # d  BY DEF StartRejected
<1>2. th.job \in Inputs => Pc(th.job) # "refused"  BY DEF WInv, Woken, Unrefused
<1>3. Waiting' = Waiting \ {d}  BY <1>1, WaitingResolved
<1>4. th.job \in Inputs => inputs'[th.job].pc # "refused"
  BY <1>1, <1>2, PromotedResolved, StartsHeeding DEF Pc
<1> QED  BY <1>1, <1>3, <1>4, PromotedResolved, StartsHeeding, Unmoved

LEMMA PromptSubmittedWoken ==
    ASSUME WInv, SInv', NEW d \in Inputs, PromptSubmitted(d)
    PROVE  Woken'
<1>1. th' = th /\ inputs' = Resolve({d}, "accepted") /\ inputs[d].on # th.cur
  BY DEF PromptSubmitted
<1>2. th.job \in Inputs => Pc(th.job) # "refused"  BY DEF WInv, Woken, Unrefused
<1>3. Waiting' = Waiting \ {d} /\ d \notin Waiting  BY <1>1, WaitingResolved DEF Waiting
<1>4. Promoted' \subseteq Promoted /\ (th.job \in Inputs => inputs'[th.job].pc # "refused")
  BY <1>1, <1>2, PromotedResolved, StartsHeeding
<1> QED  BY <1>1, <1>3, <1>4, Unmoved

LEMMA SteerRefusedWoken ==
    ASSUME WInv, SInv', NEW d \in Inputs, SteerRefused(d)
    PROVE  Woken'
<1> DEFINE v == [th EXCEPT !.status = "error"]
<1>1. /\ inputs' = Resolve({d}, "refused") /\ d \notin given
      /\ inputs[d].on # th.cur \/ ~Live \/ th.job = None
      /\ th' = IF inputs[d].on = th.cur THEN PauseForFailure(v) ELSE th
  BY DEF SteerRefused
<1>2. th.job # d  BY <1>1, StartsHeeding DEF SInv, Links, Steers
<1>3. th.job \in Inputs => inputs'[th.job].pc # "refused"
  <2>1. th.job \in Inputs => Pc(th.job) # "refused"  BY DEF WInv, Woken, Unrefused
  <2> QED  BY <1>1, <1>2, <2>1, PromotedResolved, StartsHeeding DEF Pc
<1>4. Promoted' \subseteq Promoted  BY <1>1, PromotedResolved, StartsHeeding
<1>5. CASE inputs[d].on # th.cur
  <2>1. th' = th  BY <1>1, <1>5
  <2>2. Waiting' = Waiting \ {d}  BY <1>1, <2>1, WaitingResolved
  <2> QED  BY <1>2, <1>3, <1>4, <2>1, <2>2, Unmoved
<1>6. CASE inputs[d].on = th.cur
  <2>1. th.job = None
    <3>1. ~Live => th.job = None  BY StartsHeeding, StartsServing DEF Conn, Live, Up
    <3> QED  BY <1>1, <1>6, <3>1
  <2>2. th.phase = "none"  BY <2>1, StartsHeeding, StartsServing DEF Believes
  <2>3. /\ v \in Threads /\ v.items = th.items /\ v.active = th.active /\ v.res = th.res
        /\ v.job = None /\ v.phase = "none"
    BY <2>1, <2>2, StartsHeeding DEF Threads
  <2>4. th' = PauseForFailure(v)  BY <1>1, <1>6
  <2> HIDE DEF v
  <2>5. Aims(v, Promoted) /\ Good(v)  BY <2>3, StartsHeeding, AimsElsewhere DEF Heeds
  <2>6. Aims(th', Promoted) /\ Awake(th')  BY <2>4, <2>5, AimsFailure, FailureSleeps
  <2>7. th'.job = None /\ th'.phase = "none"
    BY <2>3, <2>4, <2>5, KeepsItself, FailureKeeps DEF Keeps, Same
  <2> QED  BY <1>4, <2>6, <2>7, NamesAssumption, Quieted
<1> QED  BY <1>5, <1>6

LEMMA ClearSteerWoken ==
    ASSUME WInv, SInv', ClearSteer
    PROVE  Woken'
<1> DEFINE w == [th EXCEPT !.slot = None]
           a == Off(w, {"awaiting"})
           b == IF Has(a, "done") THEN On(a, {"completed"}) ELSE a
<1>1. /\ inputs' = Resolve({th.slot}, "refused") /\ th.slot # None
      /\ th' = IF ~Has(w, "direct") THEN w ELSE FinishDirect(b)
  BY DEF ClearSteer
<1>2. th.job \in Inputs => th.job # th.slot
  BY StartsHeeding DEF SInv, Links, Steers
<1>3. th.job \in Inputs => inputs'[th.job].pc # "refused"
  <2>1. th.job \in Inputs => Pc(th.job) # "refused"  BY DEF WInv, Woken, Unrefused
  <2> QED  BY <1>1, <1>2, <2>1, PromotedResolved, StartsHeeding DEF Pc
<1>4. Promoted' \subseteq Promoted  BY <1>1, PromotedResolved, StartsHeeding
<1>5. /\ w \in Threads /\ w.items = th.items /\ w.active = th.active /\ w.res = th.res
      /\ w.job = th.job /\ w.phase = th.phase /\ w.status = th.status /\ w.flags = th.flags
      /\ w.cur = th.cur /\ w.pump = th.pump /\ w.turn = th.turn
  BY StartsHeeding DEF Threads
<1> HIDE DEF w
<1>6. Heeds(w, Waiting, Promoted) /\ Good(w)
  <2>1. Heeds(th, Waiting, Promoted)  BY StartsHeeding
  <2>2. Aims(w, Promoted) /\ Good(w)  BY <1>5, <2>1, AimsElsewhere DEF Heeds
  <2> QED  BY <1>5, <2>1, <2>2 DEF Heeds, Keen, Has
<1>7. CASE ~Has(w, "direct")
  <2>1. th' = w  BY <1>1, <1>7
  <2>2. Awake(w)
    BY <1>5, StartsHeeding DEF Awake, Up, CanDeliver, Ready, Has
  <2>3. Waiting' = Waiting \ {th.slot}  BY <1>1, <1>5, <2>1, WaitingResolved
  <2>4. th'.phase = "setup" /\ th'.job \in Inputs
             => \/ th'.job \in Waiting' \/ Has(th', "direct") \/ Has(th', "launch")
                \/ th'.status = "idle"
    BY <1>2, <1>5, <1>6, <2>1, <2>3 DEF Heeds, Keen
  <2> QED  BY <1>3, <1>4, <1>5, <1>6, <2>1, <2>2, <2>4, Quieted DEF Heeds
<1>8. CASE Has(w, "direct")
  <2>1. th' = FinishDirect(b)  BY <1>1, <1>8
  <2>2. {"awaiting"} \cap {"direct", "launch"} = {} /\ {"completed"} \in SUBSET Flags
    BY DEF Flags
  <2>3. Heeds(a, Waiting, Promoted) /\ Keeps(w, a) /\ "direct" \in a.flags
    <3>1. Keeps(w, w)  BY <1>6, KeepsItself DEF Good
    <3>2. Keeps(w, a)  BY <3>1, OffKeeps
    <3>3. a.flags = w.flags \ {"awaiting"}  BY <1>5, FlagsOff
    <3>4. Heeds(a, Waiting, Promoted)  BY <1>6, <2>2, HeedsOperators
    <3> QED  BY <1>8, <3>2, <3>3, <3>4 DEF Has
  <2> HIDE DEF a
  <2>4. Heeds(b, Waiting, Promoted) /\ Keeps(w, b) /\ "direct" \in b.flags
    <3>1. Heeds(On(a, {"completed"}), Waiting, Promoted)  BY <2>2, <2>3, HeedsOperators
    <3>2. Keeps(w, On(a, {"completed"}))  BY <2>2, <2>3, OnKeeps
    <3>3. "direct" \in On(a, {"completed"}).flags  BY <2>3, FlagsOn DEF Keeps, Good
    <3> QED  BY <2>3, <3>1, <3>2, <3>3
  <2> HIDE DEF b
  <2>5. Heeds(th', Waiting, Promoted) /\ Keeps(w, th')
    BY <2>1, <2>4, HeedsOperators, FinishDirectKeeps
  <2>6. Awake(th')
    <3> DEFINE y == ResetTurn(Off(b, {"direct", "completed"}))
    <3>1. th' = Schedule(y) \/ th' = b  BY <2>1 DEF FinishDirect
    <3>2. Keeps(w, y)  BY <2>4, OffKeeps, ResetKeeps
    <3> HIDE DEF y
    <3>3. Awake(Schedule(y))  BY <3>2, ScheduledAwake DEF Keeps, Good
    <3>4. Awake(b)  BY <2>4, Sleeps
    <3> QED  BY <3>1, <3>3, <3>4
  <2>7. th'.job = th.job /\ th'.cur = th.cur  BY <1>5, <2>5 DEF Keeps, Same
  <2>8. Waiting' = Waiting \ {th.slot}  BY <1>1, <2>7, WaitingResolved
  <2>9. th'.phase = "setup" /\ th'.job \in Inputs
             => \/ th'.job \in Waiting' \/ Has(th', "direct") \/ Has(th', "launch")
                \/ th'.status = "idle"
    BY <1>2, <2>5, <2>7, <2>8 DEF Heeds, Keen
  <2> QED  BY <1>3, <1>4, <2>5, <2>6, <2>7, <2>9, Quieted DEF Heeds
<1> QED  BY <1>7, <1>8

\* The end of a delivery is noted, whatever it was.
LEMMA EndNoted ==
    ASSUME NEW H, NEW R, NEW w, Heeds(w, H, R)
    PROVE  Heeds([w EXCEPT !.active.end = "completed"], H, R)
<1> DEFINE c == [w.active EXCEPT !.end = "completed"]
           v == [w EXCEPT !.active = c]
<1>1. w \in Threads /\ Good(w) /\ w.active \in Actives /\ Keeps(w, w)
  <2>1. w \in Threads /\ Good(w)  BY HeedsOperators
  <2> QED  BY <2>1, KeepsItself DEF Good, Threads
<1>2. /\ c \in Actives /\ c.entry = w.active.entry /\ c.stage = w.active.stage
      /\ c.turn = w.active.turn
  BY <1>1 DEF Actives
<1>3. [w EXCEPT !.active.end = "completed"] = v  BY <1>1 DEF Threads, Actives
<1> HIDE DEF c
<1>4. Keeps(w, v)  BY <1>1, <1>2, StageKeeps DEF Good, Once
<1>5. v.active = c /\ v.items = w.items /\ v.flags = w.flags  BY <1>1 DEF Threads
<1> HIDE DEF v
<1>6. Keen(v, H)  BY <1>4, <1>5, KeenSame DEF Heeds, Has
<1>7. Aims(v, R)  BY <1>2, <1>4, <1>5 DEF Heeds, Aims, Keeps, Same
<1> QED  BY <1>3, <1>6, <1>7 DEF Heeds

\* A prompt that needs no turn is over: the queue hears of it as of a turn, unless the
\* caller that waits for it holds a reservation.
LEMMA WithoutTurnWoken ==
    ASSUME WInv, SInv', CompletesWithoutTurn
    PROVE  Woken'
<1> DEFINE w == [Off(th, {"quiet", "launch"}) EXCEPT !.status = "idle", !.phase = "none",
                                                    !.job = None]
           v == IF Has(th, "launch") THEN FinishOrSchedule(OnDirectWithoutTurn(w))
                ELSE IF th.job \in Inputs THEN OnDirectWithoutTurn(w) ELSE w
           x == IF v.active.stage # "none" /\ v.active.entry = th.job
                THEN [v EXCEPT !.active.end = "completed"] ELSE v
<1>1. /\ th' = IF th.job \in Inputs THEN v ELSE FinishOrSchedule(x)
      /\ inputs' = Resolve({th.job}, "accepted") /\ th.phase = "setup"
  BY DEF CompletesWithoutTurn
<1>2. /\ w \in Threads /\ w.items = th.items /\ w.active = th.active /\ w.res = th.res
      /\ w.job = None /\ w.phase = "none"
      /\ w.flags = th.flags \ {"quiet", "launch"}
  BY StartsHeeding DEF Threads, Off
<1> HIDE DEF w
<1>3. Heeds(w, Waiting, Promoted) /\ Good(w) /\ Keeps(w, w)
  BY <1>2, StartsHeeding, HeedsElsewhere, HeedsOperators, KeepsItself
<1>4. Heeds(OnDirectWithoutTurn(w), Waiting, Promoted) /\ Keeps(w, OnDirectWithoutTurn(w))
  BY <1>3, HeedsOperators, WithoutTurnKeeps
<1>5. /\ Heeds(FinishOrSchedule(OnDirectWithoutTurn(w)), Waiting, Promoted)
      /\ Keeps(w, FinishOrSchedule(OnDirectWithoutTurn(w)))
      /\ Awake(FinishOrSchedule(OnDirectWithoutTurn(w)))
  BY <1>4, HeedsOperators, FinishOrScheduleKeeps, ReleasedAwake DEF Keeps
<1>6. Heeds(v, Waiting, Promoted) /\ Keeps(w, v)  BY <1>3, <1>4, <1>5
<1>7. th.job \in Inputs => Awake(v)
  <2> SUFFICES ASSUME th.job \in Inputs PROVE Awake(v)  OBVIOUS
  <2>1. CASE Has(th, "launch")  BY <1>5, <2>1
  <2>2. CASE ~Has(th, "launch") /\ Has(w, "direct")
    <3> DEFINE y == FinishDirect(On(w, {"done", "completed"}))
    <3>1. v = Schedule(y)  BY <2>2 DEF OnDirectWithoutTurn
    <3>2. Keeps(w, y)  BY <1>3, PausedKeeps, FinishDirectKeeps
    <3> HIDE DEF y, v
    <3> QED  BY <3>1, <3>2, ScheduledAwake DEF Keeps, Good
  <2>3. CASE ~Has(th, "launch") /\ ~Has(w, "direct")
    <3>1. v = w  BY <2>3 DEF OnDirectWithoutTurn
    <3>2. ~Has(th, "direct")
      <4>1. "direct" \in th.flags => "direct" \in w.flags  BY <1>2
      <4> QED  BY <2>3, <4>1 DEF Has
    <3>3. Believes(th, Waiting, native) /\ Keen(th, Waiting)
      BY StartsHeeding, StartsServing DEF Heeds
    <3>4. th.job \in Waiting  BY <1>1, <2>3, <3>2, <3>3 DEF Keen, Believes
    <3>5. w.res # 0  BY <1>2, <3>3, <3>4 DEF Believes
    <3>6. Awake(w)  BY <3>5, Sleeps
    <3> QED  BY <3>1, <3>6
  <2> QED  BY <2>1, <2>2, <2>3
<1> HIDE DEF v
<1>8. Heeds(x, Waiting, Promoted) /\ Good(x) /\ x.phase = "none" /\ x.job = None
  <2> DEFINE u == [v EXCEPT !.active.end = "completed"]
  <2>1. Heeds(u, Waiting, Promoted)  BY <1>6, EndNoted
  <2>2. v \in Threads /\ v.phase = "none" /\ v.job = None  BY <1>2, <1>6 DEF Keeps, Good, Same
  <2>3. u.phase = "none" /\ u.job = None  BY <2>2 DEF Threads
  <2> HIDE DEF u
  <2>4. x = u \/ x = v  BY DEF u
  <2> QED  BY <1>6, <2>1, <2>2, <2>3, <2>4, HeedsOperators
<1> HIDE DEF x
<1>9. Heeds(FinishOrSchedule(x), Waiting, Promoted) /\ Awake(FinishOrSchedule(x))
      /\ Keeps(x, FinishOrSchedule(x))
  BY <1>8, HeedsOperators, ReleasedAwake, KeepsItself, FinishOrScheduleKeeps DEF Good
<1>10. Heeds(th', Waiting, Promoted) /\ Awake(th') /\ th'.phase = "none" /\ th'.job = None
  BY <1>1, <1>2, <1>6, <1>7, <1>8, <1>9 DEF Keeps, Same
<1>11. Promoted' \subseteq Promoted  BY <1>1, PromotedResolved, StartsHeeding
<1> QED  BY <1>10, <1>11, NamesAssumption, Quieted DEF Heeds

-----------------------------------------------------------------------------
(* Restarts that fail or are given up, sessions that close.                *)

\* Without a live session the queue has nothing to do.
LEMMA Down ==
    ASSUME SInv', ~Up(th'),
           th'.active.stage = "preparing" => th'.active.entry \in ToSet(th'.items) \ Promoted'
    PROVE  Woken'
<1>1. Conn(th')  BY DEF SInv, Served, Core
<1>2. th'.job = None  BY <1>1 DEF Conn
<1> QED  BY <1>2, NamesAssumption, Sleeps, Rouses

LEMMA DownAiming ==
    ASSUME SInv', ~Up(th'), Aims(th', Promoted), Promoted' \subseteq Promoted
    PROVE  Woken'
  BY Down DEF Aims

LEMMA AimsRejected ==
    ASSUME NEW R, NEW w, Aims(w, R), NEW j
    PROVE  Aims(RestartRejected(w, j), R)
<1> DEFINE a == Off(w, {"restarting", "replacing"})
<1>1. Aims(a, R)  BY AimsFields
<1>2. RestartRejected(w, j) \in {w, a, AdmissionFailed(a)}  BY DEF RestartRejected
<1> HIDE DEF a
<1> QED  BY <1>1, <1>2, AimsFailure

\* A thread whose restarts are fewer.
LEMMA RestartsFewer ==
    ASSUME WInv, NEW i \in DOMAIN th.restarts, NEW s \in {th.status, "error"},
           NEW w, w = [th EXCEPT !.restarts = RemoveAt(th.restarts, i), !.status = s]
    PROVE  /\ Aims(w, Promoted) /\ w \in Threads /\ w.items = th.items /\ w.active = th.active
           /\ w.flags = th.flags /\ w.cur = th.cur /\ w.res = th.res /\ w.status = s
           /\ w.turn = th.turn /\ w.pump = th.pump /\ w.job = th.job /\ w.phase = th.phase
<1>1. RemoveAt(th.restarts, i) \in Seq([job : Jobs, on : Nat])
  BY StartsHeeding, RestartRemoved DEF Threads
<1>2. /\ w \in Threads /\ w.items = th.items /\ w.active = th.active
      /\ w.flags = th.flags /\ w.cur = th.cur /\ w.res = th.res /\ w.status = s
      /\ w.turn = th.turn /\ w.pump = th.pump /\ w.job = th.job /\ w.phase = th.phase
  BY <1>1, StartsHeeding DEF Threads
<1> QED  BY <1>2, StartsHeeding, AimsElsewhere DEF Heeds

LEMMA RestartFailsWoken ==
    ASSUME WInv, SInv', NEW i \in DOMAIN th.restarts, RestartFails(i)
    PROVE  Woken'
<1> DEFINE R == RemoveAt(th.restarts, i)
           j == th.restarts[i].job
           s == "error"
           v == [th EXCEPT !.restarts = R, !.status = s]
           w == [th EXCEPT !.restarts = RemoveAt(@, i), !.status = "error"]
<1>1. w = v  BY StartsHeeding DEF Threads
<1>2. /\ th.restarts[i].on = th.cur /\ inputs' = Resolve({j}, "refused")
      /\ th' = IF j \in Inputs /\ (Promotes(j) \/ Pc(j) # "handed") THEN PauseForFailure(v)
               ELSE RestartRejected(v, j)
  <2> HIDE DEF v, w
  <2> QED  BY <1>1 DEF RestartFails, w
<1>3. Has(th, "dead")
  <2>1. Linked(th.restarts[i])  BY StartsHeeding DEF SInv, Links, Restarts
  <2> QED  BY <1>2, <2>1 DEF Linked
<1>4. Aims(v, Promoted)
  <2>1. s \in {th.status, "error"}  OBVIOUS
  <2> HIDE DEF s
  <2> QED  BY <2>1, RestartsFewer, Zenon
<1>5. Aims(th', Promoted)
  <2> HIDE DEF v
  <2> QED  BY <1>2, <1>4, AimsFailure, AimsRejected
<1>6. ~Up(th')
  <2>1. RestartOver(th, th', i)  BY StartsHeeding, RestartFailsServed
  <2>2. [th EXCEPT !.restarts = th'.restarts].flags = th.flags  BY StartsHeeding DEF Threads
  <2> QED  BY <1>3, <2>1, <2>2 DEF RestartOver, Stays, Has, Up
<1>7. Promoted' \subseteq Promoted  BY <1>2, StartsHeeding, PromotedResolved
<1> QED  BY <1>5, <1>6, <1>7, DownAiming

LEMMA RestartAbandonedWoken ==
    ASSUME WInv, SInv', NEW i \in DOMAIN th.restarts, RestartAbandoned(i)
    PROVE  Woken'
<1> DEFINE R == RemoveAt(th.restarts, i)
           j == th.restarts[i].job
           s == th.status
           v == [th EXCEPT !.restarts = R, !.status = s]
           w == [th EXCEPT !.restarts = RemoveAt(@, i)]
<1>1. w = v  BY StartsHeeding, Zenon DEF Threads
<1>2. /\ th.restarts[i].on # th.cur /\ inputs' = Resolve({j}, "accepted")
      /\ th' = IF j \in Entries /\ Has(v, "restarting") THEN RestartRejected(v, j) ELSE v
  BY <1>1 DEF RestartAbandoned
<1>3. /\ Aims(v, Promoted) /\ v \in Threads /\ v.items = th.items /\ v.active = th.active
      /\ v.flags = th.flags /\ v.cur = th.cur /\ v.res = th.res /\ v.status = th.status
      /\ v.turn = th.turn /\ v.pump = th.pump /\ v.job = th.job /\ v.phase = th.phase
  <2>1. s \in {th.status, "error"} /\ s = th.status  OBVIOUS
  <2> HIDE DEF s
  <2> QED  BY <2>1, RestartsFewer, Zenon
<1>4. Promoted' \subseteq Promoted /\ \A x \in Inputs : Pc(x) # "refused" => inputs'[x].pc # "refused"
  BY <1>2, StartsHeeding, PromotedResolved
<1>5. CASE j \in Entries /\ Has(v, "restarting")
  <2>1. ~Up(th)
    <3>1. Conn(th) /\ Has(th, "restarting")  BY <1>3, <1>5, StartsHeeding, StartsServing DEF Has
    <3> QED  BY <3>1 DEF Conn, Restarting
  <2>2. ~Up(th')
    <3>1. RestartOver(th, th', i)  BY StartsHeeding, RestartAbandonedServed
    <3>2. [th EXCEPT !.restarts = th'.restarts].flags = th.flags
          /\ [th EXCEPT !.restarts = th'.restarts].cur = th.cur
      BY StartsHeeding DEF Threads
    <3> QED  BY <2>1, <3>1, <3>2 DEF RestartOver, Stays, Has, Up
  <2>3. Aims(th', Promoted)
    <3> HIDE DEF v
    <3> QED  BY <1>2, <1>3, <1>5, AimsRejected
  <2> QED  BY <1>4, <2>2, <2>3, DownAiming
<1>6. CASE ~(j \in Entries /\ Has(v, "restarting"))
  <2>1. th' = v  BY <1>2, <1>6
  <2> HIDE DEF v, w
  <2>2. Awake(v)
    BY <1>3, StartsHeeding, Zenon DEF Awake, Up, CanDeliver, Ready, Has
  <2>3. j \notin Waiting
    <3>1. Linked(th.restarts[i])  BY StartsHeeding DEF SInv, Links, Restarts
    <3> QED  BY <1>2, <3>1 DEF Linked, Waiting
  <2> HIDE DEF j
  <2>4. Waiting' = Waiting
    <3>1. th'.cur = th.cur  BY <1>3, <2>1
    <3> QED  BY <1>2, <2>3, <3>1, WaitingResolved
  <2>5. th'.job \in Inputs => inputs'[th'.job].pc # "refused"
    BY <1>3, <1>4, <2>1 DEF WInv, Woken, Unrefused
  <2>6. th'.phase = "setup" /\ th'.job \in Inputs
          => \/ th'.job \in Waiting' \/ Has(th', "direct") \/ Has(th', "launch")
             \/ th'.status = "idle"
    BY <1>3, <2>1, <2>4, StartsHeeding DEF Heeds, Keen, Has
  <2> QED  BY <1>3, <1>4, <2>1, <2>2, <2>5, <2>6, Quieted
<1> QED  BY <1>5, <1>6

\* A session that closes leaves nothing in preparation.
LEMMA ClosedIdle ==
    ASSUME SInv, NEW v, Closed(th, v)
    PROVE  v.active.stage # "preparing"
<1>1. Conn(th)  BY StartsServing
<1>2. Has(th, "restarting") => th.active.stage = "sent"  BY <1>1 DEF Conn, Restarting
<1> QED  BY <1>2 DEF Closed

LEMMA ClosesWoken ==
    ASSUME WInv, SInv', Closes
    PROVE  Woken'
<1> DEFINE u == Silent(Off(th, {"quiet", "stop"}))
           a == OnSessionClosing(u)
           s == IF a.status = "error" THEN "error" ELSE "inactive"
           y == [a EXCEPT !.status = s]
           z == On(y, {"dead"})
<1>1. /\ u \in Threads /\ u.items = th.items /\ u.active = th.active /\ u.restarts = th.restarts
      /\ u.slot = th.slot /\ u.flags = th.flags \ {"quiet", "stop"}
  BY StartsHeeding, Silenced
<1> HIDE DEF u
<1>2. Good(u)  BY <1>1, StartsHeeding DEF Good, Once
<1>3. Closed(u, a)  BY <1>2, ClosingCloses
<1> HIDE DEF a
<1>4. Closed(th, a)  BY <1>1, <1>3, ClosedAlike DEF Has
<1>5. a \in Threads /\ a.active.stage # "preparing"
  BY <1>4, StartsHeeding, ClosedIdle DEF Closed, Good
<1>6. th' = z  BY <1>5 DEF Closes, Threads, a, u
<1>7. s \in {"idle", "working", "error", "inactive"}  OBVIOUS
<1> HIDE DEF s
<1>8. y \in Threads /\ y.active = a.active  BY <1>5, <1>7 DEF Threads
<1> HIDE DEF y
<1>9. z.active = y.active /\ "dead" \in z.flags  BY <1>8 DEF On, Threads, Flags
<1> HIDE DEF z
<1>10. ~Up(th') /\ th'.active.stage # "preparing"  BY <1>5, <1>6, <1>8, <1>9 DEF Up, Has
<1> QED  BY <1>10, Down

\* Nothing is in preparation for a session that is gone.
LEMMA GoneIdle ==
    ASSUME NEW a \in Threads, a.active.stage # "preparing", NEW F \in SUBSET Flags
    PROVE  On(Gone(a), F).active.stage # "preparing" /\ Gone(a).active.stage # "preparing"
<1> DEFINE y == Silent(Off(a, {"dead", "quiet", "stop", "launch"}))
           g == Gone(a)
<1>1. y \in Threads /\ y.active = a.active  BY Silenced
<1>2. g = [y EXCEPT !.cur = 0, !.status = "inactive", !.slot = None]  BY DEF Gone
<1> HIDE DEF y, g
<1>3. g \in Threads /\ g.active = y.active  BY <1>1, <1>2 DEF Threads
<1>4. On(g, F).active = g.active  BY <1>3 DEF On, Threads
<1> QED  BY <1>1, <1>3, <1>4 DEF g

LEMMA CloseThreadWoken ==
    ASSUME WInv, SInv', CloseThread
    PROVE  Woken'
<1> DEFINE a == OnSessionClosing(th)
<1>1. Closed(th, a)  BY StartsHeeding, ClosingCloses
<1>2. th' = Gone(a)  BY DEF CloseThread
<1> HIDE DEF a
<1>3. a \in Threads /\ a.active.stage # "preparing"
  BY <1>1, StartsHeeding, ClosedIdle DEF Closed, Good
<1>4. th'.active.stage # "preparing"  BY <1>2, <1>3, GoneIdle
<1>5. th'.cur = 0
  <2>1. IInv'  BY DEF SInv
  <2> QED  BY <2>1, StartsHeeding, CloseThreadServed DEF Ends
<1> QED  BY <1>4, <1>5, Down DEF Up

LEMMA StartThreadWoken ==
    ASSUME WInv, SInv', StartThread
    PROVE  Woken'
<1>1. CASE th.cur = 0
  <2> DEFINE v == On(th, {"starting"})
  <2>1. th' = v /\ inputs' = inputs  BY <1>1 DEF StartThread
  <2>2. Aims(v, Promoted) /\ v.cur = th.cur
    <3>1. Aims(v, Promoted)  BY StartsHeeding, AimsFields DEF Heeds, Flags
    <3>2. v.cur = th.cur  BY StartsHeeding DEF On, Threads
    <3> QED  BY <3>1, <3>2
  <2> HIDE DEF v
  <2>3. Promoted' = Promoted  BY <2>1, <2>2, SameCallers
  <2> QED  BY <1>1, <2>1, <2>2, <2>3, DownAiming DEF Up
<1>2. CASE th.cur # 0
  <2> DEFINE a == OnSessionClosing(BeginReplacement(th))
  <2>1. Closed(th, a)  BY StartsHeeding, ReplacedCloses
  <2>2. th' = On(Gone(a), {"starting"})  BY <1>2 DEF StartThread
  <2>3. {"starting"} \in SUBSET Flags  BY DEF Flags
  <2> HIDE DEF a
  <2>4. a \in Threads /\ a.active.stage # "preparing"
    BY <2>1, StartsHeeding, ClosedIdle DEF Closed, Good
  <2>5. th'.active.stage # "preparing"  BY <2>2, <2>3, <2>4, GoneIdle
  <2>6. ~Up(th')
    <3> DEFINE g == Gone(a)
               y == Silent(Off(a, {"dead", "quiet", "stop", "launch"}))
    <3>1. y \in Threads  BY <2>4, Silenced
    <3>2. g = [y EXCEPT !.cur = 0, !.status = "inactive", !.slot = None]  BY DEF Gone
    <3> HIDE DEF y, g
    <3>3. g \in Threads /\ g.cur = 0  BY <3>1, <3>2 DEF Threads
    <3>4. On(g, {"starting"}).cur = 0  BY <3>3 DEF On, Threads
    <3> QED  BY <2>2, <3>4 DEF Up, g
  <2> QED  BY <2>5, <2>6, Down
<1> QED  BY <1>1, <1>2

-----------------------------------------------------------------------------
(* Sessions that begin.                                                    *)

LEMMA AttachedAwake ==
    ASSUME NEW w, Good(w)
    PROVE  Awake(OnSessionAttached(w))
<1> DEFINE a == IF w.active.stage = "none" \/ w.active.on = w.cur THEN w
                ELSE IF Has(w, "restarting") THEN Off(Rebind(w), {"restarting"})
                ELSE EmitState(DropOrRestore(w, w.active.turn # None))
           v == ResetTurn(Off(a, {"replacing", "awaiting", "completed", "asks"}))
<1>1. Keeps(w, w)  BY KeepsItself
<1>2. Keeps(w, a)  BY <1>1, DropOrRestoreKeeps, RebindKeeps, EmitKeeps, OffKeeps
<1>3. OnSessionAttached(w) = Schedule(v)  BY DEF OnSessionAttached
<1> HIDE DEF a
<1>4. Keeps(w, v)  BY <1>2, OffKeeps, ResetKeeps
<1> HIDE DEF v
<1> QED  BY <1>3, <1>4, ScheduledAwake DEF Keeps, Good

\* A session is attached; the preparation is checked against what the queue holds.
LEMMA AimsAttached ==
    ASSUME NEW R, NEW w, Aims(w, R), sessions \in Nat, NEW s \in {"idle", "working"}
    PROVE  Aims(Attach(w, s), R) /\ Awake(Attach(w, s)) /\ Attach(w, s) \in Threads
<1> DEFINE E == {"dead", "quiet", "stop", "starting", "launch"}
           y == Silent(Off(w, E))
           x == [y EXCEPT !.cur = sessions + 1, !.status = s, !.slot = None]
<1>1. y \in Threads /\ y.items = w.items /\ y.active = w.active /\ y.res = w.res
  BY Silenced DEF Aims, Good
<1>2. Attach(w, s) = OnSessionAttached(x)  BY DEF Attach
<1> HIDE DEF y
<1>3. x \in Threads /\ x.items = y.items /\ x.active = y.active /\ x.res = y.res
  <2> DEFINE n == sessions + 1
  <2>1. n \in Nat  OBVIOUS
  <2>2. s \in {"idle", "working", "error", "inactive"}  OBVIOUS
  <2> HIDE DEF n
  <2>3. x = [y EXCEPT !.cur = n, !.status = s, !.slot = None]  BY DEF n
  <2> HIDE DEF x
  <2> QED  BY <1>1, <2>1, <2>2, <2>3 DEF Threads
<1> HIDE DEF x
<1>4. Aims(x, R) /\ Good(x)  BY <1>1, <1>3, AimsElsewhere
<1>5. Aims(OnSessionAttached(x), R) /\ Awake(OnSessionAttached(x))
  BY <1>4, AimsSessions, AttachedAwake
<1> QED  BY <1>2, <1>5 DEF Aims, Good

\* Steps of sessions leave the callers' promotions as they are.
LEMMA SamePromoted ==
    ASSUME inputs' = inputs
    PROVE  Promoted' = Promoted
  BY DEF Promoted, Pc

LEMMA StartedWoken ==
    ASSUME WInv, SInv', Started
    PROVE  Woken'
<1>1. th' = Attach(th, "idle") /\ inputs' = inputs  BY DEF Started
<1>2. Aims(th', Promoted) /\ Awake(th')
  <2>1. sessions \in Nat  BY StartsHeeding, RecordsTyped
  <2> QED  BY <1>1, <2>1, StartsHeeding, AimsAttached DEF Heeds
<1>3. th'.job = None  BY StartsHeeding, StartedServed
<1>4. Promoted' = Promoted  BY <1>1, SamePromoted
<1> QED  BY <1>2, <1>3, <1>4, NamesAssumption, Quieted

LEMMA StartFailsWoken ==
    ASSUME WInv, SInv', StartFails
    PROVE  Woken'
<1> DEFINE v == Off(th, {"starting"})
<1>1. /\ Has(th, "starting") /\ inputs' = inputs
      /\ th' = IF Has(v, "replacing") THEN ReplacementFailed(v) ELSE v
  BY DEF StartFails
<1>2. Aims(v, Promoted)  BY StartsHeeding, AimsFields DEF Heeds
<1> HIDE DEF v
<1>3. Aims(th', Promoted)  BY <1>1, <1>2, AimsFailure
<1>4. ~Up(th')
  <2>1. th.cur = 0  BY <1>1, StartsHeeding, StartsServing DEF Conn
  <2> QED  BY <2>1, StartsHeeding, StartFailsServed DEF Stays, Up
<1>5. Promoted' = Promoted  BY <1>1, SamePromoted
<1> QED  BY <1>3, <1>4, <1>5, DownAiming

\* The restart hands its message to the session it has made.
LEMMA RestartAttachesWoken ==
    ASSUME WInv, SInv', RestartAttaches
    PROVE  Woken'
<1> DEFINE R == Tail(th.restarts)
           j == Head(th.restarts).job
           w == [th EXCEPT !.restarts = R]
           a == Attach(w, "working")
           v == [a EXCEPT !.job = j, !.phase = "setup", !.flags = @ \cup {"quiet", "launch"}]
<1>1. th' = v /\ th.restarts # <<>> /\ inputs' = inputs  BY DEF RestartAttaches
<1>2. th.restarts \in Seq([job : Jobs, on : Nat])  BY StartsHeeding DEF Threads
<1>3. /\ Head(th.restarts) = th.restarts[1] /\ 1 \in DOMAIN th.restarts
      /\ R \in Seq([job : Jobs, on : Nat])
  BY <1>1, <1>2, FirstRestart
<1>4. j \in Jobs
  <2>1. th.restarts[1] \in [job : Jobs, on : Nat]  BY <1>2, <1>3, RestartRemoved
  <2> QED  BY <1>3, <2>1
<1>5. j \in Inputs => Pc(j) # "refused"
  <2>1. Linked(th.restarts[1])  BY <1>3, StartsHeeding DEF SInv, Links, Restarts
  <2> QED  BY <1>3, <2>1 DEF Linked
<1> HIDE DEF R, j
<1>6. w \in Threads /\ w.items = th.items /\ w.active = th.active /\ w.res = th.res
  BY <1>3, StartsHeeding DEF Threads
<1> HIDE DEF w
<1>7. Aims(w, Promoted)  BY <1>6, StartsHeeding, AimsElsewhere DEF Heeds
<1>8. Aims(a, Promoted) /\ a \in Threads
  <2>1. sessions \in Nat  BY StartsHeeding, RecordsTyped
  <2> QED  BY <1>7, <2>1, AimsAttached
<1> HIDE DEF a
<1>9. /\ v \in Threads /\ v.items = a.items /\ v.active = a.active /\ v.res = a.res
      /\ v.job = j /\ "launch" \in v.flags
  BY <1>4, <1>8 DEF Threads, Flags
<1> HIDE DEF v
<1>10. Aims(v, Promoted)  BY <1>8, <1>9, AimsElsewhere
<1>11. Awake(v)
  <2>1. Believes(th', Waiting', native') /\ th'.phase = "setup"
    <3>1. Believes(th', Waiting', native')  BY DEF SInv, Served, Core
    <3>2. th'.phase = "setup"  BY <1>1, <1>8 DEF v, Threads
    <3> QED  BY <3>1, <3>2
  <2>2. th'.status = "working"
    <3>2. CASE th'.job \in Waiting'
      <4>1. TypeOK /\ Links  BY StartsHeeding DEF SInv, IInv
      <4>2. th'.cur = sessions + 1  BY StartsHeeding, RestartAttachesServed DEF Begins
      <4>3. Waiting' = {}  BY <1>1, <4>1, <4>2, NobodyYet
      <4> QED  BY <3>2, <4>3
    <3>3. CASE th'.job \notin Waiting'  BY <2>1, <3>3 DEF Believes
    <3> QED  BY <3>2, <3>3
  <2> QED  BY <1>1, <2>2, Sleeps
<1>12. Promoted' = Promoted  BY <1>1, SamePromoted
<1> QED  BY <1>1, <1>5, <1>9, <1>10, <1>11, <1>12, Quieted DEF Has, Pc

-----------------------------------------------------------------------------
(* The callers of direct inputs.                                           *)

LEMMA PromotedMoved ==
    ASSUME SInv, NEW d \in Inputs, NEW r, inputs' = [inputs EXCEPT ![d] = r],
           r.pc \in Under => Pc(d) \in Under /\ r.entry = inputs[d].entry
    PROVE  /\ Promoted' \subseteq Promoted
           /\ inputs'[d] = r /\ \A x \in Inputs \ {d} : inputs'[x] = inputs[x]
<1>1. \A x \in Inputs : inputs'[x] = IF x = d THEN r ELSE inputs[x]
  BY RecordsTyped DEF Records
<1>2. \A x \in Inputs : inputs'[x].pc \in Under
          => Pc(x) \in Under /\ inputs'[x].entry = inputs[x].entry
  BY <1>1 DEF Pc
<1>3. Promoted' \subseteq Promoted  BY <1>2, PromotedLess
<1> QED  BY <1>1, <1>3

\* The caller of d leaves what the provider has alone.
LEMMA OthersUnrefused ==
    ASSUME WInv, NEW d \in Inputs, \A x \in Inputs \ {d} : inputs'[x] = inputs[x],
           inputs'[d].pc # "refused"
    PROVE  th.job \in Inputs => inputs'[th.job].pc # "refused"
<1>1. th.job \in Inputs => Pc(th.job) # "refused"  BY DEF WInv, Woken, Unrefused
<1>2. CASE th.job = d  BY <1>2
<1>3. CASE th.job # d
  <2>1. th.job \in Inputs => inputs'[th.job] = inputs[th.job]  BY <1>3
  <2> QED  BY <1>1, <2>1 DEF Pc
<1> QED  BY <1>2, <1>3

\* The last reservation that is released leaves no promotion behind.
LEMMA ReleasedWoken ==
    ASSUME SInv', NEW w, Heeds(w, Waiting', Promoted), Promoted' \subseteq Promoted,
           th' = Release(w), w.job \in Inputs => inputs'[w.job].pc # "refused"
    PROVE  Woken'
<1> DEFINE r == w.res - 1
           v == [w EXCEPT !.res = r]
<1>1. w \in Threads /\ Good(w)  BY HeedsOperators
<1>2. r \in Int
  <2>1. w.res \in Int  BY <1>1 DEF Threads
  <2> QED  BY <2>1
<1>3. th' = DirectChanged(v)  BY DEF Release
<1> HIDE DEF r
<1>4. v \in Threads  BY <1>1, <1>2, ResTyped
<1>5. /\ v.items = w.items /\ v.active = w.active /\ v.phase = w.phase /\ v.job = w.job
      /\ v.flags = w.flags /\ v.status = w.status /\ v.res = r
  BY <1>1 DEF Threads
<1> HIDE DEF v
<1>6. Good(v)  BY <1>1, <1>4, <1>5 DEF Good, Once
<1>7. th'.res = v.res /\ th'.job = v.job
  BY <1>3, <1>6, KeepsItself, DirectChangedKeeps DEF Keeps, Same
<1>8. v.res = 0 => Promoted' = {}
  <2> SUFFICES ASSUME th'.res = 0 PROVE Promoted' = {}  BY <1>7
  <2>1. IsFiniteSet(Res') /\ Cardinality(Res') = 0
    BY DEF SInv, IInv, ReservationsBalance, Res
  <2>2. Res' = {}  BY <2>1, FS_EmptySet
  <2> QED  BY <2>2 DEF Promoted, Under, Res
<1>9. Aims(v, Promoted')  BY <1>5, <1>6, <1>8 DEF Aims, Heeds
<1>10. Heeds(v, Waiting', Promoted')  BY <1>5, <1>6, <1>9 DEF Heeds, Keen, Has
<1>11. Heeds(th', Waiting', Promoted') /\ Awake(th')
  BY <1>3, <1>6, <1>10, HeedsOperators, ReleasedAwake
<1> QED  BY <1>5, <1>7, <1>11, Heard

LEMMA BeginWoken ==
    ASSUME WInv, SInv', NEW d \in Inputs, NEW e \in Entries \cup {None}, Begin(d, e)
    PROVE  Woken'
<1> DEFINE p == IF e = None THEN "waiting" ELSE "begun"
           r == [pc |-> p, entry |-> e, on |-> 0]
           c == th.res + 1
           w == [th EXCEPT !.res = c]
<1>1. inputs' = [inputs EXCEPT ![d] = r] /\ th' = IF e = None THEN JoinAdmission(w) ELSE w
  BY DEF Begin
<1>0. Pc(d) = "new"  BY DEF Begin
<1>2. r.pc = p /\ r.entry = e /\ p \in {"waiting", "begun"} /\ (p = "waiting" => e = None)
  BY NamesAssumption
<1>3. c \in Int /\ c # 0  BY StartsHeeding, RecordsTyped
<1>4. Core(th, Due, ran, Waiting, native)  BY StartsHeeding, StartsServing
<1> HIDE DEF c, r, p
<1>5. w \in Threads  BY <1>3, StartsHeeding, ResTyped
<1>6. /\ w.items = th.items /\ w.active = th.active /\ w.phase = th.phase /\ w.job = th.job
      /\ w.flags = th.flags /\ w.status = th.status /\ w.res = c /\ w.cur = th.cur
  BY StartsHeeding DEF Threads
<1>7. Conn(w)  BY <1>3, <1>4, ServesCounted
<1> HIDE DEF w
<1>8. th' = w
  <2>1. JoinAdmission(w) = w  BY <1>7, JoinsNothing
  <2> QED  BY <1>1, <2>1
<1>9. \A x \in Inputs : inputs'[x] = IF x = d THEN r ELSE inputs[x]
  BY <1>1, StartsHeeding, RecordsTyped DEF Records
<1>10. Promoted' \subseteq Promoted \cup {None}
  <2>1. \A x \in Inputs : inputs'[x].pc \in Under
            => inputs'[x].entry = None \/ (Pc(x) \in Under /\ inputs'[x].entry = inputs[x].entry)
    <3> SUFFICES ASSUME NEW x \in Inputs, inputs'[x].pc \in Under
                 PROVE inputs'[x].entry = None
                       \/ (Pc(x) \in Under /\ inputs'[x].entry = inputs[x].entry)
      OBVIOUS
    <3>1. CASE x = d  BY <1>2, <1>9, <3>1 DEF Under
    <3>2. CASE x # d  BY <1>9, <3>2 DEF Pc
    <3> QED  BY <3>1, <3>2
  <2> QED  BY <2>1 DEF Promoted, Pc
<1>11. th'.active.stage = "preparing" => th'.active.entry \in ToSet(th'.items) \ Promoted'
  <2>1. th.active.stage = "preparing"
          => th.active.entry \in ToSet(th.items) \ Promoted /\ th.active.entry \in Entries
    BY StartsHeeding DEF Heeds, Aims, Good, Once
  <2> QED  BY <1>6, <1>8, <1>10, <2>1, NamesAssumption
<1>12. Waiting' = Waiting
  <2>1. inputs \in Records  BY StartsHeeding, RecordsTyped
  <2>2. Pc(d) # "handed" /\ r.pc # "handed"  BY <1>2, <1>0
  <2> QED  BY <1>1, <1>6, <1>8, <2>1, <2>2, WaitingMoved
<1>13. th'.job \in Inputs => inputs'[th'.job].pc # "refused"
  <2>1. inputs'[d].pc # "refused" /\ \A x \in Inputs \ {d} : inputs'[x] = inputs[x]
    BY <1>2, <1>9
  <2> QED  BY <1>6, <1>8, <2>1, OthersUnrefused
<1>14. th'.phase = "setup" /\ th'.job \in Inputs
         => \/ th'.job \in Waiting' \/ Has(th', "direct") \/ Has(th', "launch")
            \/ th'.status = "idle"
  BY <1>6, <1>8, <1>12, StartsHeeding DEF Heeds, Keen, Has
<1>15. Awake(th')  BY <1>3, <1>6, <1>8, Sleeps
<1> QED  BY <1>11, <1>13, <1>14, <1>15, Rouses

LEMMA ArriveWoken ==
    ASSUME WInv, SInv', NEW d \in Inputs, Arrive(d)
    PROVE  Woken'
<1> DEFINE e == inputs[d].entry
           r == [inputs[d] EXCEPT !.pc = "waiting"]
           w == CancelPreparation(th, e)
<1>1. /\ inputs \in Records /\ r.pc = "waiting" /\ r.entry = e /\ Failed.pc = "failed"
      /\ Pc(d) = "begun"
  BY StartsHeeding, RecordsTyped DEF Failed, Arrive, Records
<1>2. \/ inputs' = [inputs EXCEPT ![d] = r] /\ th' = JoinAdmission(w)
      \/ inputs' = [inputs EXCEPT ![d] = Failed] /\ th' = Release(th)
  BY DEF Arrive
<1>3. Core(th, Due, ran, Waiting, native) /\ Conn(th) /\ SInv /\ IInv'
  BY StartsHeeding, StartsServing DEF SInv
<1>4. Stays(th, th')  BY <1>3, ArriveServed
<1>5. Waiting' = Waiting
  BY <1>1, <1>2, <1>4, WaitingMoved DEF Stays
<1>6. CASE inputs' = [inputs EXCEPT ![d] = r] /\ th' = JoinAdmission(w)
  <2> HIDE DEF r
  <2>1. \A x \in Inputs : inputs'[x] = IF x = d THEN r ELSE inputs[x]
    BY <1>1, <1>6 DEF Records
  <2>2. Promoted' \subseteq Promoted \cup {e}
    <3>1. \A x \in Inputs : inputs'[x].pc \in Under
              => inputs'[x].entry = e \/ (Pc(x) \in Under /\ inputs'[x].entry = inputs[x].entry)
      <4> SUFFICES ASSUME NEW x \in Inputs, inputs'[x].pc \in Under
                   PROVE inputs'[x].entry = e
                         \/ (Pc(x) \in Under /\ inputs'[x].entry = inputs[x].entry)
        OBVIOUS
      <4>1. CASE x = d  BY <1>1, <2>1, <4>1
      <4>2. CASE x # d  BY <2>1, <4>2 DEF Pc
      <4> QED  BY <4>1, <4>2
    <3> QED  BY <3>1 DEF Promoted, Pc
  <2> HIDE DEF e
  <2>3. Heeds(w, Waiting, Promoted) /\ Keeps(th, w)
    BY StartsHeeding, HeedsOperators, CancelKeeps
  <2>4. w.active.stage = "preparing" => w.active.entry \in ToSet(w.items) \ Promoted
                                        /\ w.active.entry # e
    <3>1. w.active.stage = "preparing" => w.active.entry \in ToSet(w.items) \ Promoted
      BY <2>3 DEF Heeds, Aims
    <3>2. ASSUME w.active.stage = "preparing", w.active.entry = e PROVE FALSE
      <4>1. CASE th.active.entry = e /\ th.active.stage = "preparing"
        <5>1. w = Drop(th)  BY <4>1 DEF CancelPreparation
        <5>2. Drop(th).active.stage = "none"  BY StartsHeeding, AimsDrop DEF Heeds
        <5> QED  BY <3>2, <5>1, <5>2
      <4>2. CASE ~(th.active.entry = e /\ th.active.stage = "preparing")
        <5>1. w = th  BY <4>2 DEF CancelPreparation
        <5> QED  BY <3>2, <4>2, <5>1
      <4> QED  BY <4>1, <4>2
    <3> QED  BY <3>1, <3>2
  <2> HIDE DEF w
  <2>5. th' = w
    <3>1. Core(w, Due, ran, Waiting, native)
      <4>1. Serves(th, w, Due, ran, Waiting, native)
        BY <1>3, StartsServing, ServesCancel DEF w
      <4> QED  BY <1>3, <4>1, ServedCore
    <3> QED  BY <1>6, <3>1, JoinsNothing DEF Core
  <2>6. th'.res # 0
    <3>1. th.res # 0
      <4>1. SInv => IInv  BY DEF SInv
      <4> QED  BY <1>1, <1>3, <4>1, NobodyWaits DEF Reserved
    <3> QED  BY <2>3, <2>5, <3>1 DEF Keeps, Same
  <2>7. th'.active.stage = "preparing" => th'.active.entry \in ToSet(th'.items) \ Promoted'
    BY <2>2, <2>4, <2>5
  <2>8. th'.job \in Inputs => inputs'[th'.job].pc # "refused"
    <3>1. inputs'[d].pc # "refused" /\ \A x \in Inputs \ {d} : inputs'[x] = inputs[x]
      BY <1>1, <2>1
    <3>2. th'.job = th.job  BY <2>3, <2>5 DEF Keeps, Same
    <3> QED  BY <3>1, <3>2, OthersUnrefused
  <2>9. th'.phase = "setup" /\ th'.job \in Inputs
           => \/ th'.job \in Waiting' \/ Has(th', "direct") \/ Has(th', "launch")
              \/ th'.status = "idle"
    BY <1>5, <2>3, <2>5 DEF Heeds, Keen
  <2> QED  BY <2>6, <2>7, <2>8, <2>9, Sleeps, Rouses
<1>7. CASE inputs' = [inputs EXCEPT ![d] = Failed] /\ th' = Release(th)
  <2>1. /\ Promoted' \subseteq Promoted
        /\ inputs'[d] = Failed /\ \A x \in Inputs \ {d} : inputs'[x] = inputs[x]
    BY <1>1, <1>3, <1>7, PromotedMoved DEF Under, Reserved
  <2>2. th.job \in Inputs => inputs'[th.job].pc # "refused"  BY <1>1, <2>1, OthersUnrefused
  <2>3. Heeds(th, Waiting', Promoted)  BY <1>5, StartsHeeding
  <2> QED  BY <1>7, <2>1, <2>2, <2>3, ReleasedWoken
<1> QED  BY <1>2, <1>6, <1>7

LEMMA AdmittedWoken ==
    ASSUME WInv, SInv', NEW d \in Inputs, Admitted(d)
    PROVE  Woken'
<1> DEFINE r == [inputs[d] EXCEPT !.pc = "ready"]
<1>1. inputs \in Records /\ r.pc = "ready" /\ r.entry = inputs[d].entry
  BY StartsHeeding, RecordsTyped DEF Records
<1>2. inputs' = [inputs EXCEPT ![d] = r] /\ th' = th /\ Pc(d) = "waiting"  BY DEF Admitted
<1> HIDE DEF r
<1>3. /\ Promoted' \subseteq Promoted
      /\ inputs'[d] = r /\ \A x \in Inputs \ {d} : inputs'[x] = inputs[x]
  BY <1>1, <1>2, StartsHeeding, PromotedMoved DEF Under, Reserved
<1>4. Waiting' = Waiting  BY <1>1, <1>2, WaitingMoved
<1>5. th.job \in Inputs => inputs'[th.job].pc # "refused"  BY <1>1, <1>3, OthersUnrefused
<1> QED  BY <1>2, <1>3, <1>4, <1>5, Unmoved

LEMMA AcceptedWoken ==
    ASSUME WInv, SInv', NEW d \in Inputs, Accepted(d)
    PROVE  Woken'
<1> DEFINE r == [inputs[d] EXCEPT !.pc = "done", !.on = 0]
           e == inputs[d].entry
           s == Without(th.items, e)
           v == [th EXCEPT !.items = s]
           w == IF Promotes(d) THEN EmitState(v) ELSE th
<1>1. inputs \in Records /\ r.pc = "done"  BY StartsHeeding, RecordsTyped
<1>2. inputs' = [inputs EXCEPT ![d] = r] /\ th' = Release(w) /\ Pc(d) = "accepted"
  BY DEF Accepted
<1>3. e \in Promoted  BY <1>2 DEF Promoted, Under, Reserved
<1> HIDE DEF r, e
<1>4. Heeds(w, Waiting, Promoted) /\ w.job = th.job /\ w.cur = th.cur
  <2>1. th.items \in Seq(Entries) /\ IsInjective(th.items)
    BY StartsHeeding DEF Threads, Good, Once
  <2>2. s \in Seq(Entries) /\ IsInjective(s) /\ ToSet(s) = ToSet(th.items) \ {e}
    BY <2>1, Removed, WithoutAll
  <2> HIDE DEF s
  <2>3. /\ th.active.stage \in {"sent", "admitted"} => th.active.entry \notin ToSet(s)
        /\ th.active.stage = "preparing" => th.active.entry \in ToSet(s)
    BY <1>3, <2>2, StartsHeeding DEF Heeds, Aims, Good, Once
  <2>4. Heeds(v, Waiting, Promoted)  BY <2>2, <2>3, StartsHeeding, HeedsItems
  <2>5. v.job = th.job /\ v.cur = th.cur  BY StartsHeeding DEF Threads
  <2> HIDE DEF v
  <2>6. Heeds(EmitState(v), Waiting, Promoted)  BY <2>4, HeedsOperators
  <2>7. EmitState(v).job = v.job /\ EmitState(v).cur = v.cur
    BY <2>4, HeedsOperators, KeepsItself, EmitKeeps DEF Keeps, Same
  <2> QED  BY <2>4, <2>5, <2>6, <2>7, StartsHeeding
<1> HIDE DEF w
<1>5. th'.cur = th.cur  BY <1>2, <1>4, HeedsOperators, ReleaseStays
<1>6. Waiting' = Waiting  BY <1>1, <1>2, <1>5, WaitingMoved
<1>7. /\ Promoted' \subseteq Promoted
      /\ inputs'[d] = r /\ \A x \in Inputs \ {d} : inputs'[x] = inputs[x]
  BY <1>1, <1>2, StartsHeeding, PromotedMoved DEF Under, Reserved
<1>8. w.job \in Inputs => inputs'[w.job].pc # "refused"  BY <1>1, <1>4, <1>7, OthersUnrefused
<1> QED  BY <1>2, <1>4, <1>6, <1>7, <1>8, ReleasedWoken

LEMMA RefusedWoken ==
    ASSUME WInv, SInv', Races = {}, NEW d \in Inputs, Refused(d)
    PROVE  Woken'
<1> DEFINE w == IF Promotes(d) /\ inputs[d].on \notin {0, th.cur} THEN th ELSE DirectInputFailed(th)
<1>1. inputs \in Records /\ Failed.pc = "failed"  BY StartsHeeding, RecordsTyped DEF Failed
<1>2. inputs' = [inputs EXCEPT ![d] = Failed] /\ th' = Release(w) /\ Pc(d) = "refused"
      /\ Underway \subseteq {d}
  BY DEF Refused
<1>3. th.job \notin Inputs  BY <1>2 DEF Underway, WInv, Woken, Unrefused
<1>4. Aims(w, Promoted) /\ w.job = th.job /\ w.cur = th.cur
  <2>1. Aims(DirectInputFailed(th), Promoted)  BY StartsHeeding, AimsFailure DEF Heeds
  <2>2. Keeps(th, DirectInputFailed(th))
    BY StartsHeeding, InputFailedKeeps
  <2> QED  BY <2>1, <2>2, StartsHeeding DEF Heeds, Keeps, Same
<1> HIDE DEF w
<1>5. Heeds(w, Waiting', Promoted)  BY <1>3, <1>4 DEF Heeds, Keen, Aims
<1>6. Promoted' \subseteq Promoted
  BY <1>1, <1>2, StartsHeeding, PromotedMoved DEF Under, Reserved
<1> QED  BY <1>2, <1>3, <1>4, <1>5, <1>6, ReleasedWoken

\* The provider starts a turn for a steer that found none to join.
LEMMA SteerFallsBackWoken ==
    ASSUME WInv, SInv', NEW d \in Inputs, SteerFallsBack(d)
    PROVE  Woken'
<1> DEFINE v == [th EXCEPT !.job = d, !.phase = "setup"]
<1>1. inputs' = inputs /\ th' = v /\ Pc(d) = "handed" /\ inputs[d].on = th.cur
  BY DEF SteerFallsBack
<1>2. /\ v \in Threads /\ v.items = th.items /\ v.active = th.active /\ v.res = th.res
      /\ v.job = d /\ v.cur = th.cur /\ v.flags = th.flags /\ v.status = th.status
      /\ v.turn = th.turn /\ v.pump = th.pump
  BY StartsHeeding DEF Threads, Jobs
<1> HIDE DEF v
<1>3. Promoted' = Promoted /\ Waiting' = Waiting  BY <1>1, <1>2, SameCallers
<1>4. Aims(v, Promoted)  BY <1>2, StartsHeeding, AimsElsewhere DEF Heeds
<1>5. Awake(v)  BY <1>2, StartsHeeding DEF Awake, Up, CanDeliver, Ready, Has
<1>6. d \in Waiting'  BY <1>1, <1>3 DEF Waiting
<1>7. inputs'[d].pc # "refused"  BY <1>1 DEF Pc
<1> QED  BY <1>1, <1>2, <1>3, <1>4, <1>5, <1>6, <1>7, Quieted

-----------------------------------------------------------------------------
(* Direct inputs that are handed over.                                     *)

LEMMA HandWoken ==
    ASSUME SInv, NEW d \in Inputs, Pc(d) = "ready", NEW p \in {"handed", "refused"},
           inputs' = Hand(d, p)
    PROVE  /\ Promoted' \subseteq Promoted /\ inputs'[d].pc = p
           /\ \A x \in Inputs \ {d} : inputs'[x] = inputs[x]
<1> DEFINE r == [inputs[d] EXCEPT !.pc = p, !.on = th.cur]
<1>1. inputs \in Records /\ r.pc = p /\ r.entry = inputs[d].entry  BY RecordsTyped
<1>2. inputs' = [inputs EXCEPT ![d] = r]  BY <1>1 DEF Hand, Records
<1>3. Pc(d) \in Under  BY DEF Under, Reserved
<1> HIDE DEF r
<1> QED  BY <1>1, <1>2, <1>3, PromotedMoved

LEMMA HandedOverWoken ==
    ASSUME SInv, NEW d \in Inputs, Pc(d) = "ready", inputs' = HandedOver(d)
    PROVE  /\ Promoted' \subseteq Promoted /\ inputs'[d].pc \in {"handed", "done"}
           /\ \A x \in Inputs \ {d, th.slot} : inputs'[x] = inputs[x]
<1> DEFINE R == Resolve({th.slot}, "refused")
           p == IF Promotes(d) THEN "handed" ELSE "done"
           c == IF Promotes(d) THEN th.cur ELSE 0
           r == [inputs[d] EXCEPT !.pc = p, !.on = c]
<1>1. /\ inputs \in Records /\ R \in Records /\ R[d] = inputs[d]
  BY RecordsTyped, ResolveKeeps
<1>2. inputs' = [R EXCEPT ![d] = r]  BY <1>1 DEF HandedOver, Records
<1>3. r.pc = p /\ p \in {"handed", "done"} /\ r.entry = inputs[d].entry  BY RecordsTyped
<1> HIDE DEF r, p
<1>4. \A x \in Inputs : inputs'[x] = IF x = d THEN r ELSE R[x]  BY <1>1, <1>2 DEF Records
<1>5. \A x \in Inputs : R[x] = IF x = th.slot /\ Pc(x) = "handed"
                               THEN [inputs[x] EXCEPT !.pc = "refused"] ELSE inputs[x]
  BY DEF Resolve
<1>6. \A x \in Inputs : [inputs[x] EXCEPT !.pc = "refused"].entry = inputs[x].entry
  BY RecordsTyped
<1> HIDE DEF R
<1>7. ASSUME NEW x \in Inputs, inputs'[x].pc \in Under
      PROVE  Pc(x) \in Under /\ inputs'[x].entry = inputs[x].entry
  <2>1. {"ready", "handed"} \subseteq Under  BY DEF Under, Reserved
  <2>2. CASE x = d  BY <1>3, <1>4, <2>1, <2>2
  <2>3. CASE x # d /\ R[x] = inputs[x]  BY <1>4, <1>7, <2>3 DEF Pc
  <2>4. CASE x # d /\ R[x] # inputs[x]
    <3>1. R[x] = [inputs[x] EXCEPT !.pc = "refused"] /\ Pc(x) = "handed"  BY <1>5, <2>4
    <3>2. inputs'[x] = R[x]  BY <1>4, <2>4
    <3>3. inputs'[x].entry = inputs[x].entry  BY <1>6, <3>1, <3>2
    <3> QED  BY <2>1, <3>1, <3>3
  <2> QED  BY <2>2, <2>3, <2>4
<1>8. Promoted' \subseteq Promoted  BY <1>7, PromotedLess
<1>9. \A x \in Inputs \ {d, th.slot} : inputs'[x] = inputs[x]  BY <1>4, <1>5
<1>10. inputs'[d].pc \in {"handed", "done"}  BY <1>3, <1>4
<1> QED  BY <1>8, <1>9, <1>10

LEMMA SubmitToDeadWoken ==
    ASSUME WInv, SInv', NEW d \in Inputs, SubmitToDead(d)
    PROVE  Woken'
<1> DEFINE z == MarkStarted(th, FALSE)
           n == NoteDirectTurn(z)
           x == [job |-> d, on |-> th.cur]
           v == [n EXCEPT !.restarts = Append(n.restarts, x)]
<1>1. Pc(d) = "ready" /\ ~Up(th)  BY DEF SubmitToDead, Live, Up
<1>2. Aims(z, Promoted)  BY StartsHeeding, AimsMarked DEF Heeds
<1>3. Aims(n, Promoted) /\ n \in Threads
  <2> HIDE DEF z
  <2>1. Aims(n, Promoted)  BY <1>2, AimsFailure
  <2> QED  BY <2>1 DEF Aims, Good
<1>4. \/ inputs' = Hand(d, "handed") /\ th' = v
      \/ inputs' = Hand(d, "refused") /\ (th' = th \/ th' = z)
  <2>1. [n EXCEPT !.restarts = Append(@, x)] = v  BY <1>3 DEF Threads
  <2> HIDE DEF v
  <2> QED  BY <2>1 DEF SubmitToDead
<1> HIDE DEF z, n
<1>5. Aims(v, Promoted)
  <2>1. x \in [job : Jobs, on : Nat]  BY StartsHeeding DEF Jobs, Threads
  <2> HIDE DEF x
  <2>2. Append(n.restarts, x) \in Seq([job : Jobs, on : Nat])
    <3>1. n.restarts \in Seq([job : Jobs, on : Nat])  BY <1>3 DEF Threads
    <3> QED  BY <2>1, <3>1
  <2>3. v \in Threads /\ v.items = n.items /\ v.active = n.active /\ v.res = n.res
    BY <1>3, <2>2 DEF Threads
  <2> HIDE DEF v
  <2> QED  BY <1>3, <2>3, AimsElsewhere
<1> HIDE DEF v
<1>6. Aims(th', Promoted)  BY <1>2, <1>4, <1>5, StartsHeeding DEF Heeds
<1>7. ~Up(th')
  <2>1. Stays([th EXCEPT !.restarts = th'.restarts], th')
    BY StartsHeeding, SubmitToDeadServed
  <2>2. [th EXCEPT !.restarts = th'.restarts].flags = th.flags
        /\ [th EXCEPT !.restarts = th'.restarts].cur = th.cur
    BY StartsHeeding DEF Threads
  <2> QED  BY <1>1, <2>1, <2>2 DEF Stays, Has, Up
<1>8. Promoted' \subseteq Promoted  BY <1>1, <1>4, StartsHeeding, HandWoken
<1> QED  BY <1>6, <1>7, <1>8, DownAiming

\* A submit that was handed over gives its reservation back, the caller of a promotion
\* keeps it.
LEMMA HandedWoken ==
    ASSUME SInv', NEW d \in Inputs, NEW w, Heeds(w, Waiting', Promoted), Promoted' \subseteq Promoted,
           th' = HandOver(w, d), w.job \in Inputs => inputs'[w.job].pc # "refused",
           Promotes(d) => Awake(w)
    PROVE  Woken'
<1>1. CASE Promotes(d)
  <2>1. th' = w  BY <1>1 DEF HandOver
  <2> QED  BY <1>1, <2>1, Quieted DEF Heeds, Keen
<1>2. CASE ~Promotes(d)
  <2>1. th' = Release(w)  BY <1>2 DEF HandOver
  <2> QED  BY <2>1, ReleasedWoken
<1> QED  BY <1>1, <1>2

LEMMA SubmitToIdleWoken ==
    ASSUME WInv, SInv', NEW d \in Inputs, SubmitToIdle(d)
    PROVE  Woken'
<1> DEFINE m == MarkStarted(th, FALSE)
           z == [m EXCEPT !.slot = None]
           s == StartDirect(z, d)
<1>1. Pc(d) = "ready" /\ inputs' = HandedOver(d) /\ th' = HandOver(s, d)  BY DEF SubmitToIdle
<1>2. Aims(m, Promoted)  BY StartsHeeding, AimsMarked DEF Heeds
<1>3. Keeps(th, m) /\ Has(m, "direct")  BY StartsHeeding, MarkedEffect
<1>4. m \in Threads /\ m.job = th.job /\ m.phase = th.phase  BY <1>3 DEF Keeps, Good, Same
<1> HIDE DEF m
<1>5. /\ z \in Threads /\ z.items = m.items /\ z.active = m.active /\ z.res = m.res
      /\ z.flags = m.flags /\ z.phase = m.phase /\ z.job = m.job
  BY <1>4 DEF Threads
<1> HIDE DEF z
<1>6. Aims(z, Promoted) /\ Good(z) /\ Has(z, "direct")
  BY <1>2, <1>3, <1>5, AimsElsewhere DEF Has
<1>7. Holds(z, z)
  <2>1. th.phase # "none" => th.job \in Jobs
    BY StartsHeeding, StartsServing DEF Holds, Sound
  <2> QED  BY <1>4, <1>5, <1>6, <2>1, HoldsItself DEF Sound
<1>8. Aims(s, Promoted) /\ Has(s, "direct") /\ Good(s) /\ s.job = d /\ s.status = "working"
  BY <1>6, <1>7, StartHeeds
<1> HIDE DEF s
<1>9. Heeds(s, Waiting', Promoted) /\ Awake(s)  BY <1>8, Sleeps DEF Heeds, Keen
<1>10. Promoted' \subseteq Promoted /\ inputs'[d].pc # "refused"
  <2>1. Promoted' \subseteq Promoted /\ inputs'[d].pc \in {"handed", "done"}
    BY <1>1, StartsHeeding, HandedOverWoken
  <2> QED  BY <2>1
<1> QED  BY <1>1, <1>8, <1>9, <1>10, HandedWoken

LEMMA SteerNativelyWoken ==
    ASSUME WInv, SInv', NEW d \in Inputs, SteerNatively(d)
    PROVE  Woken'
<1> DEFINE m == MarkStarted(th, FALSE)
           v == Off(m, {"awaiting", "completed"})
<1>1. Pc(d) = "ready" /\ inputs' = Hand(d, "handed") /\ th' = v  BY DEF SteerNatively
<1>2. Heeds(m, Waiting, Promoted) /\ Keeps(th, m)
  BY StartsHeeding, HeedsOperators, MarkedEffect
<1> HIDE DEF m
<1>3. Heeds(v, Waiting, Promoted) /\ Keeps(th, v)
  <2>1. {"awaiting", "completed"} \cap {"direct", "launch"} = {}  OBVIOUS
  <2> QED  BY <1>2, <2>1, HeedsOperators, OffKeeps
<1> HIDE DEF v
<1>4. th.res # 0  BY <1>1, StartsHeeding, ReadyInput
<1>5. Awake(v) /\ v.job = th.job /\ v.cur = th.cur  BY <1>3, <1>4, Sleeps DEF Keeps, Same
<1>6. Waiting' = Waiting \cup {d}  BY <1>1, <1>5, StartsHeeding, HandMoves
<1>7. /\ Promoted' \subseteq Promoted /\ inputs'[d].pc = "handed"
      /\ \A x \in Inputs \ {d} : inputs'[x] = inputs[x]
  BY <1>1, StartsHeeding, HandWoken
<1>8. th.job \in Inputs => inputs'[th.job].pc # "refused"  BY <1>7, OthersUnrefused
<1> QED  BY <1>1, <1>3, <1>5, <1>6, <1>7, <1>8, Quieted DEF Heeds, Keen

LEMMA StageSteerWoken ==
    ASSUME WInv, SInv', Races = {}, NEW d \in Inputs, StageSteer(d)
    PROVE  Woken'
<1> DEFINE m == MarkStarted(th, TRUE)
           z == [m EXCEPT !.slot = d]
           w == Interrupt(z)
<1>1. /\ Pc(d) = "ready" /\ inputs' = HandedOver(d) /\ th' = HandOver(w, d)
      /\ ~Has(th, "quiet")
  BY DEF StageSteer
<1>2. Heeds(m, Waiting, Promoted) /\ Keeps(th, m) /\ ~Has(m, "quiet")
  BY <1>1, StartsHeeding, HeedsOperators, MarkedEffect
<1>3. m \in Threads /\ m.job = th.job /\ m.cur = th.cur /\ m.res = th.res
  BY <1>2 DEF Keeps, Good, Same
<1> HIDE DEF m
<1>4. /\ z \in Threads /\ z.items = m.items /\ z.active = m.active /\ z.res = m.res
      /\ z.flags = m.flags /\ z.phase = m.phase /\ z.job = m.job /\ z.status = m.status
      /\ z.cur = m.cur
  BY <1>3 DEF Threads
<1> HIDE DEF z
<1>5. Heeds(z, Waiting, Promoted)
  BY <1>2, <1>4, HeedsElsewhere DEF Heeds, Keen, Has
<1>6. w = z \/ w = On(z, {"stop"})  BY <1>2, <1>4 DEF Interrupt, Has
<1>7. Heeds(w, Waiting, Promoted) /\ w.job = th.job /\ w.res = th.res /\ w.cur = th.cur
  <2>1. {"stop"} \in SUBSET Flags  BY DEF Flags
  <2>2. Heeds(On(z, {"stop"}), Waiting, Promoted)  BY <1>5, <2>1, HeedsOperators
  <2>3. /\ On(z, {"stop"}).job = z.job /\ On(z, {"stop"}).res = z.res
        /\ On(z, {"stop"}).cur = z.cur
    BY <1>4 DEF On, Threads
  <2> QED  BY <1>3, <1>4, <1>5, <1>6, <2>2, <2>3
<1> HIDE DEF w
<1>8. Awake(w)
  <2>1. th.res # 0  BY <1>1, StartsHeeding, ReadyInput
  <2> QED  BY <1>7, <2>1, Sleeps
<1>9. th.job \in Inputs => th.job \notin {d, th.slot}
  BY <1>1, StartsHeeding, ReadyInput DEF SInv, Links, Steers
<1>10. th'.cur = th.cur  BY <1>1, <1>7, HeedsOperators, HandOverCur
<1>11. Waiting' = (Waiting \ {th.slot}) \cup (IF Promotes(d) THEN {d} ELSE {})
  BY <1>1, <1>10, StartsHeeding, HandedOverTo
<1>12. Heeds(w, Waiting', Promoted)
  <2>1. w.job \in Inputs /\ w.job \in Waiting => w.job \in Waiting'  BY <1>7, <1>9, <1>11
  <2> HIDE DEF Waiting
  <2> QED  BY <1>7, <2>1 DEF Heeds, Keen
<1>13. /\ Promoted' \subseteq Promoted
       /\ \A x \in Inputs \ {d, th.slot} : inputs'[x] = inputs[x]
  BY <1>1, StartsHeeding, HandedOverWoken
<1>14. w.job \in Inputs => inputs'[w.job].pc # "refused"
  <2>1. th.job \in Inputs => Pc(th.job) # "refused"  BY DEF WInv, Woken, Unrefused
  <2>2. th.job \in Inputs => inputs'[th.job] = inputs[th.job]  BY <1>9, <1>13
  <2> QED  BY <1>7, <2>1, <2>2 DEF Pc
<1> QED  BY <1>1, <1>8, <1>12, <1>13, <1>14, HandedWoken

-----------------------------------------------------------------------------
(* The invariant of the wakeups, and what it gives.                        *)

LEMMA InitWoken ==
    ASSUME Init
    PROVE  WInv
<1>1. SInv  BY InitServed
<1>2. th = [items |-> <<>>, active |-> NoActive, pump |-> "off", turn |-> None, flags |-> {},
            res |-> 0, cur |-> 1, status |-> "idle", job |-> None, phase |-> "none",
            late |-> None, slot |-> None, restarts |-> <<>>]
      /\ inputs = [d \in Inputs |-> Fresh]
  BY DEF Init
<1>3. th.items = <<>> /\ th.active = NoActive /\ th.job = None /\ th.phase = "none"  BY <1>2
<1>4. th.active.stage = "none"  BY <1>3 DEF NoActive
<1>5. \A d \in Inputs : Pc(d) = "new"  BY <1>2 DEF Pc, Fresh
<1>6. Promoted = {}  BY <1>5 DEF Promoted, Under, Reserved
<1>7. Good(th)  BY <1>1, StartsServing
<1>8. Heeds(th, Waiting, Promoted)  BY <1>3, <1>4, <1>6, <1>7 DEF Heeds, Aims, Keen
<1>9. Awake(th)  BY <1>3 DEF Awake, CanDeliver
<1>10. Unrefused  BY <1>3, NamesAssumption DEF Unrefused
<1> QED  BY <1>1, <1>8, <1>9, <1>10 DEF WInv, Woken

LEMMA StutterWoken ==
    ASSUME WInv, UNCHANGED vars
    PROVE  Woken'
<1>1. th' = th /\ inputs' = inputs  BY DEF vars
<1>2. Promoted' = Promoted /\ Waiting' = Waiting  BY <1>1, SameCallers
<1>3. Unrefused' <=> Unrefused  BY <1>1 DEF Unrefused, Pc
<1> QED  BY <1>1, <1>2, <1>3 DEF WInv, Woken

LEMMA StepWoken ==
    ASSUME WInv, Races = {}, [Next]_vars
    PROVE  WInv'
<1>1. SInv'  BY StepServed DEF WInv
<1> SUFFICES Woken'  BY <1>1 DEF WInv
<1>2. CASE UNCHANGED vars  BY <1>2, StutterWoken
<1>3. CASE \/ \E e \in Entries : Queue(e) \/ RemoveEntry(e)
           \/ \E i, k \in DOMAIN th.items : Reorder(i, k)
           \/ \E e, f \in Entries : Edit(e, f)
           \/ Resume \/ Stop \/ PauseForEdit \/ Watchdog
  BY <1>3, QueueWoken, RemoveWoken, ReorderWoken, EditWoken, ResumeWoken, StopWoken,
     PauseForEditWoken
<1>4. CASE \/ Prepared \/ PrepareFails \/ PumpEnds
           \/ SaysWorking \/ SaysStarted \/ SaysLateCompletion \/ SaysIdle \/ Asks \/ Answered
           \/ \E end \in {"completed", "failed"} : SaysCompleted(end)
  BY <1>1, <1>4, PreparedWoken, PrepareFailsWoken, PumpEndsWoken, SaysWorkingWoken,
     SaysStartedWoken, SaysLateWoken, SaysIdleWoken, AsksWoken, AnsweredWoken,
     SaysCompletedWoken
<1>5. CASE \/ Fails \/ CompletesWithoutTurn \/ ClearSteer
           \/ \E d \in Inputs : \/ SteerJoins(d) \/ SteerFallsBack(d) \/ SteerRefused(d)
                                \/ StartRejected(d) \/ PromptSubmitted(d)
  BY <1>1, <1>5, FailsWoken, WithoutTurnWoken, ClearSteerWoken, SteerJoinsWoken,
     SteerFallsBackWoken, SteerRefusedWoken, StartRejectedWoken, PromptSubmittedWoken
<1>6. CASE \E d \in Inputs : \/ \E e \in Entries \cup {None} : Begin(d, e)
                             \/ Arrive(d) \/ Admitted(d) \/ Accepted(d) \/ Refused(d)
  BY <1>1, <1>6, BeginWoken, ArriveWoken, AdmittedWoken, AcceptedWoken, RefusedWoken
<1>7. CASE \E d \in Inputs : Submits(d)
  <2>1. PICK d \in Inputs : SubmitToDead(d) \/ SubmitToIdle(d) \/ SteerNatively(d) \/ StageSteer(d)
    BY <1>7 DEF Submits
  <2> QED  BY <1>1, <2>1, SubmitToDeadWoken, SubmitToIdleWoken, SteerNativelyWoken,
              StageSteerWoken
<1>8. CASE \/ Closes \/ CloseThread \/ StartThread \/ Started \/ StartFails \/ RestartAttaches
           \/ \E i \in DOMAIN th.restarts : RestartFails(i) \/ RestartAbandoned(i)
  BY <1>1, <1>8, ClosesWoken, CloseThreadWoken, StartThreadWoken, StartedWoken,
     StartFailsWoken, RestartAttachesWoken, RestartFailsWoken, RestartAbandonedWoken
<1> QED  BY <1>2, <1>3, <1>4, <1>5, <1>6, <1>7, <1>8 DEF Next

THEOREM WokenAlways ==
    ASSUME Races = {}
    PROVE  Spec => []WInv
<1>1. Init => WInv  BY InitWoken
<1>2. WInv /\ [Next]_vars => WInv'  BY StepWoken
<1> QED  BY <1>1, <1>2, PTL DEF Spec

\* Whatever makes a message deliverable, the end of a turn, an answer, a reservation given
\* back, a new session, also runs the pump: the queue never waits for the user's next step.
THEOREM NoLostWakeupHolds ==
    ASSUME Races = {}
    PROVE  Spec => []NoLostWakeup
<1>1. WInv => NoLostWakeup  BY DEF WInv, Woken, Awake, NoLostWakeup, Live, Up
<1> QED  BY <1>1, WokenAlways, PTL
=============================================================================

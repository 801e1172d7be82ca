------------------------ MODULE ThreadSessionProofs ------------------------
(***************************************************************************)
(* What ThreadSession guarantees for any number of messages, direct inputs *)
(* and sessions.                                                           *)
(*                                                                         *)
(* First what every operator of FollowUpQueue keeps. Each lemma has the    *)
(* same form: whatever w has kept of the state u, the operator applied to  *)
(* w keeps too, so that lemmas chain the way the operators call each       *)
(* other. The steps of ThreadSession follow.                               *)
(***************************************************************************)
EXTENDS ThreadSession, SequenceTheorems, FiniteSetTheorems, TLAPS

\* No message is in the queue twice; the one in delivery is a message, it has left the
\* FIFO once it is dispatched, and before that no turn is bound to it.
Once(w) ==
    /\ IsInjective(w.items)
    /\ w.active.stage # "none" => w.active.entry \in Entries
    /\ w.active.stage \in {"sent", "admitted"} => w.active.entry \notin ToSet(w.items)
    /\ w.active.stage = "preparing" => w.active.turn = None

Good(w) == w \in Threads /\ Once(w)

\* The fields that only ThreadSession changes, and the reservations.
Same(u, w) ==
    /\ w.job = u.job /\ w.phase = u.phase /\ w.late = u.late
    /\ w.slot = u.slot /\ w.restarts = u.restarts
    /\ w.cur = u.cur /\ w.status = u.status /\ w.res = u.res

\* w comes from u without a message that u does not hold.
Keeps(u, w) == Good(w) /\ Held(w) \subseteq Held(u) /\ Same(u, w)

LEMMA KeepsItself ==
    ASSUME NEW w, Good(w)
    PROVE  Keeps(w, w)
  BY DEF Keeps, Same

-----------------------------------------------------------------------------
(* Changes of single fields.                                               *)

LEMMA OnKeeps ==
    ASSUME NEW u, NEW w, Keeps(u, w), NEW F \in SUBSET Flags
    PROVE  Keeps(u, On(w, F))
<1>1. On(w, F) \in Threads  BY DEF Keeps, Good, On, Threads
<1> QED  BY <1>1 DEF Keeps, Good, On, Once, Held, Same, Threads

LEMMA OffKeeps ==
    ASSUME NEW u, NEW w, Keeps(u, w), NEW F
    PROVE  Keeps(u, Off(w, F))
<1>1. Off(w, F) \in Threads  BY DEF Keeps, Good, Off, Threads
<1> QED  BY <1>1 DEF Keeps, Good, Off, Once, Held, Same, Threads

LEMMA PumpKeeps ==
    ASSUME NEW u, NEW w, Keeps(u, w), NEW p \in {"off", "preparing", "ending"}
    PROVE  Keeps(u, [w EXCEPT !.pump = p])
<1>1. [w EXCEPT !.pump = p] \in Threads  BY DEF Keeps, Good, Threads
<1> QED  BY <1>1 DEF Keeps, Good, Once, Held, Same, Threads

LEMMA TurnKeeps ==
    ASSUME NEW u, NEW w, Keeps(u, w), NEW j \in Jobs \cup {None}
    PROVE  Keeps(u, [w EXCEPT !.turn = j])
<1>1. [w EXCEPT !.turn = j] \in Threads  BY DEF Keeps, Good, Threads
<1> QED  BY <1>1 DEF Keeps, Good, Once, Held, Same, Threads

LEMMA DropKeeps ==
    ASSUME NEW u, NEW w, Keeps(u, w)
    PROVE  Keeps(u, Drop(w))
<1>1. NoActive \in Actives  BY DEF NoActive, Actives, Stages
<1>2. Drop(w) \in Threads  BY <1>1 DEF Keeps, Good, Drop, Threads
<1> QED  BY <1>2 DEF Keeps, Good, Drop, Once, Held, Same, Threads, NoActive

-----------------------------------------------------------------------------
(* The FIFO.                                                               *)

LEMMA Prepended ==
    ASSUME NEW s \in Seq(Entries), NEW e \in Entries, e \notin ToSet(s), IsInjective(s)
    PROVE  /\ <<e>> \o s \in Seq(Entries)
           /\ IsInjective(<<e>> \o s)
           /\ ToSet(<<e>> \o s) = {e} \cup ToSet(s)
<1>1. <<e>> \in Seq(Entries) /\ Len(<<e>>) = 1 /\ <<e>>[1] = e  OBVIOUS
<1>2. /\ <<e>> \o s \in Seq(Entries)
      /\ Len(<<e>> \o s) = 1 + Len(s)
      /\ \A i \in 1 .. 1 + Len(s) : (<<e>> \o s)[i] = IF i <= 1 THEN <<e>>[i] ELSE s[i - 1]
  BY <1>1, ConcatProperties
<1> DEFINE p == <<e>> \o s
<1>3. DOMAIN p = 1 .. 1 + Len(s) /\ DOMAIN s = 1 .. Len(s) /\ Len(s) \in Nat
  BY <1>2, LenProperties
<1>4. p[1] = e /\ \A i \in 1 .. Len(s) : p[i + 1] = s[i]
  BY <1>1, <1>2, <1>3
<1>5. \A i \in DOMAIN p : i = 1 \/ (i - 1 \in DOMAIN s /\ p[i] = s[i - 1])
  BY <1>2, <1>3
<1> HIDE DEF p
<1>6. \A i \in DOMAIN s : s[i] # e  BY DEF ToSet
<1>7. IsInjective(p)
  BY <1>3, <1>4, <1>5, <1>6 DEF IsInjective
<1>8. ToSet(p) = {e} \cup ToSet(s)
  <2>1. ToSet(p) \subseteq {e} \cup ToSet(s)  BY <1>4, <1>5 DEF ToSet
  <2>2. e \in ToSet(p)  BY <1>3, <1>4 DEF ToSet
  <2>3. ASSUME NEW i \in DOMAIN s PROVE s[i] \in ToSet(p)
    <3>1. i + 1 \in DOMAIN p /\ p[i + 1] = s[i]  BY <1>3, <1>4
    <3> QED  BY <3>1 DEF ToSet
  <2> QED  BY <2>1, <2>2, <2>3 DEF ToSet
<1> QED  BY <1>2, <1>7, <1>8 DEF p

LEMMA Tailed ==
    ASSUME NEW s \in Seq(Entries), s # <<>>, IsInjective(s)
    PROVE  /\ Tail(s) \in Seq(Entries) /\ Head(s) \in Entries
           /\ IsInjective(Tail(s))
           /\ ToSet(Tail(s)) \subseteq ToSet(s)
           /\ Head(s) \in ToSet(s) /\ Head(s) \notin ToSet(Tail(s))
<1>1. /\ Head(s) \in Entries /\ Tail(s) \in Seq(Entries)
      /\ Len(Tail(s)) = Len(s) - 1
      /\ \A i \in 1 .. Len(Tail(s)) : Tail(s)[i] = s[i + 1]
  BY HeadTailProperties
<1>2. DOMAIN s = 1 .. Len(s) /\ Len(s) \in Nat \ {0} /\ Head(s) = s[1]
  BY EmptySeq, LenProperties
<1>3. DOMAIN Tail(s) = 1 .. Len(s) - 1  BY <1>1, LenProperties
<1>4. \A i \in DOMAIN Tail(s) : Tail(s)[i] = s[i + 1] /\ i + 1 \in DOMAIN s /\ i + 1 # 1
  BY <1>1, <1>2, <1>3
<1>5. 1 \in DOMAIN s  BY <1>2
<1>6. Head(s) \in ToSet(s)  BY <1>2, <1>5 DEF ToSet
<1>7. ToSet(Tail(s)) \subseteq ToSet(s)  BY <1>4 DEF ToSet
<1>8. Head(s) \notin ToSet(Tail(s))  BY <1>2, <1>4, <1>5 DEF ToSet, IsInjective
<1>9. IsInjective(Tail(s))
  <2> SUFFICES ASSUME NEW i \in DOMAIN Tail(s), NEW k \in DOMAIN Tail(s),
                      Tail(s)[i] = Tail(s)[k]
               PROVE  i = k
    BY DEF IsInjective
  <2>1. i + 1 = k + 1  BY <1>4 DEF IsInjective
  <2> QED  BY <2>1, <1>3
<1> QED  BY <1>1, <1>6, <1>7, <1>8, <1>9

LEMMA Appended ==
    ASSUME NEW s \in Seq(Entries), NEW e \in Entries, e \notin ToSet(s), IsInjective(s)
    PROVE  /\ Append(s, e) \in Seq(Entries)
           /\ IsInjective(Append(s, e))
           /\ ToSet(Append(s, e)) = {e} \cup ToSet(s)
<1> DEFINE p == Append(s, e)
<1>1. /\ p \in Seq(Entries) /\ Len(p) = Len(s) + 1
      /\ \A i \in 1 .. Len(s) : p[i] = s[i]
      /\ p[Len(s) + 1] = e
  BY AppendProperties
<1>2. DOMAIN p = 1 .. Len(s) + 1 /\ DOMAIN s = 1 .. Len(s) /\ Len(s) \in Nat
  BY <1>1, LenProperties
<1> HIDE DEF p
<1>3. \A i \in DOMAIN p : i = Len(s) + 1 \/ (i \in DOMAIN s /\ p[i] = s[i])  BY <1>1, <1>2
<1>4. \A i \in DOMAIN s : i \in DOMAIN p /\ p[i] = s[i] /\ s[i] # e  BY <1>1, <1>2 DEF ToSet
<1>5. Len(s) + 1 \in DOMAIN p  BY <1>2
<1>6. IsInjective(p)  BY <1>1, <1>3, <1>4 DEF IsInjective
<1>7. ToSet(p) = {e} \cup ToSet(s)  BY <1>1, <1>3, <1>4, <1>5 DEF ToSet
<1> QED  BY <1>1, <1>6, <1>7 DEF p

\* A sequence that lists elements of s at other places.
LEMMA Relisted ==
    ASSUME NEW s \in Seq(Entries), IsInjective(s), NEW n \in Nat, NEW p, NEW at,
           p \in [1 .. n -> Entries], at \in [1 .. n -> DOMAIN s], IsInjective(at),
           \A i \in 1 .. n : p[i] = s[at[i]]
    PROVE  p \in Seq(Entries) /\ IsInjective(p) /\ ToSet(p) \subseteq ToSet(s)
<1>1. p \in Seq(Entries) /\ DOMAIN p = 1 .. n  BY SeqDef
<1>2. ToSet(p) \subseteq ToSet(s)  BY <1>1 DEF ToSet
<1>3. IsInjective(p)  BY <1>1 DEF IsInjective
<1> QED  BY <1>1, <1>2, <1>3

LEMMA Removed ==
    ASSUME NEW s \in Seq(Entries), IsInjective(s), NEW e
    PROVE  /\ Without(s, e) \in Seq(Entries)
           /\ IsInjective(Without(s, e))
           /\ ToSet(Without(s, e)) \subseteq ToSet(s) \ {e}
<1>1. CASE e \notin ToSet(s)  BY <1>1 DEF Without
<1>2. CASE e \in ToSet(s)
  <2> DEFINE i == CHOOSE k \in DOMAIN s : s[k] = e
             at == [k \in 1 .. Len(s) - 1 |-> IF k < i THEN k ELSE k + 1]
             p == [k \in 1 .. Len(s) - 1 |-> IF k < i THEN s[k] ELSE s[k + 1]]
  <2>1. i \in DOMAIN s /\ s[i] = e  BY <1>2 DEF ToSet
  <2>2. DOMAIN s = 1 .. Len(s) /\ Len(s) \in Nat /\ \A k \in DOMAIN s : s[k] \in Entries
    BY LenProperties, ElementOfSeq
  <2>3. Without(s, e) = p  BY <1>2 DEF Without
  <2> HIDE DEF i
  <2>4. i \in 1 .. Len(s) /\ Len(s) - 1 \in Nat  BY <2>1, <2>2
  <2>5. at \in [1 .. Len(s) - 1 -> DOMAIN s] /\ IsInjective(at)  BY <2>2, <2>4 DEF IsInjective
  <2>6. p \in [1 .. Len(s) - 1 -> Entries]  BY <2>2, <2>4
  <2>7. \A k \in 1 .. Len(s) - 1 : p[k] = s[at[k]] /\ at[k] # i  BY <2>4
  <2> HIDE DEF at, p
  <2>8. p \in Seq(Entries) /\ IsInjective(p) /\ ToSet(p) \subseteq ToSet(s)
    BY <2>4, <2>5, <2>6, <2>7, Relisted
  <2>9. e \notin ToSet(p)  BY <2>1, <2>5, <2>6, <2>7 DEF ToSet, IsInjective
  <2> QED  BY <2>3, <2>8, <2>9
<1> QED  BY <1>1, <1>2

LEMMA Reordered ==
    ASSUME NEW s \in Seq(Entries), IsInjective(s), NEW i \in DOMAIN s, NEW k \in DOMAIN s
    PROVE  /\ Moved(s, i, k) \in Seq(Entries)
           /\ IsInjective(Moved(s, i, k))
           /\ ToSet(Moved(s, i, k)) \subseteq ToSet(s)
<1> DEFINE at == [j \in 1 .. Len(s) |-> IF j = k THEN i
                                        ELSE IF i <= j /\ j < k THEN j + 1
                                        ELSE IF k < j /\ j <= i THEN j - 1 ELSE j]
           p == Moved(s, i, k)
<1>1. DOMAIN s = 1 .. Len(s) /\ Len(s) \in Nat /\ \A j \in DOMAIN s : s[j] \in Entries
  BY LenProperties, ElementOfSeq
<1>2. i \in 1 .. Len(s) /\ k \in 1 .. Len(s)  BY <1>1
<1>3. at \in [1 .. Len(s) -> DOMAIN s]  BY <1>1, <1>2
<1>4. IsInjective(at)  BY <1>1, <1>2 DEF IsInjective
<1>5. p \in [1 .. Len(s) -> Entries]  BY <1>1, <1>2 DEF Moved
<1>6. \A j \in 1 .. Len(s) : p[j] = s[at[j]]  BY <1>2 DEF Moved
<1> HIDE DEF at, p
<1>7. p \in Seq(Entries) /\ IsInjective(p) /\ ToSet(p) \subseteq ToSet(s)
  BY <1>1, <1>3, <1>4, <1>5, <1>6, Relisted
<1> QED  BY <1>7 DEF p

LEMMA Replaced ==
    ASSUME NEW s \in Seq(Entries), IsInjective(s), NEW e, NEW f \in Entries, f \notin ToSet(s)
    PROVE  /\ [k \in DOMAIN s |-> IF s[k] = e THEN f ELSE s[k]] \in Seq(Entries)
           /\ IsInjective([k \in DOMAIN s |-> IF s[k] = e THEN f ELSE s[k]])
           /\ ToSet([k \in DOMAIN s |-> IF s[k] = e THEN f ELSE s[k]])
                \subseteq (ToSet(s) \ {e}) \cup {f}
<1> DEFINE p == [k \in DOMAIN s |-> IF s[k] = e THEN f ELSE s[k]]
<1>1. DOMAIN s = 1 .. Len(s) /\ Len(s) \in Nat /\ \A j \in DOMAIN s : s[j] \in Entries
  BY LenProperties, ElementOfSeq
<1>2. p \in [1 .. Len(s) -> Entries]  BY <1>1
<1>3. p \in Seq(Entries)  BY <1>1, <1>2, SeqDef
<1>4. \A k \in DOMAIN s : s[k] # f  BY DEF ToSet
<1>5. IsInjective(p)  BY <1>4 DEF IsInjective
<1>6. ToSet(p) \subseteq (ToSet(s) \ {e}) \cup {f}  BY DEF ToSet
<1> QED  BY <1>3, <1>5, <1>6

-----------------------------------------------------------------------------
(* Delivery.                                                               *)

LEMMA EmitKeeps ==
    ASSUME NEW u, NEW w, Keeps(u, w)
    PROVE  Keeps(u, EmitState(w))
  BY OffKeeps DEF EmitState

LEMMA RestoreKeeps ==
    ASSUME NEW u, NEW w, Keeps(u, w)
    PROVE  Keeps(u, Restore(w))
<1>1. NoActive \in Actives /\ NoActive.stage = "none"  BY DEF NoActive, Actives, Stages
<1>2. w.items \in Seq(Entries) /\ IsInjective(w.items)  BY DEF Keeps, Good, Threads, Once
<1>3. CASE w.active.stage = "none" \/ w.active.entry \in ToSet(w.items)
  <2>1. Restore(w) = Drop(w)  BY <1>2, <1>3 DEF Restore, Drop, Keeps, Good, Threads
  <2> QED  BY <2>1, DropKeeps
<1>4. CASE w.active.stage # "none" /\ w.active.entry \notin ToSet(w.items)
  <2> DEFINE p == <<w.active.entry>> \o w.items
             v == [w EXCEPT !.active = NoActive, !.items = p]
  <2>1. w.active.entry \in Entries  BY <1>4 DEF Keeps, Good, Once
  <2>2. p \in Seq(Entries) /\ IsInjective(p) /\ ToSet(p) = {w.active.entry} \cup ToSet(w.items)
    BY <1>2, <1>4, <2>1, Prepended
  <2>3. Restore(w) = v  BY <1>4 DEF Restore
  <2> HIDE DEF p
  <2>4. v \in Threads  BY <1>1, <2>2 DEF Keeps, Good, Threads
  <2>5. v.items = p /\ v.active = NoActive  BY DEF Keeps, Good, Threads
  <2>6. Once(v)  BY <1>1, <2>2, <2>5 DEF Once
  <2>7. Held(v) \subseteq Held(w)  BY <1>1, <1>4, <2>2, <2>5 DEF Held
  <2>8. Same(w, v)  BY DEF Same, Keeps, Good, Threads
  <2> QED  BY <2>3, <2>4, <2>6, <2>7, <2>8 DEF Keeps, Good, Same
<1> QED  BY <1>3, <1>4

LEMMA DropOrRestoreKeeps ==
    ASSUME NEW u, NEW w, Keeps(u, w), NEW taken
    PROVE  Keeps(u, DropOrRestore(w, taken))
  BY DropKeeps, RestoreKeeps DEF DropOrRestore

\* The pump only ever prepares the message at the head.
LEMMA ScheduleKeeps ==
    ASSUME NEW u, NEW w, Keeps(u, w)
    PROVE  Keeps(u, Schedule(w))
<1>1. Keeps(u, On(w, {"again"}))  BY OnKeeps DEF Flags
<1>2. Keeps(u, [w EXCEPT !.pump = "ending"])  BY PumpKeeps
<1>3. ASSUME CanDeliver(w)
      PROVE  Keeps(u, [w EXCEPT !.pump = "preparing",
                                !.active = [NoActive EXCEPT !.entry = Head(w.items), !.on = w.cur,
                                                            !.stage = "preparing"]])
  <2> DEFINE a == [NoActive EXCEPT !.entry = Head(w.items), !.on = w.cur, !.stage = "preparing"]
             v == [w EXCEPT !.pump = "preparing", !.active = a]
  <2>1. w.items \in Seq(Entries) /\ IsInjective(w.items) /\ w.cur \in Nat
    BY DEF Keeps, Good, Threads, Once
  <2>2. Head(w.items) \in Entries /\ Head(w.items) \in ToSet(w.items)
    BY <1>3, <2>1, Tailed DEF CanDeliver
  <2>3. a \in Actives  BY <2>1, <2>2 DEF NoActive, Actives, Stages
  <2>4. a.stage = "preparing" /\ a.entry = Head(w.items) /\ a.turn = None  BY DEF NoActive
  <2> HIDE DEF a
  <2>5. v \in Threads  BY <2>3 DEF Keeps, Good, Threads
  <2>6. v.items = w.items /\ v.active = a  BY DEF Keeps, Good, Threads
  <2>7. Once(v)  BY <2>1, <2>2, <2>4, <2>6 DEF Once
  <2>8. Held(v) \subseteq Held(w)  BY <2>2, <2>4, <2>6 DEF Held
  <2>9. Same(w, v)  BY DEF Same, Keeps, Good, Threads
  <2> QED  BY <2>5, <2>7, <2>8, <2>9 DEF Keeps, Good, Same, a
<1> QED  BY <1>1, <1>2, <1>3 DEF Schedule, Keeps

LEMMA PauseKeeps ==
    ASSUME NEW u, NEW w, Keeps(u, w)
    PROVE  Keeps(u, PauseThread(w))
<1>1. Keeps(u, On(w, {"paused"}))  BY OnKeeps DEF Flags
<1> QED  BY <1>1, RestoreKeeps, EmitKeeps DEF PauseThread

LEMMA CancelKeeps ==
    ASSUME NEW u, NEW w, Keeps(u, w), NEW e
    PROVE  Keeps(u, CancelPreparation(w, e))
  BY DropKeeps DEF CancelPreparation

-----------------------------------------------------------------------------
(* Turns and direct input.                                                 *)

LEMMA ResetKeeps ==
    ASSUME NEW u, NEW w, Keeps(u, w)
    PROVE  Keeps(u, ResetTurn(w))
  BY TurnKeeps, OffKeeps DEF ResetTurn

LEMMA EndDirectKeeps ==
    ASSUME NEW u, NEW w, Keeps(u, w)
    PROVE  Keeps(u, EndDirect(w))
  BY OffKeeps DEF EndDirect

LEMMA FinishDirectKeeps ==
    ASSUME NEW u, NEW w, Keeps(u, w)
    PROVE  Keeps(u, FinishDirect(w))
  BY OffKeeps, ResetKeeps, ScheduleKeeps DEF FinishDirect

LEMMA DirectChangedKeeps ==
    ASSUME NEW u, NEW w, Keeps(u, w)
    PROVE  Keeps(u, DirectChanged(w))
  BY FinishDirectKeeps, ScheduleKeeps DEF DirectChanged

LEMMA PausedKeeps ==
    ASSUME NEW u, NEW w, Keeps(u, w)
    PROVE  Keeps(u, On(w, {"paused"})) /\ Keeps(u, On(w, {"done"}))
           /\ Keeps(u, On(w, {"completed"})) /\ Keeps(u, On(w, {"done", "completed"}))
           /\ Keeps(u, On(w, {"direct"})) /\ Keeps(u, On(w, {"awaiting"}))
           /\ Keeps(u, On(w, {"replacing"})) /\ Keeps(u, On(w, {"replacing", "restarting"}))
           /\ Keeps(u, On(w, {"asks"})) /\ Keeps(u, On(w, {"quiet"}))
           /\ Keeps(u, On(w, {"dead"})) /\ Keeps(u, On(w, {"stop"})) /\ Keeps(u, On(w, {"starting"}))
  BY OnKeeps DEF Flags

LEMMA FinishActiveKeeps ==
    ASSUME NEW u, NEW w, Keeps(u, w)
    PROVE  Keeps(u, FinishActive(w))
  BY PausedKeeps, DropKeeps, ResetKeeps, EmitKeeps DEF FinishActive

LEMMA FinishOrScheduleKeeps ==
    ASSUME NEW u, NEW w, Keeps(u, w)
    PROVE  Keeps(u, FinishOrSchedule(w))
  BY FinishActiveKeeps, FinishDirectKeeps, ResetKeeps, ScheduleKeeps DEF FinishOrSchedule

LEMMA FailureKeeps ==
    ASSUME NEW u, NEW w, Keeps(u, w)
    PROVE  Keeps(u, PauseForFailure(w))
  BY DropOrRestoreKeeps, PausedKeeps, EmitKeeps, EndDirectKeeps, OffKeeps, ResetKeeps
  DEF PauseForFailure

-----------------------------------------------------------------------------
(* What the provider reports.                                              *)

\* The delivery moves on: another stage, turn, end or session, for the same message.
LEMMA StageKeeps ==
    ASSUME NEW u, NEW w, Keeps(u, w), NEW a \in Actives, a.entry = w.active.entry,
           a.stage = w.active.stage \/ {a.stage, w.active.stage} \subseteq {"sent", "admitted"},
           a.stage = "preparing" => a.turn = None
    PROVE  Keeps(u, [w EXCEPT !.active = a])
<1> DEFINE v == [w EXCEPT !.active = a]
<1>1. v \in Threads  BY DEF Keeps, Good, Threads
<1>2. v.active = a /\ v.items = w.items  BY DEF Keeps, Good, Threads
<1>3. Once(w)  BY DEF Keeps, Good
<1>4. Once(v)  BY <1>2, <1>3 DEF Once
<1>5. Held(v) \subseteq Held(w)  BY <1>2 DEF Held
<1>6. Same(w, v)  BY DEF Same, Keeps, Good, Threads
<1> QED  BY <1>1, <1>4, <1>5, <1>6 DEF Keeps, Good, Same

LEMMA AdmitKeeps ==
    ASSUME NEW u, NEW w, Keeps(u, w)
    PROVE  Keeps(u, Admit(w))
<1>1. CASE w.active.stage = "sent"
  <2> DEFINE a == [w.active EXCEPT !.stage = "admitted"]
  <2>1. w.active \in Actives  BY DEF Keeps, Good, Threads
  <2>2. a \in Actives /\ a.entry = w.active.entry /\ a.stage = "admitted"
    BY <2>1 DEF Actives, Stages
  <2>3. [w EXCEPT !.active.stage = "admitted"] = [w EXCEPT !.active = a]
    BY DEF Keeps, Good, Threads
  <2> HIDE DEF a
  <2>4. Keeps(u, [w EXCEPT !.active = a])  BY <1>1, <2>2, StageKeeps
  <2> QED  BY <2>3, <2>4 DEF Admit
<1>2. CASE w.active.stage # "sent"  BY <1>2 DEF Admit
<1> QED  BY <1>1, <1>2

LEMMA UpdateKeeps ==
    ASSUME NEW u, NEW w, Keeps(u, w), NEW status
    PROVE  Keeps(u, OnUpdate(w, status))
  BY FailureKeeps, AdmitKeeps, FinishOrScheduleKeeps DEF OnUpdate

LEMMA StartedKeeps ==
    ASSUME NEW u, NEW w, Keeps(u, w), NEW j \in Jobs
    PROVE  Keeps(u, OnTurnStarted(w, j))
<1> DEFINE a == [Off(w, {"done"}) EXCEPT !.turn = j]
           b == IF {"direct"} = a.flags \cap {"direct", "awaiting"} THEN Off(a, {"completed"}) ELSE a
<1>1. Keeps(u, a)  BY OffKeeps, TurnKeeps
<1> HIDE DEF a
<1>2. Keeps(u, b)  BY <1>1, OffKeeps
<1> HIDE DEF b
<1>3. ASSUME b.active.stage \in {"sent", "admitted"}
      PROVE  Keeps(u, [b EXCEPT !.active.stage = "admitted", !.active.turn = j])
  <2> DEFINE c == [b.active EXCEPT !.stage = "admitted", !.turn = j]
  <2>1. b.active \in Actives  BY <1>2 DEF Keeps, Good, Threads
  <2>2. c \in Actives /\ c.entry = b.active.entry /\ c.stage = "admitted"
    BY <2>1 DEF Actives, Stages
  <2>3. [b EXCEPT !.active.stage = "admitted", !.active.turn = j] = [b EXCEPT !.active = c]
    BY <1>2 DEF Keeps, Good, Threads, Actives
  <2> HIDE DEF c
  <2>4. Keeps(u, [b EXCEPT !.active = c])  BY <1>2, <1>3, <2>2, StageKeeps
  <2> QED  BY <2>3, <2>4
<1> QED  BY <1>2, <1>3 DEF OnTurnStarted, a, b

\* A message that is still being prepared is bound to no turn, so no completion is its.
LEMMA CompletedKeeps ==
    ASSUME NEW u, NEW w, Keeps(u, w), NEW j \in Jobs, NEW end \in {"completed", "failed"}
    PROVE  Keeps(u, OnTurnCompleted(w, j, end))
<1>1. ASSUME w.active.stage # "none", w.active.turn = j
      PROVE  Keeps(u, [w EXCEPT !.active.stage = "admitted", !.active.end = end])
  <2> DEFINE c == [w.active EXCEPT !.stage = "admitted", !.end = end]
  <2>1. w.active \in Actives  BY DEF Keeps, Good, Threads
  <2>2. c \in Actives /\ c.entry = w.active.entry /\ c.stage = "admitted"
    BY <2>1 DEF Actives, Stages
  <2>3. w.active.stage \in {"sent", "admitted"}
    BY <1>1, <2>1, NamesAssumption DEF Keeps, Good, Once, Actives, Stages, Jobs
  <2>4. [w EXCEPT !.active.stage = "admitted", !.active.end = end] = [w EXCEPT !.active = c]
    BY DEF Keeps, Good, Threads, Actives
  <2> HIDE DEF c
  <2>5. Keeps(u, [w EXCEPT !.active = c])  BY <2>2, <2>3, StageKeeps
  <2> QED  BY <2>4, <2>5
<1>2. ASSUME w.active.stage # "none", w.active.turn = j
      PROVE  Keeps(u, FinishOrSchedule(On([w EXCEPT !.active.stage = "admitted",
                                                    !.active.end = end], {"done"})))
  BY <1>1, <1>2, PausedKeeps, FinishOrScheduleKeeps
<1>3. Keeps(u, FinishDirect(On(w, {"done"}))) /\ Keeps(u, FinishDirect(On(w, {"done", "completed"})))
  BY PausedKeeps, FinishDirectKeeps
<1>4. Keeps(u, FinishOrSchedule(On(w, {"done"})))
      /\ Keeps(u, FinishOrSchedule(On(PauseThread(w), {"done"})))
  BY PausedKeeps, PauseKeeps, FinishOrScheduleKeeps
<1> QED  BY <1>2, <1>3, <1>4 DEF OnTurnCompleted

LEMMA WithoutTurnKeeps ==
    ASSUME NEW u, NEW w, Keeps(u, w)
    PROVE  Keeps(u, OnDirectWithoutTurn(w))
  BY PausedKeeps, FinishDirectKeeps, ScheduleKeeps DEF OnDirectWithoutTurn

LEMMA MarkStartedKeeps ==
    ASSUME NEW u, NEW w, Keeps(u, w), NEW interrupted
    PROVE  Keeps(u, MarkStarted(w, interrupted))
  BY DropKeeps, PausedKeeps, OffKeeps, DirectChangedKeeps DEF MarkStarted

LEMMA NoteKeeps ==
    ASSUME NEW u, NEW w, Keeps(u, w)
    PROVE  Keeps(u, NoteDirectTurn(w))
  BY OffKeeps, TurnKeeps DEF NoteDirectTurn

LEMMA InputFailedKeeps ==
    ASSUME NEW u, NEW w, Keeps(u, w)
    PROVE  Keeps(u, DirectInputFailed(w))
  BY EndDirectKeeps, PauseKeeps DEF DirectInputFailed

-----------------------------------------------------------------------------
(* Sessions.                                                               *)

LEMMA ClosingKeeps ==
    ASSUME NEW u, NEW w, Keeps(u, w)
    PROVE  Keeps(u, OnSessionClosing(w))
  BY DropOrRestoreKeeps, PausedKeeps, EmitKeeps, EndDirectKeeps, OffKeeps, ResetKeeps
  DEF OnSessionClosing

LEMMA ReplacementKeeps ==
    ASSUME NEW u, NEW w, Keeps(u, w)
    PROVE  Keeps(u, BeginReplacement(w)) /\ Keeps(u, ReplacementFailed(w))
  BY DropOrRestoreKeeps, PausedKeeps, EmitKeeps, EndDirectKeeps, OffKeeps
  DEF BeginReplacement, ReplacementFailed

LEMMA RebindKeeps ==
    ASSUME NEW u, NEW w, Keeps(u, w)
    PROVE  Keeps(u, Rebind(w))
<1> DEFINE c == [w.active EXCEPT !.on = w.cur, !.turn = None, !.end = "none"]
<1>1. w.active \in Actives /\ w.cur \in Nat  BY DEF Keeps, Good, Threads
<1>2. c \in Actives /\ c.entry = w.active.entry /\ c.stage = w.active.stage /\ c.turn = None
  BY <1>1 DEF Actives
<1>3. Rebind(w) = [w EXCEPT !.active = c]
  BY DEF Rebind, Keeps, Good, Threads, Actives
<1> HIDE DEF c
<1> QED  BY <1>2, <1>3, StageKeeps

LEMMA AttachedKeeps ==
    ASSUME NEW u, NEW w, Keeps(u, w)
    PROVE  Keeps(u, OnSessionAttached(w))
  BY DropOrRestoreKeeps, RebindKeeps, EmitKeeps, OffKeeps, ResetKeeps, ScheduleKeeps
  DEF OnSessionAttached

LEMMA ForcedKeeps ==
    ASSUME NEW u, NEW w, Keeps(u, w)
    PROVE  Keeps(u, OnForcedInterrupt(w))
  BY DropOrRestoreKeeps, EndDirectKeeps, EmitKeeps, OffKeeps, ResetKeeps, ScheduleKeeps
  DEF OnForcedInterrupt

LEMMA AdmissionFailedKeeps ==
    ASSUME NEW u, NEW w, Keeps(u, w)
    PROVE  Keeps(u, AdmissionFailed(w))
  BY DropOrRestoreKeeps, PausedKeeps, EmitKeeps, OffKeeps, ResetKeeps
  DEF AdmissionFailed

\* Fewer messages, or the same ones in another order.
LEMMA ItemsKeeps ==
    ASSUME NEW u, NEW w, Keeps(u, w), NEW s \in Seq(Entries), IsInjective(s),
           ToSet(s) \subseteq ToSet(w.items)
    PROVE  Keeps(u, [w EXCEPT !.items = s])
<1> DEFINE v == [w EXCEPT !.items = s]
<1>1. v \in Threads  BY DEF Keeps, Good, Threads
<1>2. v.active = w.active /\ v.items = s  BY DEF Keeps, Good, Threads
<1>3. Once(v)  BY <1>2 DEF Once, Keeps, Good
<1>4. Held(v) \subseteq Held(w)  BY <1>2 DEF Held
<1>5. Same(w, v)  BY DEF Same, Keeps, Good, Threads
<1> QED  BY <1>1, <1>3, <1>4, <1>5 DEF Keeps, Good, Same

-----------------------------------------------------------------------------
\* A provider that reports a turn runs one.
Sound(w) == Good(w) /\ (w.phase # "none" => w.job \in Jobs)

\* w comes from u without a message that u does not hold, and with its reservations.
Holds(u, w) == Sound(w) /\ Held(w) \subseteq Held(u) /\ w.res = u.res

LEMMA HoldsItself ==
    ASSUME NEW w, Sound(w)
    PROVE  Holds(w, w)
  BY DEF Holds

\* An operator of the queue keeps what an action has kept so far.
LEMMA Chained ==
    ASSUME NEW u, NEW w, NEW v, Holds(u, w), Keeps(w, w) => Keeps(w, v)
    PROVE  Holds(u, v)
<1>1. Keeps(w, v)  BY KeepsItself DEF Holds, Sound
<1> QED  BY <1>1 DEF Holds, Sound, Keeps, Same

LEMMA Queueing ==
    ASSUME NEW u, NEW w, Holds(u, w)
    PROVE  /\ Holds(u, Schedule(w)) /\ Holds(u, EmitState(w)) /\ Holds(u, Drop(w))
           /\ Holds(u, Restore(w)) /\ Holds(u, PauseThread(w)) /\ Holds(u, ResetTurn(w))
           /\ Holds(u, FinishDirect(w)) /\ Holds(u, DirectChanged(w))
           /\ Holds(u, FinishOrSchedule(w)) /\ Holds(u, PauseForFailure(w))
           /\ Holds(u, OnDirectWithoutTurn(w)) /\ Holds(u, NoteDirectTurn(w))
           /\ Holds(u, DirectInputFailed(w)) /\ Holds(u, OnSessionClosing(w))
           /\ Holds(u, BeginReplacement(w)) /\ Holds(u, ReplacementFailed(w))
           /\ Holds(u, OnSessionAttached(w)) /\ Holds(u, OnForcedInterrupt(w))
           /\ Holds(u, AdmissionFailed(w))
<1>1. Holds(u, Schedule(w)) /\ Holds(u, EmitState(w)) /\ Holds(u, Drop(w))
      /\ Holds(u, Restore(w)) /\ Holds(u, PauseThread(w)) /\ Holds(u, ResetTurn(w))
  BY Chained, ScheduleKeeps, EmitKeeps, DropKeeps, RestoreKeeps, PauseKeeps, ResetKeeps
<1>2. Holds(u, FinishDirect(w)) /\ Holds(u, DirectChanged(w))
      /\ Holds(u, FinishOrSchedule(w)) /\ Holds(u, PauseForFailure(w))
  BY Chained, FinishDirectKeeps, DirectChangedKeeps, FinishOrScheduleKeeps, FailureKeeps
<1>3. Holds(u, OnDirectWithoutTurn(w)) /\ Holds(u, NoteDirectTurn(w))
      /\ Holds(u, DirectInputFailed(w)) /\ Holds(u, OnSessionClosing(w))
  BY Chained, WithoutTurnKeeps, NoteKeeps, InputFailedKeeps, ClosingKeeps
<1>4. Holds(u, BeginReplacement(w)) /\ Holds(u, ReplacementFailed(w))
  BY Chained, ReplacementKeeps
<1>5. Holds(u, OnSessionAttached(w)) /\ Holds(u, OnForcedInterrupt(w))
      /\ Holds(u, AdmissionFailed(w))
  BY Chained, AttachedKeeps, ForcedKeeps, AdmissionFailedKeeps
<1> QED  BY <1>1, <1>2, <1>3, <1>4, <1>5

LEMMA Flagged ==
    ASSUME NEW u, NEW w, Holds(u, w), NEW F \in SUBSET Flags
    PROVE  Holds(u, On(w, F))
  BY Chained, OnKeeps

LEMMA Unflagged ==
    ASSUME NEW u, NEW w, Holds(u, w), NEW F
    PROVE  Holds(u, Off(w, F))
  BY Chained, OffKeeps

LEMMA Pumped ==
    ASSUME NEW u, NEW w, Holds(u, w), NEW p \in {"off", "preparing", "ending"}
    PROVE  Holds(u, [w EXCEPT !.pump = p])
  BY Chained, PumpKeeps

LEMMA Listed ==
    ASSUME NEW u, NEW w, Holds(u, w), NEW s \in Seq(Entries), IsInjective(s),
           ToSet(s) \subseteq ToSet(w.items)
    PROVE  Holds(u, [w EXCEPT !.items = s])
  BY Chained, ItemsKeeps

LEMMA Cancelled ==
    ASSUME NEW u, NEW w, Holds(u, w), NEW e
    PROVE  Holds(u, CancelPreparation(w, e))
  BY Chained, CancelKeeps

LEMMA Marked ==
    ASSUME NEW u, NEW w, Holds(u, w), NEW interrupted
    PROVE  Holds(u, MarkStarted(w, interrupted))
  BY Chained, MarkStartedKeeps

LEMMA Reported ==
    ASSUME NEW u, NEW w, Holds(u, w), NEW j \in Jobs
    PROVE  /\ \A s : Holds(u, OnUpdate(w, s))
           /\ Holds(u, OnTurnStarted(w, j))
           /\ \A end \in {"completed", "failed"} : Holds(u, OnTurnCompleted(w, j, end))
  BY Chained, UpdateKeeps, StartedKeeps, CompletedKeeps

\* What changes the provider or the session leaves the queue as it is.
LEMMA Elsewhere ==
    ASSUME NEW u, NEW w, Holds(u, w), NEW v \in Threads, v.items = w.items,
           v.active = w.active, v.res = w.res, v.phase # "none" => v.job \in Jobs
    PROVE  Holds(u, v)
  BY DEF Holds, Sound, Good, Once, Held
-----------------------------------------------------------------------------
(* Turns, interrupts and sessions.                                         *)

LEMMA SoundTyped ==
    ASSUME NEW u, NEW w, Holds(u, w)
    PROVE  /\ w \in Threads /\ w.flags \in SUBSET Flags /\ w.cur \in Nat /\ w.slot \in Inputs \cup {None}
           /\ w.job \in Jobs \cup {None} /\ w.items \in Seq(Entries) /\ IsInjective(w.items)
           /\ w.restarts \in Seq([job : Jobs, on : Nat])
           /\ w.status \in {"idle", "working", "error", "inactive"}
           /\ w.phase # "none" => w.job \in Jobs
  BY DEF Holds, Sound, Good, Once, Threads

LEMMA SilentHolds ==
    ASSUME NEW u, NEW w, Holds(u, w)
    PROVE  Holds(u, Silent(w))
<1>1. w \in Threads  BY SoundTyped
<1>2. Silent(w) \in Threads  BY <1>1 DEF Silent, Threads
<1>3. /\ Silent(w).items = w.items /\ Silent(w).active = w.active /\ Silent(w).res = w.res
      /\ Silent(w).phase = "none"
  BY <1>1 DEF Silent, Threads
<1> QED  BY <1>2, <1>3, Elsewhere

LEMMA StatusHolds ==
    ASSUME NEW u, NEW w, Holds(u, w), NEW s \in {"idle", "working", "error", "inactive"}
    PROVE  Holds(u, [w EXCEPT !.status = s])
<1> DEFINE v == [w EXCEPT !.status = s]
<1>1. w \in Threads  BY SoundTyped
<1>2. v \in Threads  BY <1>1 DEF Threads
<1>3. /\ v.items = w.items /\ v.active = w.active /\ v.res = w.res
      /\ v.phase = w.phase /\ v.job = w.job
  BY <1>1 DEF Threads
<1> QED  BY <1>2, <1>3, Elsewhere, SoundTyped

LEMMA SlotHolds ==
    ASSUME NEW u, NEW w, Holds(u, w), NEW d \in Inputs \cup {None}
    PROVE  Holds(u, [w EXCEPT !.slot = d])
<1> DEFINE v == [w EXCEPT !.slot = d]
<1>1. w \in Threads  BY SoundTyped
<1>2. v \in Threads  BY <1>1 DEF Threads
<1>3. /\ v.items = w.items /\ v.active = w.active /\ v.res = w.res
      /\ v.phase = w.phase /\ v.job = w.job
  BY <1>1 DEF Threads
<1> QED  BY <1>2, <1>3, Elsewhere, SoundTyped

LEMMA RestartsHolds ==
    ASSUME NEW u, NEW w, Holds(u, w), NEW R \in Seq([job : Jobs, on : Nat])
    PROVE  Holds(u, [w EXCEPT !.restarts = R])
<1> DEFINE v == [w EXCEPT !.restarts = R]
<1>1. w \in Threads  BY SoundTyped
<1>2. v \in Threads  BY <1>1 DEF Threads
<1>3. /\ v.items = w.items /\ v.active = w.active /\ v.res = w.res
      /\ v.phase = w.phase /\ v.job = w.job
  BY <1>1 DEF Threads
<1> QED  BY <1>2, <1>3, Elsewhere, SoundTyped

LEMMA RestartAdded ==
    ASSUME NEW u, NEW w, Holds(u, w), NEW j \in Jobs, NEW c \in Nat
    PROVE  Append(w.restarts, [job |-> j, on |-> c]) \in Seq([job : Jobs, on : Nat])
  BY SoundTyped, AppendProperties

\* A provider whose turn goes on, comes to its end or begins.
LEMMA ProviderHolds ==
    ASSUME NEW u, NEW w, Holds(u, w), NEW s \in {"idle", "working", "error", "inactive"},
           NEW j \in Jobs \cup {None}, NEW p \in {"none", "setup", "live", "done", "tail"},
           NEW l \in Jobs \cup {None}, p # "none" => j \in Jobs
    PROVE  Holds(u, [w EXCEPT !.status = s, !.job = j, !.phase = p, !.late = l])
<1> DEFINE v == [w EXCEPT !.status = s, !.job = j, !.phase = p, !.late = l]
<1>1. w \in Threads  BY SoundTyped
<1>2. v \in Threads  BY <1>1 DEF Threads
<1>3. /\ v.items = w.items /\ v.active = w.active /\ v.res = w.res
      /\ v.phase = p /\ v.job = j
  BY <1>1 DEF Threads
<1>4. v.phase # "none" => v.job \in Jobs  BY <1>3
<1> HIDE DEF v
<1>5. Holds(u, v)  BY <1>2, <1>3, <1>4, Elsewhere
<1> QED  BY <1>5 DEF v

LEMMA StartHolds ==
    ASSUME NEW u, NEW w, Holds(u, w), NEW j \in Jobs
    PROVE  Holds(u, Start(w, j))
<1> DEFINE a == On(Off(w, {"launch"}), {"quiet"})
           l == IF w.phase \in {"none", "done"} THEN a.late ELSE w.job
<1>1. Holds(u, a)  BY Unflagged, Flagged DEF Flags
<1>2. a \in Threads  BY <1>1, SoundTyped
<1>3. l \in Jobs \cup {None}  BY <1>2, SoundTyped DEF Threads
<1>4. Start(w, j) = [a EXCEPT !.status = "working", !.job = j, !.phase = "setup", !.late = l]
  <2>1. w \in Threads  BY SoundTyped
  <2>2. a.phase = w.phase /\ a.job = w.job  BY <2>1 DEF On, Off, Threads
  <2> QED  BY <2>2 DEF Start
<1> HIDE DEF a, l
<1>5. Holds(u, [a EXCEPT !.status = "working", !.job = j, !.phase = "setup", !.late = l])
  <2>1. j \in Jobs \cup {None} /\ "working" \in {"idle", "working", "error", "inactive"}
        /\ "setup" \in {"none", "setup", "live", "done", "tail"}
    OBVIOUS
  <2> QED  BY <1>1, <1>3, <2>1, ProviderHolds, Zenon
<1> QED  BY <1>4, <1>5

LEMMA StartDirectHolds ==
    ASSUME NEW u, NEW w, Holds(u, w), NEW d \in Inputs
    PROVE  Holds(u, StartDirect(w, d))
  BY Queueing, StartHolds DEF StartDirect, Jobs

LEMMA ForceStoppedHolds ==
    ASSUME NEW u, NEW w, Holds(u, w)
    PROVE  Holds(u, ForceStopped(w))
<1> DEFINE a == OnForcedInterrupt(Silent(Off(On(w, {"dead"}), {"quiet", "stop"})))
           R == IF w.slot = None THEN a.restarts
                ELSE Append(a.restarts, [job |-> w.slot, on |-> w.cur])
           b == [a EXCEPT !.status = "idle"]
           c == [b EXCEPT !.slot = None]
<1>1. Holds(u, On(w, {"dead"}))  BY Flagged DEF Flags
<1>2. Holds(u, a)  BY <1>1, Unflagged, SilentHolds, Queueing
<1> HIDE DEF a
<1>3. w.slot \in Inputs \cup {None} /\ w.cur \in Nat  BY SoundTyped
<1>4. R \in Seq([job : Jobs, on : Nat])
  BY <1>2, <1>3, SoundTyped, RestartAdded DEF Jobs
<1>5. Holds(u, b)  BY <1>2, StatusHolds
<1>6. Holds(u, c)  BY <1>5, SlotHolds
<1>7. Holds(u, [c EXCEPT !.restarts = R])  BY <1>4, <1>6, RestartsHolds
<1>8. ForceStopped(w) = [c EXCEPT !.restarts = R]
  BY <1>2, SoundTyped DEF ForceStopped, a, Threads
<1> QED  BY <1>7, <1>8

LEMMA InterruptHolds ==
    ASSUME NEW u, NEW w, Holds(u, w)
    PROVE  Holds(u, Interrupt(w))
<1>1. Holds(u, On(w, {"stop"}))  BY Flagged DEF Flags
<1> QED  BY <1>1, ForceStoppedHolds DEF Interrupt

LEMMA GoneHolds ==
    ASSUME NEW u, NEW w, Holds(u, w)
    PROVE  Holds(u, Gone(w))
<1> DEFINE a == Silent(Off(w, {"dead", "quiet", "stop", "launch"}))
           v == [a EXCEPT !.cur = 0, !.status = "inactive", !.slot = None]
<1>1. Holds(u, a)  BY Unflagged, SilentHolds
<1>2. a \in Threads  BY <1>1, SoundTyped
<1>3. Gone(w) = v  BY DEF Gone
<1> HIDE DEF a
<1>4. v \in Threads  BY <1>2 DEF Threads
<1>5. /\ v.items = a.items /\ v.active = a.active /\ v.res = a.res
      /\ v.phase = a.phase /\ v.job = a.job
  BY <1>2 DEF Threads
<1>6. v.phase # "none" => v.job \in Jobs  BY <1>1, <1>5, SoundTyped
<1> HIDE DEF v
<1>7. Holds(u, v)  BY <1>1, <1>4, <1>5, <1>6, Elsewhere
<1> QED  BY <1>3, <1>7

LEMMA AttachHolds ==
    ASSUME NEW u, NEW w, Holds(u, w), NEW s \in {"idle", "working"}, sessions \in Nat
    PROVE  Holds(u, Attach(w, s))
<1> DEFINE c == sessions + 1
           a == Silent(Off(w, {"dead", "quiet", "stop", "starting", "launch"}))
           v == [a EXCEPT !.cur = c, !.status = s, !.slot = None]
<1>0. c \in Nat /\ s \in {"idle", "working", "error", "inactive"}  OBVIOUS
<1>1. Holds(u, a)  BY Unflagged, SilentHolds
<1>2. a \in Threads  BY <1>1, SoundTyped
<1>3. Attach(w, s) = OnSessionAttached(v)  BY DEF Attach
<1> HIDE DEF a, c
<1>4. v \in Threads  BY <1>0, <1>2 DEF Threads
<1>5. /\ v.items = a.items /\ v.active = a.active /\ v.res = a.res
      /\ v.phase = a.phase /\ v.job = a.job
  BY <1>2 DEF Threads
<1>6. v.phase # "none" => v.job \in Jobs  BY <1>1, <1>5, SoundTyped
<1> HIDE DEF v
<1>7. Holds(u, v)  BY <1>1, <1>4, <1>5, <1>6, Elsewhere
<1> QED  BY <1>3, <1>7, Queueing

\* A dispatched message has left the FIFO for good: nothing else in it is the same.
LEMMA DispatchHolds ==
    ASSUME NEW u, NEW w, Holds(u, w), w.active.stage = "preparing", w.items # <<>>,
           Head(w.items) = w.active.entry
    PROVE  Holds(u, Dispatch(w))
<1> DEFINE e == w.active.entry
           c == [w.active EXCEPT !.stage = "sent"]
           a == [w EXCEPT !.items = Tail(@), !.active.stage = "sent"]
<1>1. /\ w \in Threads /\ w.items \in Seq(Entries) /\ IsInjective(w.items)
      /\ w.active \in Actives /\ w.cur \in Nat
  <2>1. w \in Threads /\ w.items \in Seq(Entries) /\ IsInjective(w.items)  BY SoundTyped
  <2> QED  BY <2>1 DEF Threads
<1>2. /\ Tail(w.items) \in Seq(Entries) /\ IsInjective(Tail(w.items)) /\ e \in Entries
      /\ ToSet(Tail(w.items)) \subseteq ToSet(w.items) /\ e \notin ToSet(Tail(w.items))
  BY <1>1, Tailed
<1>3. c \in Actives /\ c.entry = e /\ c.stage = "sent"  BY <1>1 DEF Actives, Stages
<1>4. a = [w EXCEPT !.items = Tail(w.items), !.active = c]  BY <1>1 DEF Threads, Actives
<1>5. a \in Threads  BY <1>1, <1>2, <1>3, <1>4 DEF Threads
<1>6. /\ a.items = Tail(w.items) /\ a.active = c /\ a.res = w.res
      /\ a.phase = w.phase /\ a.job = w.job
  BY <1>1, <1>4 DEF Threads
<1> HIDE DEF a, c
<1>7. Sound(a)
  <2>1. Once(a)  BY <1>2, <1>3, <1>6 DEF Once
  <2> QED  BY <1>5, <1>6, <2>1, SoundTyped DEF Sound, Good
<1>8. Held(a) \subseteq Held(w)  BY <1>2, <1>3, <1>6 DEF Held
<1>9. Holds(u, a)  BY <1>6, <1>7, <1>8 DEF Holds
<1>10. Holds(u, Start(a, e))  BY <1>2, <1>9, StartHolds DEF Jobs
<1>11. ASSUME Has(a, "dead")
       PROVE  Holds(u, [On(a, {"replacing", "restarting"}) EXCEPT
                           !.restarts = Append(@, [job |-> e, on |-> a.cur])])
  <2> DEFINE v == On(a, {"replacing", "restarting"})
  <2>1. Holds(u, v)  BY <1>9, Flagged DEF Flags
  <2>2. a.cur \in Nat /\ e \in Jobs  BY <1>2, <1>9, SoundTyped DEF Jobs
  <2> HIDE DEF v
  <2>3. Append(v.restarts, [job |-> e, on |-> a.cur]) \in Seq([job : Jobs, on : Nat])
    BY <2>1, <2>2, RestartAdded
  <2>4. Holds(u, [v EXCEPT !.restarts = Append(v.restarts, [job |-> e, on |-> a.cur])])
    BY <2>1, <2>3, RestartsHolds
  <2> QED  BY <2>4 DEF v
<1> QED  BY <1>10, <1>11 DEF Dispatch, a

LEMMA RestartRejectedHolds ==
    ASSUME NEW u, NEW w, Holds(u, w), NEW j
    PROVE  Holds(u, RestartRejected(w, j))
  BY Unflagged, Queueing DEF RestartRejected

LEMMA RestartRemoved ==
    ASSUME NEW R \in Seq([job : Jobs, on : Nat]), NEW i \in DOMAIN R
    PROVE  RemoveAt(R, i) \in Seq([job : Jobs, on : Nat]) /\ R[i] \in [job : Jobs, on : Nat]
<1> DEFINE S == [job : Jobs, on : Nat]
<1>1. Len(R) \in Nat /\ DOMAIN R = 1 .. Len(R) /\ \A k \in 1 .. Len(R) : R[k] \in S
  BY LenProperties, ElementOfSeq
<1>2. i \in 1 .. Len(R)  BY <1>1
<1>3. \A k \in 1 .. i - 1 : R[k] \in S  BY <1>1, <1>2
<1>4. \A k \in i + 1 .. Len(R) : R[k] \in S  BY <1>1, <1>2
<1> HIDE DEF S
<1>5. SubSeq(R, 1, i - 1) \in Seq(S)  BY <1>1, <1>2, <1>3, SubSeqProperties
<1>6. SubSeq(R, i + 1, Len(R)) \in Seq(S)  BY <1>1, <1>2, <1>4, SubSeqProperties
<1>7. RemoveAt(R, i) \in Seq(S)  BY <1>5, <1>6, ConcatProperties DEF RemoveAt
<1> QED  BY <1>1, <1>2, <1>7 DEF S

-----------------------------------------------------------------------------
(* The actions that neither queue a message nor count a reservation.       *)

LEMMA ReorderHolds ==
    ASSUME Sound(th), NEW i \in DOMAIN th.items, NEW k \in DOMAIN th.items, Reorder(i, k)
    PROVE  Holds(th, th')
<1> DEFINE w == [th EXCEPT !.items = Moved(th.items, i, k)]
<1>1. Holds(th, th)  BY HoldsItself
<1>2. Holds(th, w)  BY <1>1, SoundTyped, Reordered, Listed
<1>3. th' = Schedule(IF Head(w.items) = w.active.entry THEN w
                     ELSE CancelPreparation(w, w.active.entry))
  BY DEF Reorder
<1> HIDE DEF w
<1> QED  BY <1>2, <1>3, Cancelled, Queueing

LEMMA ResumeHolds ==
    ASSUME Sound(th), Resume
    PROVE  Holds(th, th')
  BY HoldsItself, Unflagged, Queueing DEF Resume

LEMMA StopHolds ==
    ASSUME Sound(th), Stop \/ PauseForEdit \/ Watchdog
    PROVE  Holds(th, th')
<1>1. Holds(th, th) /\ Holds(th, PauseThread(th))  BY HoldsItself, Queueing
<1>2. CASE Stop  BY <1>1, <1>2, InterruptHolds DEF Stop
<1>3. CASE PauseForEdit  BY <1>1, <1>3 DEF PauseForEdit
<1>4. CASE Watchdog  BY <1>1, <1>4, ForceStoppedHolds DEF Watchdog
<1> QED  BY <1>2, <1>3, <1>4

LEMMA ClearSteerHolds ==
    ASSUME Sound(th), ClearSteer
    PROVE  Holds(th, th')
<1> DEFINE w == [th EXCEPT !.slot = None]
           a == Off(w, {"awaiting"})
<1>1. Holds(th, w)  BY HoldsItself, SlotHolds
<1>2. th' = IF ~Has(w, "direct") THEN w
            ELSE FinishDirect(IF Has(a, "done") THEN On(a, {"completed"}) ELSE a)
  BY DEF ClearSteer
<1> HIDE DEF w
<1>3. Holds(th, a)  BY <1>1, Unflagged
<1> HIDE DEF a
<1>4. Holds(th, On(a, {"completed"}))  BY <1>3, Flagged DEF Flags
<1> QED  BY <1>1, <1>2, <1>3, <1>4, Queueing

LEMMA PumpHolds ==
    ASSUME Sound(th), Prepared \/ PrepareFails \/ PumpEnds
    PROVE  Holds(th, th')
<1> DEFINE w == [th EXCEPT !.pump = "ending"]
           v == [th EXCEPT !.pump = "off"]
<1>1. Holds(th, w) /\ Holds(th, v)  BY HoldsItself, Pumped
<1>2. CASE Prepared
  <2>1. th' = IF w.active.stage # "preparing" THEN w
              ELSE IF StillDeliverable(w) THEN Dispatch(w)
              ELSE IF CanDeliver(Drop(w)) THEN AdmissionFailed(w)
              ELSE EmitState(Restore(w))
    BY <1>2 DEF Prepared
  <2> HIDE DEF w
  <2>2. ASSUME StillDeliverable(w), w.active.stage = "preparing"
        PROVE  Holds(th, Dispatch(w))
    <3>0. w \in Threads  BY <1>1, SoundTyped
    <3>1. Drop(w).items = w.items  BY <3>0 DEF Drop, Threads
    <3>2. w.items # <<>> /\ Head(w.items) = w.active.entry
      BY <2>2, <3>1 DEF StillDeliverable, CanDeliver
    <3> QED  BY <1>1, <2>2, <3>2, DispatchHolds
  <2> QED  BY <1>1, <2>1, <2>2, Queueing
<1>3. CASE PrepareFails
  <2>1. th' = IF w.active.stage # "preparing" THEN w ELSE AdmissionFailed(w)
    BY <1>3 DEF PrepareFails
  <2> HIDE DEF w
  <2> QED  BY <1>1, <2>1, Queueing
<1>4. CASE PumpEnds
  <2>1. th' = IF Has(v, "again") THEN Schedule(Off(v, {"again"})) ELSE EmitState(v)
    BY <1>4 DEF PumpEnds
  <2> HIDE DEF v
  <2> QED  BY <1>1, <2>1, Unflagged, Queueing
<1> QED  BY <1>2, <1>3, <1>4

\* Reports of the provider.
LEMMA SaysWorkingHolds ==
    ASSUME Sound(th), SaysWorking
    PROVE  Holds(th, th')
<1> DEFINE w == [Off(th, {"quiet"}) EXCEPT !.status = "working"]
<1>1. Holds(th, w)  BY HoldsItself, Unflagged, StatusHolds
<1>2. th' = OnUpdate(w, "working")  BY DEF SaysWorking
<1>3. th.job \in Jobs  BY HoldsItself, SoundTyped DEF SaysWorking
<1> HIDE DEF w
<1> QED  BY <1>1, <1>2, <1>3, Reported

LEMMA SaysStartedHolds ==
    ASSUME Sound(th), SaysStarted
    PROVE  Holds(th, th')
<1> DEFINE o == Off(th, {"launch"})
           w == [o EXCEPT !.phase = "live"]
<1>1. Holds(th, th) /\ th \in Threads /\ th.job \in Jobs
  BY HoldsItself, SoundTyped DEF SaysStarted
<1>2. Holds(th, o) /\ o \in Threads  BY <1>1, Unflagged, SoundTyped
<1>3. o.job = th.job  BY <1>1 DEF Off, Threads
<1>4. th' = OnTurnStarted(w, th.job)  BY DEF SaysStarted
<1> HIDE DEF o
<1>5. w \in Threads  BY <1>2 DEF Threads
<1>6. w.items = o.items /\ w.active = o.active /\ w.res = o.res /\ w.job = th.job
  BY <1>2, <1>3 DEF Threads
<1> HIDE DEF w
<1>7. Holds(th, w)  BY <1>1, <1>2, <1>5, <1>6, Elsewhere
<1> QED  BY <1>1, <1>4, <1>7, Reported

LEMMA SaysCompletedHolds ==
    ASSUME Sound(th), NEW end \in {"completed", "failed"}, SaysCompleted(end)
    PROVE  Holds(th, th')
<1> DEFINE o == Off(th, {"quiet"})
           w == IF th.phase = "live" THEN [o EXCEPT !.phase = "done"]
                ELSE [o EXCEPT !.phase = "none", !.job = None]
<1>1. Holds(th, th) /\ th \in Threads /\ th.job \in Jobs
  BY HoldsItself, SoundTyped DEF SaysCompleted
<1>2. Holds(th, o) /\ o \in Threads  BY <1>1, Unflagged, SoundTyped
<1>3. o.job = th.job  BY <1>1 DEF Off, Threads
<1>4. th' = OnTurnCompleted(w, th.job, end)  BY DEF SaysCompleted
<1> HIDE DEF o
<1>5. w \in Threads  BY <1>2 DEF Threads
<1>6. w.items = o.items /\ w.active = o.active /\ w.res = o.res
  BY <1>2 DEF Threads
<1>7. w.phase # "none" => w.job \in Jobs  BY <1>1, <1>2, <1>3 DEF Threads
<1> HIDE DEF w
<1>8. Holds(th, w)  BY <1>2, <1>5, <1>6, <1>7, Elsewhere
<1> QED  BY <1>1, <1>4, <1>8, Reported

LEMMA SaysLateHolds ==
    ASSUME Sound(th), SaysLateCompletion
    PROVE  Holds(th, th')
<1> DEFINE o == Off(th, {"quiet"})
           w == [o EXCEPT !.late = None]
<1>1. Holds(th, th) /\ th \in Threads /\ th.late \in Jobs
  <2>1. Holds(th, th) /\ th \in Threads  BY HoldsItself, SoundTyped
  <2> QED  BY <2>1 DEF SaysLateCompletion, Threads
<1>2. Holds(th, o) /\ o \in Threads  BY <1>1, Unflagged, SoundTyped
<1>3. th' = OnTurnCompleted(w, th.late, "completed")  BY DEF SaysLateCompletion
<1> HIDE DEF o
<1>4. w \in Threads  BY <1>2 DEF Threads
<1>5. /\ w.items = o.items /\ w.active = o.active /\ w.res = o.res
      /\ w.phase = o.phase /\ w.job = o.job
  BY <1>2 DEF Threads
<1> HIDE DEF w
<1>6. Holds(th, w)  BY <1>2, <1>4, <1>5, Elsewhere, SoundTyped
<1> QED  BY <1>1, <1>3, <1>6, Reported

LEMMA SaysIdleHolds ==
    ASSUME Sound(th), SaysIdle
    PROVE  Holds(th, th')
<1> DEFINE o == Off(th, {"stop"})
           p == IF th.phase = "live" THEN "tail" ELSE "none"
           j == IF th.phase = "live" THEN th.job ELSE None
           w == [o EXCEPT !.status = "idle", !.phase = p, !.job = j]
<1>1. Holds(th, th) /\ th \in Threads /\ th.job \in Jobs
  BY HoldsItself, SoundTyped DEF SaysIdle
<1>2. Holds(th, o) /\ o \in Threads  BY <1>1, Unflagged, SoundTyped
<1>3. o.job = th.job /\ o.phase = th.phase  BY <1>1 DEF Off, Threads
<1>4. th' = OnUpdate(IF w.slot = None THEN w
                     ELSE StartDirect([w EXCEPT !.slot = None], w.slot), "idle")
  BY <1>2, <1>3 DEF SaysIdle, Threads
<1>9. /\ p \in {"none", "setup", "live", "done", "tail"} /\ j \in Jobs \cup {None}
      /\ p # "none" => j \in Jobs
  BY <1>1
<1> HIDE DEF o, p, j
<1>5. w \in Threads  BY <1>2, <1>9 DEF Threads
<1>6. /\ w.items = o.items /\ w.active = o.active /\ w.res = o.res
      /\ w.phase # "none" => w.job \in Jobs
  BY <1>2, <1>9 DEF Threads
<1> HIDE DEF w
<1>7. Holds(th, w) /\ w.slot \in Inputs \cup {None}  BY <1>2, <1>5, <1>6, Elsewhere, SoundTyped
<1>8. w.slot # None => Holds(th, StartDirect([w EXCEPT !.slot = None], w.slot))
  BY <1>7, SlotHolds, StartDirectHolds
<1> QED  BY <1>1, <1>4, <1>7, <1>8, Reported

LEMMA AsksHolds ==
    ASSUME Sound(th), Asks \/ Answered
    PROVE  Holds(th, th')
<1>1. Holds(th, Off(th, {"quiet"})) /\ Holds(th, Off(th, {"asks"}))  BY HoldsItself, Unflagged
<1>2. CASE Asks  BY <1>1, <1>2, Flagged DEF Asks, Flags
<1>3. CASE Answered  BY <1>1, <1>3, Queueing DEF Answered
<1> QED  BY <1>2, <1>3

LEMMA FailsHolds ==
    ASSUME Sound(th), Fails
    PROVE  Holds(th, th')
  BY HoldsItself, SilentHolds, StatusHolds, Queueing DEF Fails

LEMMA WithoutTurnHolds ==
    ASSUME Sound(th), CompletesWithoutTurn
    PROVE  Holds(th, th')
<1> DEFINE o == Off(th, {"quiet", "launch"})
           w == [o EXCEPT !.status = "idle", !.phase = "none", !.job = None]
           v == IF Has(th, "launch") THEN FinishOrSchedule(OnDirectWithoutTurn(w))
                ELSE IF th.job \in Inputs THEN OnDirectWithoutTurn(w) ELSE w
           c == [v.active EXCEPT !.end = "completed"]
<1>1. Holds(th, th) /\ th \in Threads  BY HoldsItself, SoundTyped
<1>2. Holds(th, o) /\ o \in Threads  BY <1>1, Unflagged, SoundTyped
<1>3. th' = IF th.job \in Inputs THEN v
            ELSE FinishOrSchedule(IF v.active.stage # "none" /\ v.active.entry = th.job
                                  THEN [v EXCEPT !.active.end = "completed"] ELSE v)
  BY DEF CompletesWithoutTurn
<1> HIDE DEF o
<1>4. w \in Threads  BY <1>2 DEF Threads
<1>5. /\ w.items = o.items /\ w.active = o.active /\ w.res = o.res /\ w.phase = "none"
  BY <1>2 DEF Threads
<1> HIDE DEF w
<1>6. Holds(th, w)  BY <1>2, <1>4, <1>5, Elsewhere
<1>7. Holds(th, v) /\ v \in Threads  BY <1>6, Queueing, SoundTyped
<1> HIDE DEF v
<1>8. v.active \in Actives  BY <1>7 DEF Threads
<1>9. /\ c \in Actives /\ c.entry = v.active.entry /\ c.stage = v.active.stage
      /\ c.turn = v.active.turn
  BY <1>8 DEF Actives
<1>10. [v EXCEPT !.active.end = "completed"] = [v EXCEPT !.active = c]
  BY <1>7 DEF Threads, Actives
<1> HIDE DEF c
<1>11. Holds(th, [v EXCEPT !.active = c])
  <2>1. c.stage = "preparing" => c.turn = None  BY <1>7, <1>9 DEF Holds, Sound, Good, Once
  <2>2. Keeps(v, v) => Keeps(v, [v EXCEPT !.active = c])  BY <1>9, <2>1, StageKeeps
  <2> QED  BY <1>7, <2>2, Chained
<1> QED  BY <1>3, <1>7, <1>10, <1>11, Queueing

LEMMA SteerHolds ==
    ASSUME Sound(th), NEW d \in Inputs, SteerFallsBack(d) \/ SteerRefused(d)
    PROVE  Holds(th, th')
<1>1. Holds(th, th) /\ th \in Threads  BY HoldsItself, SoundTyped
<1>2. CASE SteerFallsBack(d)
  <2> DEFINE w == [th EXCEPT !.job = d, !.phase = "setup"]
  <2>1. w \in Threads  BY <1>1 DEF Threads, Jobs
  <2>2. /\ w.items = th.items /\ w.active = th.active /\ w.res = th.res /\ w.job \in Jobs
    BY <1>1 DEF Threads, Jobs
  <2>3. th' = w  BY <1>2 DEF SteerFallsBack
  <2> HIDE DEF w
  <2> QED  BY <1>1, <2>1, <2>2, <2>3, Elsewhere
<1>3. CASE SteerRefused(d)
  <2>1. Holds(th, PauseForFailure([th EXCEPT !.status = "error"]))
    BY <1>1, StatusHolds, Queueing
  <2> QED  BY <1>1, <1>3, <2>1 DEF SteerRefused
<1> QED  BY <1>2, <1>3

LEMMA ClosesHolds ==
    ASSUME Sound(th), Closes
    PROVE  Holds(th, th')
<1> DEFINE a == OnSessionClosing(Silent(Off(th, {"quiet", "stop"})))
           s == IF a.status = "error" THEN "error" ELSE "inactive"
<1>1. Holds(th, a)  BY HoldsItself, Unflagged, SilentHolds, Queueing
<1>2. a \in Threads  BY <1>1, SoundTyped
<1>3. th' = On([a EXCEPT !.status = s], {"dead"})
  BY <1>2 DEF Closes, Threads
<1> HIDE DEF a
<1>4. s \in {"idle", "working", "error", "inactive"}  OBVIOUS
<1> HIDE DEF s
<1>5. Holds(th, [a EXCEPT !.status = s])  BY <1>1, <1>4, StatusHolds
<1> QED  BY <1>3, <1>5, Flagged DEF Flags

LEMMA SessionHolds ==
    ASSUME Sound(th), CloseThread \/ StartThread \/ StartFails
    PROVE  Holds(th, th')
<1>1. Holds(th, th)  BY HoldsItself
<1>2. CASE CloseThread  BY <1>1, <1>2, Queueing, GoneHolds DEF CloseThread
<1>3. CASE StartThread
  <2>1. Holds(th, Gone(OnSessionClosing(BeginReplacement(th))))  BY <1>1, Queueing, GoneHolds
  <2> QED  BY <1>1, <1>3, <2>1, Flagged DEF StartThread, Flags
<1>4. CASE StartFails
  <2>1. Holds(th, Off(th, {"starting"}))  BY <1>1, Unflagged
  <2> QED  BY <1>4, <2>1, Queueing DEF StartFails
<1> QED  BY <1>2, <1>3, <1>4

LEMMA RestartHolds ==
    ASSUME Sound(th), sessions \in Nat, Started \/ RestartAttaches
    PROVE  Holds(th, th')
<1>1. Holds(th, th) /\ th \in Threads  BY HoldsItself, SoundTyped
<1>2. CASE Started  BY <1>1, <1>2, AttachHolds DEF Started
<1>3. CASE RestartAttaches
  <2> DEFINE R == Tail(th.restarts)
             j == Head(th.restarts).job
             a == Attach([th EXCEPT !.restarts = R], "working")
             v == [a EXCEPT !.job = j, !.phase = "setup", !.flags = @ \cup {"quiet", "launch"}]
  <2>1. /\ R \in Seq([job : Jobs, on : Nat])
        /\ Head(th.restarts) \in [job : Jobs, on : Nat]
    BY <1>1, <1>3, SoundTyped, HeadTailProperties DEF RestartAttaches
  <2>2. j \in Jobs  BY <2>1
  <2>3. th' = v  BY <1>3 DEF RestartAttaches
  <2> HIDE DEF R, j
  <2>4. Holds(th, a)  BY <1>1, <2>1, RestartsHolds, AttachHolds
  <2>5. a \in Threads  BY <2>4, SoundTyped
  <2> HIDE DEF a
  <2>6. v \in Threads  BY <2>2, <2>5 DEF Threads, Flags
  <2>7. v.items = a.items /\ v.active = a.active /\ v.res = a.res /\ v.job = j
    BY <2>5 DEF Threads
  <2> HIDE DEF v
  <2> QED  BY <2>2, <2>3, <2>4, <2>6, <2>7, Elsewhere
<1> QED  BY <1>2, <1>3

LEMMA RestartEndsHolds ==
    ASSUME Sound(th), NEW i \in DOMAIN th.restarts, RestartFails(i) \/ RestartAbandoned(i)
    PROVE  Holds(th, th')
<1> DEFINE R == RemoveAt(th.restarts, i)
           j == th.restarts[i].job
           w == [th EXCEPT !.restarts = R]
           v == [w EXCEPT !.status = "error"]
<1>1. Holds(th, th) /\ th \in Threads /\ R \in Seq([job : Jobs, on : Nat])
  BY HoldsItself, SoundTyped, RestartRemoved
<1>2. CASE RestartFails(i)
  <2>1. v = [th EXCEPT !.restarts = R, !.status = "error"]  BY <1>1 DEF Threads
  <2>2. th' = IF j \in Inputs /\ (Promotes(j) \/ Pc(j) # "handed") THEN PauseForFailure(v)
              ELSE RestartRejected(v, j)
    BY <1>2, <2>1 DEF RestartFails
  <2> HIDE DEF R
  <2>3. Holds(th, v)  BY <1>1, RestartsHolds, StatusHolds
  <2> HIDE DEF v
  <2> QED  BY <2>2, <2>3, Queueing, RestartRejectedHolds
<1>3. CASE RestartAbandoned(i)
  <2>1. th' = IF j \in Entries /\ Has(w, "restarting") THEN RestartRejected(w, j) ELSE w
    BY <1>3 DEF RestartAbandoned
  <2> HIDE DEF R
  <2>2. Holds(th, w)  BY <1>1, RestartsHolds
  <2> HIDE DEF w
  <2> QED  BY <2>1, <2>2, RestartRejectedHolds
<1> QED  BY <1>2, <1>3

-----------------------------------------------------------------------------
(* Direct inputs and their reservations.                                   *)

Res == {d \in Inputs : Pc(d) \in Reserved}
Counted(n) == [th EXCEPT !.res = @ + n]

\* A step counts one reservation more, one less, or none, and says so.
Untouched == Holds(th, th') /\ Res' = Res
Taken == Holds(Counted(1), th') /\ \E d \in Inputs \ Res : Res' = Res \cup {d}
Released == Holds(Counted(-1), th') /\ \E d \in Res : Res' = Res \ {d}
Ledger == Untouched \/ Taken \/ Released

Records == [Inputs -> [pc : Pcs, entry : Entries \cup {None}, on : Nat]]

LEMMA ResTyped ==
    ASSUME NEW w \in Threads, NEW r \in Int
    PROVE  [w EXCEPT !.res = r] \in Threads
  BY DEF Threads

LEMMA CountedHolds ==
    ASSUME Sound(th), NEW n \in Int
    PROVE  /\ Holds(Counted(n), Counted(n)) /\ Held(Counted(n)) = Held(th)
           /\ Counted(n).res = th.res + n
<1> DEFINE u == Counted(n)
<1>1. th \in Threads  BY HoldsItself, SoundTyped
<1>2. u \in Threads
  <2>1. th.res \in Int  BY <1>1 DEF Threads
  <2>2. th.res + n \in Int  BY <2>1
  <2> QED  BY <1>1, <2>2, ResTyped DEF Counted
<1>3. /\ u.items = th.items /\ u.active = th.active /\ u.phase = th.phase /\ u.job = th.job
      /\ u.res = th.res + n
  BY <1>1 DEF Counted, Threads
<1> HIDE DEF u
<1>4. Sound(u)  BY <1>2, <1>3 DEF Sound, Good, Once
<1>5. Held(u) = Held(th)  BY <1>3 DEF Held
<1> QED  BY <1>3, <1>4, <1>5, HoldsItself DEF u

LEMMA ReleaseHolds ==
    ASSUME Sound(th), NEW w, Holds(th, w)
    PROVE  Holds(Counted(-1), Release(w))
<1> DEFINE x == [w EXCEPT !.res = @ - 1]
<1>1. w \in Threads /\ w.res = th.res /\ Held(w) \subseteq Held(th) /\ Sound(w)
  BY SoundTyped DEF Holds
<1>2. x \in Threads
  <2>1. w.res \in Int  BY <1>1 DEF Threads
  <2>2. w.res - 1 \in Int  BY <2>1
  <2> QED  BY <1>1, <2>2, ResTyped
<1>3. /\ x.items = w.items /\ x.active = w.active /\ x.phase = w.phase /\ x.job = w.job
      /\ x.res = w.res - 1
  BY <1>1 DEF Threads
<1>4. th.res \in Int  BY HoldsItself, SoundTyped DEF Threads
<1> HIDE DEF x
<1>5. Sound(x)  BY <1>1, <1>2, <1>3 DEF Sound, Good, Once
<1>6. Held(x) = Held(w)  BY <1>3 DEF Held
<1>7. Held(Counted(-1)) = Held(th) /\ Counted(-1).res = th.res + (-1)  BY CountedHolds
<1>8. x.res = Counted(-1).res  BY <1>1, <1>3, <1>4, <1>7
<1>9. Holds(Counted(-1), x)  BY <1>1, <1>5, <1>6, <1>7, <1>8 DEF Holds
<1> QED  BY <1>9, Queueing DEF Release, x

\* Awaiting an outcome and having one are both reserved.
LEMMA ResolveKeeps ==
    ASSUME inputs \in Records, NEW D, NEW outcome \in {"accepted", "refused"}
    PROVE  /\ Resolve(D, outcome) \in Records
           /\ \A d \in Inputs : Resolve(D, outcome)[d].pc \in Reserved <=> Pc(d) \in Reserved
           /\ \A d \in Inputs : Pc(d) # "handed" => Resolve(D, outcome)[d] = inputs[d]
<1>1. \A d \in Inputs : inputs[d] \in [pc : Pcs, entry : Entries \cup {None}, on : Nat]
  BY DEF Records
<1>2. \A d \in Inputs : [inputs[d] EXCEPT !.pc = outcome]
                            \in [pc : Pcs, entry : Entries \cup {None}, on : Nat]
  BY <1>1 DEF Pcs, Reserved
<1>3. \A d \in Inputs : [inputs[d] EXCEPT !.pc = outcome].pc = outcome
  BY <1>1
<1>4. Resolve(D, outcome) \in Records  BY <1>1, <1>2 DEF Resolve, Records
<1> QED  BY <1>3, <1>4 DEF Resolve, Reserved, Pc

LEMMA Resolved ==
    ASSUME inputs \in Records, NEW D, NEW outcome \in {"accepted", "refused"},
           inputs' = Resolve(D, outcome)
    PROVE  inputs' \in Records /\ Res' = Res
<1>1. \A d \in Inputs : inputs'[d].pc \in Reserved <=> Pc(d) \in Reserved  BY ResolveKeeps
<1>2. inputs' \in Records  BY ResolveKeeps
<1> QED  BY <1>1, <1>2 DEF Res, Pc

\* The record of one input changes.
LEMMA InputMoves ==
    ASSUME inputs \in Records, NEW d \in Inputs,
           NEW r \in [pc : Pcs, entry : Entries \cup {None}, on : Nat],
           inputs' = [inputs EXCEPT ![d] = r]
    PROVE  /\ inputs' \in Records
           /\ r.pc \in Reserved /\ d \in Res => Res' = Res
           /\ r.pc \in Reserved /\ d \notin Res => Res' = Res \cup {d}
           /\ r.pc \notin Reserved => Res' = Res \ {d}
<1>1. inputs' \in Records  BY DEF Records
<1>2. \A x \in Inputs : inputs'[x] = IF x = d THEN r ELSE inputs[x]  BY DEF Records
<1>3. \A x \in Inputs : x \in Res' <=> IF x = d THEN r.pc \in Reserved ELSE x \in Res
  BY <1>2 DEF Res, Pc
<1>4. Res' \subseteq Inputs /\ Res \subseteq Inputs  BY DEF Res
<1> QED  BY <1>1, <1>3, <1>4

LEMMA JoinHolds ==
    ASSUME NEW u, NEW w, Holds(u, w)
    PROVE  Holds(u, JoinAdmission(w))
<1>1. CASE w.active.stage = "sent"
  <2> DEFINE a == [w.active EXCEPT !.stage = "admitted"]
  <2>1. w \in Threads  BY SoundTyped
  <2>2. w.active \in Actives  BY <2>1 DEF Threads
  <2>3. a \in Actives /\ a.entry = w.active.entry /\ a.stage = "admitted"
    BY <2>2 DEF Actives, Stages
  <2>4. [w EXCEPT !.active.stage = "admitted"] = [w EXCEPT !.active = a]
    BY <2>1 DEF Threads
  <2> HIDE DEF a
  <2>5. Keeps(w, w) => Keeps(w, [w EXCEPT !.active = a])  BY <1>1, <2>3, StageKeeps
  <2>6. Holds(u, [w EXCEPT !.active = a])  BY <2>5, Chained
  <2> QED  BY <2>4, <2>6 DEF JoinAdmission
<1>2. CASE w.active.stage # "sent"  BY <1>2 DEF JoinAdmission, AdmissionOpen
<1> QED  BY <1>1, <1>2

LEMMA BeginLedger ==
    ASSUME Sound(th), inputs \in Records, NEW d \in Inputs, NEW e \in Entries \cup {None},
           Begin(d, e)
    PROVE  inputs' \in Records /\ Ledger
<1> DEFINE r == [pc |-> IF e = None THEN "waiting" ELSE "begun", entry |-> e, on |-> 0]
<1>1. r \in [pc : Pcs, entry : Entries \cup {None}, on : Nat] /\ r.pc \in Reserved
  BY DEF Pcs, Reserved
<1>2. inputs' = [inputs EXCEPT ![d] = r] /\ d \notin Res
  BY DEF Begin, Res, Reserved, Pc
<1> HIDE DEF r
<1>3. inputs' \in Records /\ Res' = Res \cup {d}  BY <1>1, <1>2, InputMoves
<1>4. Holds(Counted(1), Counted(1))  BY CountedHolds
<1>5. th' = IF e = None THEN JoinAdmission(Counted(1)) ELSE Counted(1)
  BY DEF Begin, Counted
<1>6. Holds(Counted(1), th')  BY <1>4, <1>5, JoinHolds
<1> QED  BY <1>2, <1>3, <1>6 DEF Ledger, Taken

\* A caller that still holds its reservation.
LEMMA Holder ==
    ASSUME inputs \in Records, NEW d \in Inputs, Pc(d) \in Reserved, th.cur \in Nat
    PROVE  /\ d \in Res /\ inputs[d].entry \in Entries \cup {None}
           /\ \A p \in Pcs, n \in Nat :
                 /\ [inputs[d] EXCEPT !.pc = p] \in [pc : Pcs, entry : Entries \cup {None}, on : Nat]
                 /\ [inputs[d] EXCEPT !.pc = p].pc = p
                 /\ [inputs[d] EXCEPT !.pc = p, !.on = n]
                       \in [pc : Pcs, entry : Entries \cup {None}, on : Nat]
                 /\ [inputs[d] EXCEPT !.pc = p, !.on = n].pc = p
  BY DEF Records, Res

LEMMA ArriveLedger ==
    ASSUME Sound(th), inputs \in Records, NEW d \in Inputs, Arrive(d)
    PROVE  inputs' \in Records /\ Ledger
<1> DEFINE e == inputs[d].entry
           r == [inputs[d] EXCEPT !.pc = "waiting"]
<1>1. Holds(th, th) /\ th.cur \in Nat  BY HoldsItself, SoundTyped
<1>2. Pc(d) \in Reserved /\ d \in Res
  BY <1>1, Holder DEF Arrive, Reserved
<1>3. CASE e \in ToSet(th.items)
  <2>1. inputs' = [inputs EXCEPT ![d] = r] /\ th' = JoinAdmission(CancelPreparation(th, e))
    BY <1>3 DEF Arrive, Records
  <2>2. r \in [pc : Pcs, entry : Entries \cup {None}, on : Nat] /\ r.pc \in Reserved
    BY DEF Records, Pcs, Reserved
  <2> HIDE DEF r
  <2>3. inputs' \in Records /\ Res' = Res  BY <1>2, <2>1, <2>2, InputMoves
  <2>4. Holds(th, th')  BY <1>1, <2>1, Cancelled, JoinHolds
  <2> QED  BY <2>3, <2>4 DEF Ledger, Untouched
<1>4. CASE e \notin ToSet(th.items)
  <2>1. inputs' = [inputs EXCEPT ![d] = Failed] /\ th' = Release(th)
    BY <1>4 DEF Arrive
  <2>2. Failed \in [pc : Pcs, entry : Entries \cup {None}, on : Nat] /\ Failed.pc \notin Reserved
    BY DEF Failed, Pcs, Reserved
  <2>3. inputs' \in Records /\ Res' = Res \ {d}  BY <2>1, <2>2, InputMoves
  <2>4. Holds(Counted(-1), th')  BY <1>1, <2>1, ReleaseHolds
  <2> QED  BY <1>2, <2>3, <2>4 DEF Ledger, Released
<1> QED  BY <1>3, <1>4

LEMMA AdmittedLedger ==
    ASSUME Sound(th), inputs \in Records, NEW d \in Inputs, Admitted(d)
    PROVE  inputs' \in Records /\ Ledger
<1> DEFINE r == [inputs[d] EXCEPT !.pc = "ready"]
<1>1. Holds(th, th) /\ th.cur \in Nat  BY HoldsItself, SoundTyped
<1>2. Pc(d) \in Reserved  BY DEF Admitted, Reserved
<1>3. d \in Res  BY <1>1, <1>2, Holder
<1>4. r \in [pc : Pcs, entry : Entries \cup {None}, on : Nat] /\ r.pc \in Reserved
  BY DEF Records, Pcs, Reserved
<1>5. inputs' = [inputs EXCEPT ![d] = r] /\ th' = th  BY DEF Admitted, Records
<1> HIDE DEF r
<1>6. inputs' \in Records /\ Res' = Res  BY <1>3, <1>4, <1>5, InputMoves
<1> QED  BY <1>1, <1>5, <1>6 DEF Ledger, Untouched

\* Hand moves an input on with the session it is meant for.
LEMMA Handed ==
    ASSUME inputs \in Records, NEW d \in Inputs, Pc(d) = "ready", th.cur \in Nat,
           NEW p \in {"handed", "refused"}, inputs' = Hand(d, p)
    PROVE  inputs' \in Records /\ Res' = Res
<1> DEFINE r == [inputs[d] EXCEPT !.pc = p, !.on = th.cur]
<1>1. d \in Res  BY Holder DEF Reserved
<1>2. r \in [pc : Pcs, entry : Entries \cup {None}, on : Nat] /\ r.pc \in Reserved
  BY DEF Records, Pcs, Reserved
<1>3. inputs' = [inputs EXCEPT ![d] = r]  BY DEF Hand, Records
<1> HIDE DEF r
<1> QED  BY <1>1, <1>2, <1>3, InputMoves

\* A submit is done with its reservation when it is handed over, a promotion is not.
LEMMA HandedOverMoves ==
    ASSUME inputs \in Records, NEW d \in Inputs, Pc(d) = "ready", th.cur \in Nat,
           inputs' = HandedOver(d)
    PROVE  /\ inputs' \in Records /\ d \in Res
           /\ Res' = IF Promotes(d) THEN Res ELSE Res \ {d}
<1> DEFINE R == Resolve({th.slot}, "refused")
           r == [inputs[d] EXCEPT !.pc = IF Promotes(d) THEN "handed" ELSE "done",
                                  !.on = IF Promotes(d) THEN th.cur ELSE 0]
<1>1. d \in Res  BY Holder DEF Reserved
<1>2. /\ R \in Records /\ R[d] = inputs[d]
      /\ \A x \in Inputs : R[x].pc \in Reserved <=> Pc(x) \in Reserved
  BY ResolveKeeps
<1>3. /\ r \in [pc : Pcs, entry : Entries \cup {None}, on : Nat]
      /\ r.pc = IF Promotes(d) THEN "handed" ELSE "done"
  BY DEF Records, Pcs, Reserved
<1>4. inputs' = [R EXCEPT ![d] = r]  BY <1>2 DEF HandedOver, Records
<1> HIDE DEF R, r
<1>5. inputs' \in Records  BY <1>2, <1>3, <1>4 DEF Records
<1>6. \A x \in Inputs : inputs'[x] = IF x = d THEN r ELSE R[x]  BY <1>2, <1>4 DEF Records
<1>7. \A x \in Inputs : x \in Res' <=> IF x = d THEN Promotes(d) ELSE x \in Res
  BY <1>2, <1>3, <1>6 DEF Res, Pc, Reserved
<1>8. Res' \subseteq Inputs /\ Res \subseteq Inputs  BY DEF Res
<1> QED  BY <1>1, <1>5, <1>7, <1>8

LEMMA HandOverLedger ==
    ASSUME Sound(th), inputs \in Records, NEW d \in Inputs, Pc(d) = "ready",
           inputs' = HandedOver(d), NEW w, Holds(th, w), th' = HandOver(w, d)
    PROVE  inputs' \in Records /\ Ledger
<1>1. th.cur \in Nat  BY HoldsItself, SoundTyped
<1>2. /\ inputs' \in Records /\ d \in Res
      /\ Res' = IF Promotes(d) THEN Res ELSE Res \ {d}
  BY <1>1, HandedOverMoves
<1>3. CASE Promotes(d)
  BY <1>2, <1>3 DEF HandOver, Ledger, Untouched
<1>4. CASE ~Promotes(d)
  <2>1. Holds(Counted(-1), th')  BY <1>4, ReleaseHolds DEF HandOver
  <2> QED  BY <1>2, <1>4, <2>1 DEF Ledger, Released
<1> QED  BY <1>3, <1>4

LEMMA SubmitsLedger ==
    ASSUME Sound(th), inputs \in Records, NEW d \in Inputs, Submits(d)
    PROVE  inputs' \in Records /\ Ledger
<1>1. Holds(th, th) /\ th.cur \in Nat /\ th \in Threads  BY HoldsItself, SoundTyped
<1>2. Pc(d) = "ready"
  BY DEF Submits, SubmitToDead, SubmitToIdle, SteerNatively, StageSteer
<1>3. /\ Holds(th, MarkStarted(th, FALSE)) /\ Holds(th, MarkStarted(th, TRUE))
  BY <1>1, Marked
<1>4. CASE SubmitToDead(d)
  <2> DEFINE w == NoteDirectTurn(MarkStarted(th, FALSE))
  <2>1. inputs' \in Records /\ Res' = Res
    BY <1>1, <1>2, <1>4, Handed DEF SubmitToDead
  <2>2. Holds(th, w)  BY <1>3, Queueing
  <2>3. \/ th' = [w EXCEPT !.restarts = Append(w.restarts, [job |-> d, on |-> th.cur])]
        \/ th' = th \/ th' = MarkStarted(th, FALSE)
    BY <1>4 DEF SubmitToDead
  <2> HIDE DEF w
  <2>4. Append(w.restarts, [job |-> d, on |-> th.cur]) \in Seq([job : Jobs, on : Nat])
    BY <1>1, <2>2, RestartAdded DEF Jobs
  <2>5. Holds(th, [w EXCEPT !.restarts = Append(w.restarts, [job |-> d, on |-> th.cur])])
    BY <2>2, <2>4, RestartsHolds
  <2>6. Holds(th, th')  BY <1>1, <1>3, <2>3, <2>5
  <2> QED  BY <2>1, <2>6 DEF Ledger, Untouched
<1>5. CASE SubmitToIdle(d)
  <2> DEFINE w == StartDirect([MarkStarted(th, FALSE) EXCEPT !.slot = None], d)
  <2>1. Holds(th, w)  BY <1>3, SlotHolds, StartDirectHolds
  <2>2. th' = HandOver(w, d) /\ inputs' = HandedOver(d)  BY <1>5 DEF SubmitToIdle
  <2> HIDE DEF w
  <2> QED  BY <1>2, <2>1, <2>2, HandOverLedger
<1>6. CASE SteerNatively(d)
  <2>1. inputs' \in Records /\ Res' = Res
    BY <1>1, <1>2, <1>6, Handed DEF SteerNatively
  <2>2. Holds(th, th')  BY <1>3, <1>6, Unflagged DEF SteerNatively
  <2> QED  BY <2>1, <2>2 DEF Ledger, Untouched
<1>7. CASE StageSteer(d)
  <2> DEFINE w == Interrupt([MarkStarted(th, TRUE) EXCEPT !.slot = d])
  <2>1. Holds(th, w)  BY <1>3, SlotHolds, InterruptHolds
  <2>2. th' = HandOver(w, d) /\ inputs' = HandedOver(d)  BY <1>7 DEF StageSteer
  <2> HIDE DEF w
  <2> QED  BY <1>2, <2>1, <2>2, HandOverLedger
<1> QED  BY <1>4, <1>5, <1>6, <1>7 DEF Submits

LEMMA ReturnsLedger ==
    ASSUME Sound(th), inputs \in Records, NEW d \in Inputs, Accepted(d) \/ Refused(d)
    PROVE  inputs' \in Records /\ Ledger
<1>1. Holds(th, th) /\ th.cur \in Nat /\ th.items \in Seq(Entries) /\ IsInjective(th.items)
  BY HoldsItself, SoundTyped
<1>2. Pc(d) \in Reserved  BY DEF Accepted, Refused, Reserved
<1>3. d \in Res  BY <1>1, <1>2, Holder
<1>4. CASE Accepted(d)
  <2> DEFINE r == [inputs[d] EXCEPT !.pc = "done", !.on = 0]
             w == IF Promotes(d) THEN EmitState([th EXCEPT !.items = Without(th.items, inputs[d].entry)])
                  ELSE th
  <2>1. r \in [pc : Pcs, entry : Entries \cup {None}, on : Nat] /\ r.pc \notin Reserved
    BY DEF Records, Pcs, Reserved
  <2>2. inputs' = [inputs EXCEPT ![d] = r] /\ th' = Release(w)  BY <1>4 DEF Accepted, Records
  <2> HIDE DEF r
  <2>3. inputs' \in Records /\ Res' = Res \ {d}  BY <2>1, <2>2, InputMoves
  <2>4. Holds(th, [th EXCEPT !.items = Without(th.items, inputs[d].entry)])
    BY <1>1, Removed, Listed
  <2>5. Holds(th, w)  BY <1>1, <2>4, Queueing
  <2> HIDE DEF w
  <2>6. Holds(Counted(-1), th')  BY <2>2, <2>5, ReleaseHolds
  <2> QED  BY <1>3, <2>3, <2>6 DEF Ledger, Released
<1>5. CASE Refused(d)
  <2>1. Failed \in [pc : Pcs, entry : Entries \cup {None}, on : Nat] /\ Failed.pc \notin Reserved
    BY DEF Failed, Pcs, Reserved
  <2>2. inputs' = [inputs EXCEPT ![d] = Failed]  BY <1>5 DEF Refused
  <2>3. inputs' \in Records /\ Res' = Res \ {d}  BY <2>1, <2>2, InputMoves
  <2>4. th' = Release(th) \/ th' = Release(DirectInputFailed(th))  BY <1>5 DEF Refused
  <2>5. Holds(Counted(-1), th')  BY <1>1, <2>4, Queueing, ReleaseHolds
  <2> QED  BY <1>3, <2>3, <2>5 DEF Ledger, Released
<1> QED  BY <1>4, <1>5

\* The other steps in which a caller learns its outcome, or nobody does.
LEMMA OutcomeLedger ==
    ASSUME Sound(th), inputs \in Records, Holds(th, th'),
           \/ inputs' = inputs
           \/ \E D \in SUBSET (Jobs \cup {None}), o \in {"accepted", "refused"} : inputs' = Resolve(D, o)
    PROVE  inputs' \in Records /\ Ledger
<1>1. CASE inputs' = inputs
  BY <1>1 DEF Ledger, Untouched, Res, Pc
<1>2. ASSUME NEW D, NEW o \in {"accepted", "refused"}, inputs' = Resolve(D, o)
      PROVE  inputs' \in Records /\ Ledger
  BY <1>2, Resolved DEF Ledger, Untouched
<1> QED  BY <1>1, <1>2

\* Every step but those that put a new message into the queue.
LEMMA StepLedger ==
    ASSUME TypeOK, Sound(th), Next,
           ~\E e, f \in Entries : Queue(e) \/ RemoveEntry(e) \/ Edit(e, f)
    PROVE  inputs' \in Records /\ Ledger
<1>1. inputs \in Records /\ sessions \in Nat  BY DEF TypeOK, Records
<1>2. Holds(th, th) /\ th.job \in Jobs \cup {None} /\ th.slot \in Inputs \cup {None}
      /\ th.restarts \in Seq([job : Jobs, on : Nat])
  BY HoldsItself, SoundTyped
<1>3. ASSUME Holds(th, th'), inputs' = inputs
      PROVE  inputs' \in Records /\ Ledger
  BY <1>1, <1>3, OutcomeLedger
<1>4. ASSUME Holds(th, th'), NEW j \in Jobs \cup {None}, NEW o \in {"accepted", "refused"},
             inputs' = Resolve({j}, o)
      PROVE  inputs' \in Records /\ Ledger
  <2>1. {j} \in SUBSET (Jobs \cup {None})  OBVIOUS
  <2> QED  BY <1>1, <1>4, <2>1, OutcomeLedger
<1>5. CASE \E i, k \in DOMAIN th.items : Reorder(i, k)
  BY <1>3, <1>5, ReorderHolds DEF Reorder
<1>6. CASE Resume \/ Stop \/ PauseForEdit \/ Watchdog
  BY <1>3, <1>6, ResumeHolds, StopHolds DEF Resume, Stop, PauseForEdit, Watchdog
<1>7. CASE ClearSteer
  <2>1. inputs' = Resolve({th.slot}, "refused") /\ th.slot \in Jobs \cup {None}
    BY <1>2, <1>7 DEF ClearSteer, Jobs
  <2> QED  BY <1>4, <1>7, <2>1, ClearSteerHolds
<1>8. CASE \E d \in Inputs : \E e \in Entries \cup {None} : Begin(d, e)
  BY <1>1, <1>8, BeginLedger
<1>9. CASE \E d \in Inputs : Arrive(d) \/ Admitted(d) \/ Submits(d) \/ Accepted(d) \/ Refused(d)
  BY <1>1, <1>9, ArriveLedger, AdmittedLedger, SubmitsLedger, ReturnsLedger
<1>10. CASE Prepared \/ PrepareFails \/ PumpEnds
  BY <1>3, <1>10, PumpHolds DEF Prepared, PrepareFails, PumpEnds
<1>11. CASE SaysWorking \/ SaysLateCompletion \/ SaysIdle \/ Asks \/ Answered
  BY <1>3, <1>11, SaysWorkingHolds, SaysLateHolds, SaysIdleHolds, AsksHolds
  DEF SaysWorking, SaysLateCompletion, SaysIdle, Asks, Answered
<1>12. CASE SaysStarted
  BY <1>2, <1>4, <1>12, SaysStartedHolds DEF SaysStarted
<1>13. CASE \E end \in {"completed", "failed"} : SaysCompleted(end)
  BY <1>3, <1>13, SaysCompletedHolds DEF SaysCompleted
<1>14. CASE Fails \/ CompletesWithoutTurn
  BY <1>2, <1>4, <1>14, FailsHolds, WithoutTurnHolds DEF Fails, CompletesWithoutTurn
<1>15. CASE Closes \/ CloseThread \/ StartThread \/ StartFails
  BY <1>3, <1>15, ClosesHolds, SessionHolds DEF Closes, CloseThread, StartThread, StartFails
<1>16. CASE Started \/ RestartAttaches
  BY <1>1, <1>3, <1>16, RestartHolds DEF Started, RestartAttaches
<1>17. ASSUME NEW d \in Inputs, SteerJoins(d) \/ SteerFallsBack(d) \/ SteerRefused(d)
                                \/ StartRejected(d) \/ PromptSubmitted(d)
       PROVE  inputs' \in Records /\ Ledger
  <2>1. d \in Jobs \cup {None}  BY DEF Jobs
  <2>2. CASE SteerJoins(d) \/ StartRejected(d) \/ PromptSubmitted(d)
    BY <1>2, <1>4, <2>1, <2>2 DEF SteerJoins, StartRejected, PromptSubmitted
  <2>3. CASE SteerFallsBack(d)  BY <1>3, <2>3, SteerHolds DEF SteerFallsBack
  <2>4. CASE SteerRefused(d)  BY <1>4, <2>1, <2>4, SteerHolds DEF SteerRefused
  <2> QED  BY <1>17, <2>2, <2>3, <2>4
<1>18. ASSUME NEW i \in DOMAIN th.restarts, RestartFails(i) \/ RestartAbandoned(i)
       PROVE  inputs' \in Records /\ Ledger
  <2>1. th.restarts[i] \in [job : Jobs, on : Nat]  BY <1>2, RestartRemoved
  <2>2. th.restarts[i].job \in Jobs \cup {None}  BY <2>1
  <2>3. Holds(th, th')  BY <1>18, RestartEndsHolds
  <2>4. \/ inputs' = Resolve({th.restarts[i].job}, "refused")
        \/ inputs' = Resolve({th.restarts[i].job}, "accepted")
    BY <1>18 DEF RestartFails, RestartAbandoned
  <2> QED  BY <1>4, <2>2, <2>3, <2>4
<1> QED
  BY <1>5, <1>6, <1>7, <1>8, <1>9, <1>10, <1>11, <1>12, <1>13, <1>14, <1>15, <1>16, <1>17, <1>18
  DEF Next

-----------------------------------------------------------------------------
(* The messages the user queues, edits and removes.                        *)

\* What has been withdrawn is not in the queue, and whatever is there was queued.
Books ==
    /\ withdrawn \subseteq queued
    /\ Held(th) \subseteq queued
    /\ withdrawn \cap Held(th) = {}

LEMMA QueueKept ==
    ASSUME Sound(th), Books, NEW e \in Entries, Queue(e)
    PROVE  Sound(th') /\ Books' /\ th'.res = th.res /\ inputs' = inputs
<1> DEFINE w == [th EXCEPT !.items = Append(th.items, e)]
<1>1. /\ th \in Threads /\ th.items \in Seq(Entries) /\ IsInjective(th.items)
      /\ th.phase # "none" => th.job \in Jobs
  BY HoldsItself, SoundTyped
<1>2. e \notin Held(th) /\ e \notin queued  BY DEF Queue, Books
<1>3. /\ Append(th.items, e) \in Seq(Entries) /\ IsInjective(Append(th.items, e))
      /\ ToSet(Append(th.items, e)) = {e} \cup ToSet(th.items)
  BY <1>1, <1>2, Appended DEF Held
<1>4. w \in Threads  BY <1>1, <1>3 DEF Threads
<1>5. /\ w.items = Append(th.items, e) /\ w.active = th.active /\ w.res = th.res
      /\ w.phase = th.phase /\ w.job = th.job
  BY <1>1 DEF Threads
<1>6. th' = Schedule(IF w.status \in {"error", "inactive"} THEN On(w, {"paused"}) ELSE w)
  BY DEF Queue
<1> HIDE DEF w
<1>7. Once(w)  BY <1>2, <1>3, <1>5 DEF Once, Held, Sound, Good
<1>8. Holds(w, w)  BY <1>1, <1>4, <1>5, <1>7 DEF Holds, Sound, Good
<1>9. Holds(w, th')  BY <1>6, <1>8, Flagged, Queueing DEF Flags
<1>10. Held(w) = {e} \cup Held(th)  BY <1>3, <1>5 DEF Held
<1>11. queued' = queued \cup {e} /\ withdrawn' = withdrawn /\ inputs' = inputs
  BY DEF Queue
<1>12. Held(th') \subseteq {e} \cup Held(th) /\ Sound(th') /\ th'.res = th.res
  BY <1>5, <1>9, <1>10 DEF Holds
<1>13. Books'  BY <1>2, <1>11, <1>12 DEF Books
<1> QED  BY <1>11, <1>12, <1>13

LEMMA EditKept ==
    ASSUME Sound(th), Books, NEW e \in Entries, NEW f \in Entries, Edit(e, f)
    PROVE  Sound(th') /\ Books' /\ th'.res = th.res /\ inputs' = inputs
<1> DEFINE w == CancelPreparation(th, e)
           s == [k \in DOMAIN w.items |-> IF w.items[k] = e THEN f ELSE w.items[k]]
           v == [w EXCEPT !.items = s]
<1>1. Holds(th, w)  BY HoldsItself, Cancelled
<1>2. /\ w \in Threads /\ w.items \in Seq(Entries) /\ IsInjective(w.items)
      /\ w.phase # "none" => w.job \in Jobs
  BY <1>1, SoundTyped
<1>3. Once(w)  BY <1>1 DEF Holds, Sound, Good
<1>4. th \in Threads /\ Once(th)  BY DEF Sound, Good
<1>5. /\ e \in ToSet(th.items) /\ f \notin queued /\ f # e /\ f \notin Held(w)
      /\ f \notin ToSet(w.items)
  BY <1>1 DEF Edit, Books, Holds, Held
<1>6. w.active.stage # "none" => w.active.entry # e
  <2>1. th.active.stage \in Stages  BY <1>4 DEF Threads, Actives
  <2>2. th.active.stage \in {"sent", "admitted"} => th.active.entry # e  BY <1>4, <1>5 DEF Once
  <2>3. Drop(th).active.stage = "none"  BY <1>4 DEF Drop, NoActive, Threads
  <2> QED  BY <2>1, <2>2, <2>3 DEF CancelPreparation, Stages
<1>7. th' = Schedule(v)  BY DEF Edit
<1> HIDE DEF w
<1>8. s \in Seq(Entries) /\ IsInjective(s) /\ ToSet(s) \subseteq (ToSet(w.items) \ {e}) \cup {f}
  BY <1>2, <1>5, Replaced
<1> HIDE DEF s
<1>9. v \in Threads  BY <1>2, <1>8 DEF Threads
<1>10. /\ v.items = s /\ v.active = w.active /\ v.res = w.res
       /\ v.phase = w.phase /\ v.job = w.job
  BY <1>2 DEF Threads
<1> HIDE DEF v
<1>11. Once(v)
  <2>1. w.active.stage \in {"sent", "admitted"} => w.active.entry \in Held(w)  BY DEF Held
  <2> QED  BY <1>3, <1>5, <1>8, <1>10, <2>1 DEF Once
<1>12. Holds(v, v)  BY <1>2, <1>9, <1>10, <1>11 DEF Holds, Sound, Good
<1>13. Holds(v, th')  BY <1>7, <1>12, Queueing
<1>14. Held(v) \subseteq (Held(w) \ {e}) \cup {f}  BY <1>6, <1>8, <1>10 DEF Held
<1>15. Held(th') \subseteq (Held(th) \ {e}) \cup {f} /\ Sound(th') /\ th'.res = th.res
  BY <1>1, <1>10, <1>13, <1>14 DEF Holds
<1>16. queued' = queued \cup {f} /\ withdrawn' = withdrawn \cup {e} /\ inputs' = inputs
  BY DEF Edit
<1>17. e \in queued  BY <1>5 DEF Books, Held
<1>18. Books'  BY <1>5, <1>15, <1>16, <1>17 DEF Books
<1> QED  BY <1>15, <1>16, <1>18

LEMMA RemoveKept ==
    ASSUME Sound(th), Books, NEW e \in Entries, RemoveEntry(e)
    PROVE  Sound(th') /\ Books' /\ th'.res = th.res /\ inputs' = inputs
<1> DEFINE c == CancelPreparation(th, e)
           s == Without(c.items, e)
           w == [c EXCEPT !.items = s]
<1>1. Holds(th, c)  BY HoldsItself, Cancelled
<1>2. c \in Threads /\ c.items \in Seq(Entries) /\ IsInjective(c.items)  BY <1>1, SoundTyped
<1>3. th \in Threads /\ Once(th)  BY DEF Sound, Good
<1>4. e \in ToSet(th.items)  BY DEF RemoveEntry
<1>5. c.active.stage # "none" => c.active.entry # e
  <2>1. th.active.stage \in Stages  BY <1>3 DEF Threads, Actives
  <2>2. th.active.stage \in {"sent", "admitted"} => th.active.entry # e  BY <1>3, <1>4 DEF Once
  <2>3. Drop(th).active.stage = "none"  BY <1>3 DEF Drop, NoActive, Threads
  <2> QED  BY <2>1, <2>2, <2>3 DEF CancelPreparation, Stages
<1>6. th' = IF th.active.entry = e THEN Schedule(EmitState(w)) ELSE EmitState(w)
  BY DEF RemoveEntry
<1> HIDE DEF c
<1>7. s \in Seq(Entries) /\ IsInjective(s) /\ ToSet(s) \subseteq ToSet(c.items) \ {e}
  BY <1>2, Removed
<1> HIDE DEF s
<1>8. Holds(th, w)  BY <1>1, <1>7, Listed
<1>9. w.items = s /\ w.active = c.active  BY <1>2 DEF Threads
<1>10. Held(w) \subseteq Held(th) \ {e}  BY <1>1, <1>5, <1>7, <1>9 DEF Held, Holds
<1> HIDE DEF w
<1>11. Holds(w, w) /\ w.res = th.res  BY <1>8 DEF Holds
<1>12. Holds(w, th')  BY <1>6, <1>11, Queueing
<1>13. Held(th') \subseteq Held(th) \ {e} /\ Sound(th') /\ th'.res = th.res
  BY <1>10, <1>11, <1>12 DEF Holds
<1>14. queued' = queued /\ withdrawn' = withdrawn \cup {e} /\ inputs' = inputs
  BY DEF RemoveEntry
<1>15. e \in queued  BY <1>4 DEF Books, Held
<1>16. Books'  BY <1>13, <1>14, <1>15 DEF Books
<1> QED  BY <1>13, <1>14, <1>16

-----------------------------------------------------------------------------
(* The inductive invariant.                                                *)

\* The types; a queue without duplicates whose delivery is out of the FIFO; the books of
\* what was queued and withdrawn; and the reservations, which are finitely many.
IInv ==
    /\ TypeOK
    /\ Sound(th)
    /\ Books
    /\ IsFiniteSet(Res)
    /\ ReservationsBalance

\* Only the user's operations write the books.
LEMMA BooksUnwritten ==
    ASSUME Next, ~\E e, f \in Entries : Queue(e) \/ RemoveEntry(e) \/ Edit(e, f)
    PROVE  queued' = queued /\ withdrawn' = withdrawn
<1> USE DEF histories
<1>1. CASE \/ \E i, k \in DOMAIN th.items : Reorder(i, k)
           \/ Resume \/ Stop \/ PauseForEdit \/ Watchdog \/ ClearSteer
           \/ \E d \in Inputs : \E e \in Entries \cup {None} : Begin(d, e)
           \/ Prepared \/ PrepareFails \/ PumpEnds
  BY <1>1 DEF Reorder, Resume, Stop, PauseForEdit, Watchdog, ClearSteer, Begin, Prepared,
              PrepareFails, PumpEnds
<1>2. CASE \E d \in Inputs : Arrive(d) \/ Admitted(d) \/ Submits(d) \/ Accepted(d) \/ Refused(d)
  BY <1>2 DEF Arrive, Admitted, Submits, SubmitToDead, SubmitToIdle, SteerNatively, StageSteer,
              Accepted, Refused
<1>3. CASE \/ SaysWorking \/ SaysStarted \/ SaysLateCompletion \/ SaysIdle \/ Asks \/ Answered
           \/ \E end \in {"completed", "failed"} : SaysCompleted(end)
           \/ Fails \/ CompletesWithoutTurn \/ Closes
  BY <1>3 DEF SaysWorking, SaysStarted, SaysLateCompletion, SaysIdle, Asks, Answered,
              SaysCompleted, Fails, CompletesWithoutTurn, Closes
<1>4. CASE \/ \E d \in Inputs : SteerJoins(d) \/ SteerFallsBack(d) \/ SteerRefused(d)
                                 \/ StartRejected(d) \/ PromptSubmitted(d)
           \/ CloseThread \/ StartThread \/ Started \/ StartFails \/ RestartAttaches
           \/ \E i \in DOMAIN th.restarts : RestartFails(i) \/ RestartAbandoned(i)
  BY <1>4 DEF SteerJoins, SteerFallsBack, SteerRefused, StartRejected, PromptSubmitted,
              CloseThread, StartThread, Started, StartFails, RestartAttaches, RestartFails,
              RestartAbandoned
<1> QED  BY <1>1, <1>2, <1>3, <1>4 DEF Next

\* The lock, the sessions and the histories keep their types.
LEMMA RestTyped ==
    ASSUME TypeOK, Sound(th), Next
    PROVE  /\ lock' \in Inputs \cup {None} /\ native' \in BOOLEAN /\ sessions' \in Nat
           /\ queued' \subseteq Entries /\ withdrawn' \subseteq Entries
           /\ given' \subseteq Inputs /\ begun' \subseteq Entries /\ ran' \subseteq Entries
<1>0. /\ lock \in Inputs \cup {None} /\ native \in BOOLEAN /\ sessions \in Nat
      /\ queued \subseteq Entries /\ withdrawn \subseteq Entries
      /\ given \subseteq Inputs /\ begun \subseteq Entries /\ ran \subseteq Entries
  BY DEF TypeOK
<1> USE <1>0 DEF histories
<1>1. CASE \/ \E e \in Entries : Queue(e) \/ RemoveEntry(e)
           \/ \E e, f \in Entries : Edit(e, f)
  BY <1>1 DEF Queue, RemoveEntry, Edit
<1>2. CASE \/ \E i, k \in DOMAIN th.items : Reorder(i, k)
           \/ Resume \/ Stop \/ PauseForEdit \/ Watchdog \/ ClearSteer
           \/ \E d \in Inputs : \E e \in Entries \cup {None} : Begin(d, e)
           \/ Prepared \/ PrepareFails \/ PumpEnds
  BY <1>2 DEF Reorder, Resume, Stop, PauseForEdit, Watchdog, ClearSteer, Begin, Prepared,
              PrepareFails, PumpEnds
<1>3. CASE \E d \in Inputs : Arrive(d) \/ Admitted(d) \/ Submits(d) \/ Accepted(d) \/ Refused(d)
  BY <1>3 DEF Arrive, Admitted, Submits, SubmitToDead, SubmitToIdle, SteerNatively, StageSteer,
              Accepted, Refused
<1>4. CASE SaysIdle
  <2>1. th.slot \in Inputs \cup {None}  BY HoldsItself, SoundTyped
  <2> DEFINE w == [Off(th, {"stop"}) EXCEPT !.status = "idle",
                       !.phase = IF @ = "live" THEN "tail" ELSE "none",
                       !.job = IF th.phase = "live" THEN @ ELSE None]
  <2>2. w.slot = th.slot  BY HoldsItself, SoundTyped DEF Off, Threads
  <2>3. given' = IF w.slot = None THEN given ELSE given \cup {w.slot}  BY <1>4 DEF SaysIdle
  <2> HIDE DEF w
  <2>4. given' \subseteq Inputs  BY <2>1, <2>2, <2>3
  <2> QED  BY <1>4, <2>4 DEF SaysIdle
<1>5. CASE \/ SaysWorking \/ SaysStarted \/ SaysLateCompletion \/ Asks \/ Answered
           \/ \E end \in {"completed", "failed"} : SaysCompleted(end)
           \/ Fails \/ CompletesWithoutTurn \/ Closes
  BY <1>5 DEF SaysWorking, SaysStarted, SaysLateCompletion, Asks, Answered,
              SaysCompleted, Fails, CompletesWithoutTurn, Closes
<1>6. CASE \E d \in Inputs : SteerJoins(d) \/ SteerFallsBack(d) \/ SteerRefused(d)
                              \/ StartRejected(d) \/ PromptSubmitted(d)
  BY <1>6, Zenon DEF SteerJoins, SteerFallsBack, SteerRefused, StartRejected, PromptSubmitted
<1>7. CASE \/ CloseThread \/ StartThread \/ StartFails
           \/ \E i \in DOMAIN th.restarts : RestartFails(i) \/ RestartAbandoned(i)
  BY <1>7, Zenon DEF CloseThread, StartThread, StartFails, RestartFails, RestartAbandoned
<1>8. CASE Started \/ RestartAttaches
  <2>1. sessions + 1 \in Nat  OBVIOUS
  <2>2. sessions' = sessions + 1  BY <1>8 DEF Started, RestartAttaches
  <2>3. given' \subseteq Inputs  BY <1>8 DEF Started, RestartAttaches
  <2> QED  BY <1>8, <2>1, <2>2, <2>3 DEF Started, RestartAttaches
<1> QED  BY <1>1, <1>2, <1>3, <1>4, <1>5, <1>6, <1>7, <1>8 DEF Next

LEMMA InitInvariant ==
    ASSUME Init
    PROVE  IInv
<1>1. th \in Threads
  <2>1. <<>> \in Seq(Entries) /\ <<>> \in Seq([job : Jobs, on : Nat])  BY EmptySeq
  <2>2. NoActive \in Actives  BY DEF NoActive, Actives, Stages
  <2> QED  BY <2>1, <2>2 DEF Init, Threads
<1>2. /\ th.items = <<>> /\ th.active = NoActive /\ th.phase = "none" /\ th.res = 0
  BY DEF Init
<1>3. ToSet(<<>>) = {} /\ IsInjective(<<>>)  BY DEF ToSet, IsInjective
<1>4. Sound(th)  BY <1>1, <1>2, <1>3 DEF Sound, Good, Once, NoActive
<1>5. Held(th) = {}  BY <1>2, <1>3 DEF Held, NoActive
<1>6. Books  BY <1>5 DEF Init, Books
<1>7. inputs \in Records  BY DEF Init, Records, Fresh, Pcs
<1>8. TypeOK  BY <1>1, <1>7, BoundsAssumption DEF Init, TypeOK, Records
<1>9. Res = {}  BY DEF Init, Res, Pc, Fresh, Reserved
<1>10. IsFiniteSet(Res) /\ Cardinality(Res) = 0  BY <1>9, FS_EmptySet
<1>11. ReservationsBalance  BY <1>2, <1>10 DEF ReservationsBalance, Res
<1> QED  BY <1>4, <1>6, <1>8, <1>10, <1>11 DEF IInv

LEMMA NextInvariant ==
    ASSUME IInv, [Next]_vars
    PROVE  IInv'
<1>1. TypeOK /\ Sound(th) /\ Books /\ IsFiniteSet(Res) /\ th.res = Cardinality(Res)
  BY DEF IInv, ReservationsBalance, Res
<1>2. inputs \in Records  BY <1>1 DEF TypeOK, Records
<1>3. CASE UNCHANGED vars
  BY <1>1, <1>3 DEF IInv, vars, histories, TypeOK, Sound, Good, Once, Books, Held, Res, Pc,
                    ReservationsBalance, Threads
<1>4. CASE Next
  <2>1. ASSUME Sound(th'), inputs' \in Records  PROVE TypeOK'
    BY <1>1, <1>4, <2>1, RestTyped DEF TypeOK, Records, Sound, Good
  <2>2. CASE \E e, f \in Entries : Queue(e) \/ RemoveEntry(e) \/ Edit(e, f)
    <3>1. Sound(th') /\ Books' /\ th'.res = th.res /\ inputs' = inputs
      BY <1>1, <2>2, QueueKept, EditKept, RemoveKept
    <3>2. Res' = Res  BY <3>1 DEF Res, Pc
    <3> QED  BY <1>1, <1>2, <2>1, <3>1, <3>2 DEF IInv, ReservationsBalance, Res, Sound, Good, Once
  <2>3. CASE ~\E e, f \in Entries : Queue(e) \/ RemoveEntry(e) \/ Edit(e, f)
    <3>1. inputs' \in Records /\ Ledger  BY <1>1, <1>4, <2>3, StepLedger
    <3>2. queued' = queued /\ withdrawn' = withdrawn  BY <1>4, <2>3, BooksUnwritten
    <3>3. /\ Held(Counted(1)) = Held(th) /\ Counted(1).res = th.res + 1
          /\ Held(Counted(-1)) = Held(th) /\ Counted(-1).res = th.res + (-1)
      BY <1>1, CountedHolds
    <3>4. Sound(th') /\ Held(th') \subseteq Held(th)
      BY <3>1, <3>3 DEF Ledger, Untouched, Taken, Released, Holds
    <3>5. Books'  BY <1>1, <3>2, <3>4 DEF Books
    <3>6. /\ IsFiniteSet(Res') /\ th'.res = Cardinality(Res')
      <4>1. CASE Untouched  BY <1>1, <4>1 DEF Untouched, Holds
      <4>2. CASE Taken
        <5>1. PICK d \in Inputs \ Res : Res' = Res \cup {d}  BY <4>2 DEF Taken
        <5>2. IsFiniteSet(Res') /\ Cardinality(Res') = Cardinality(Res) + 1
          BY <1>1, <5>1, FS_AddElement
        <5> QED  BY <1>1, <3>3, <4>2, <5>2 DEF Taken, Holds
      <4>3. CASE Released
        <5>1. PICK d \in Res : Res' = Res \ {d}  BY <4>3 DEF Released
        <5>2. IsFiniteSet(Res') /\ Cardinality(Res') = Cardinality(Res) - 1
          BY <1>1, <5>1, FS_RemoveElement
        <5>3. Cardinality(Res) \in Nat  BY <1>1, FS_CardinalityType
        <5> QED  BY <1>1, <3>3, <4>3, <5>2, <5>3 DEF Released, Holds
      <4> QED  BY <3>1, <4>1, <4>2, <4>3 DEF Ledger
    <3> QED
      BY <2>1, <3>1, <3>4, <3>5, <3>6 DEF IInv, ReservationsBalance, Res, Sound, Good, Once
  <2> QED  BY <2>2, <2>3
<1> QED  BY <1>3, <1>4

THEOREM Invariance == Spec => []IInv
<1>1. Init => IInv  BY InitInvariant
<1>2. IInv /\ [Next]_vars => IInv'  BY NextInvariant
<1> QED  BY <1>1, <1>2, PTL DEF Spec

\* Types: every handler, however its calls nest, leaves a thread of the right shape.
THEOREM TypesHold == Spec => []TypeOK
<1>1. IInv => TypeOK  BY DEF IInv
<1> QED  BY <1>1, Invariance, PTL

\* Whatever order submits, promotions, refusals and restarts end in, the queue's gate
\* counts exactly the direct inputs whose callers have not returned.
THEOREM ReservationsHold == Spec => []ReservationsBalance
<1>1. IInv => ReservationsBalance  BY DEF IInv
<1> QED  BY <1>1, Invariance, PTL

\* No failure, interrupt or restart ever brings back a message the user took out.
THEOREM WithdrawnHold == Spec => []WithdrawnStaysWithdrawn
<1>1. IInv => WithdrawnStaysWithdrawn  BY DEF IInv, Books, WithdrawnStaysWithdrawn
<1> QED  BY <1>1, Invariance, PTL

\* A message is never in the queue twice, nor in the queue and with a provider.
NeverTwice == Once(th)
THEOREM NeverTwiceHolds == Spec => []NeverTwice
<1>1. IInv => NeverTwice  BY DEF IInv, Sound, Good, NeverTwice
<1> QED  BY <1>1, Invariance, PTL

-----------------------------------------------------------------------------
(* What the queue owes: the second half of the proof holds for the         *)
(* behaviours without the four races.                                      *)

\* Where a message waits that is not lost, and what may still be sent.
Safe(w) == ToSet(w.items) \cup (IF w.active.stage = "sent" THEN {w.active.entry} ELSE {})
Pending(w) == ToSet(w.items) \cup (IF w.active.stage = "preparing" THEN {w.active.entry} ELSE {})

\* X: messages the queue owes, N: messages a provider ran.
Loss(w, X, N) ==
    /\ X \subseteq Safe(w)
    /\ N \cap Pending(w) = {} /\ w.job \notin Pending(w)
    /\ w.active.stage # "none" /\ w.active.entry \in N
          => w.active.stage = "admitted" /\ w.active.turn # None
    /\ w.active.stage # "none" /\ w.active.entry = w.job => w.active.on = w.cur
    /\ w.active.stage = "admitted" => w.active.entry \notin X
    /\ w.active.stage = "sent" => w.active.turn = None
    /\ w.active.stage \in {"sent", "preparing"} => w.active.end = "none"

Up(w) == w.cur # 0 /\ ~Has(w, "dead")

\* What the queue was told against what the provider does. H: direct inputs that wait for
\* an answer of the current session, n: the session steers natively.
Believes(w, H, n) ==
    /\ w.phase \in {"live", "tail"} => w.turn = w.job /\ w.flags \cap {"done", "completed"} = {}
    /\ w.phase \in {"setup", "live", "tail"} /\ w.active.stage # "none" /\ w.active.on = w.cur
          => w.active.end = "none"
    /\ w.phase = "setup" => w.status = "working" \/ w.job \in H
    /\ w.phase = "setup" /\ w.flags \cap {"done", "completed"} # {} => n /\ w.job \in H
    /\ w.late # None => /\ w.phase \in {"setup", "live", "tail"} /\ w.late \notin {w.job, w.turn}
                        /\ w.active.stage \in {"none", "preparing"}
    /\ w.flags \cap {"awaiting", "completed"} # {} => Has(w, "direct")
    /\ n => ~Has(w, "awaiting") /\ w.slot = None
    /\ w.slot # None /\ Up(w)
          => {"direct", "awaiting"} \subseteq w.flags /\ w.active.stage \in {"none", "preparing"}
    /\ w.active.stage = "preparing" /\ (w.phase \notin {"none", "done"} \/ H # {})
          => Has(w, "direct")
    /\ w.res = 0 => H = {}
    /\ (w.phase = "none") = (w.job = None)

\* The queue neither touches the session nor dispatches, and it keeps a restart's message.
SessionFlags == {"dead", "quiet", "stop", "starting", "launch"}
Tame(u, w) ==
    /\ Same(u, w)
    /\ w.flags \cap SessionFlags = u.flags \cap SessionFlags
    /\ Has(w, "restarting") => Has(u, "restarting")
    /\ Has(w, "asks") => Has(u, "asks")
    /\ w.active.on \in {0, u.active.on, u.cur}
    /\ w.active.stage = "sent" => /\ w.active = u.active
                                  /\ Has(u, "restarting") => Has(w, "restarting")
                                  /\ Has(w, "direct") => Has(u, "direct")
    /\ w.active.stage = "admitted" => /\ u.active.stage \in {"sent", "admitted"}
                                      /\ w.active.entry = u.active.entry
    /\ u.active.stage = "sent" /\ Has(u, "restarting") => w.active.stage = "sent"

Serves(u, w, X, N, H, n) == Good(w) /\ Loss(w, X, N) /\ Believes(w, H, n) /\ Tame(u, w)

LEMMA ServesItself ==
    ASSUME NEW w, Good(w), NEW X, NEW N, NEW H, NEW n, Loss(w, X, N), Believes(w, H, n)
    PROVE  Serves(w, w, X, N, H, n)
  BY DEF Serves, Tame, Same

\* Flags that say nothing of the session.
LEMMA ServesOn ==
    ASSUME NEW u, NEW w, NEW X, NEW N, NEW H, NEW n, Serves(u, w, X, N, H, n),
           NEW F \in SUBSET {"paused", "replacing", "again", "done", "completed"},
           F \cap {"done", "completed"} = {} \/ (w.phase \in {"setup", "live", "tail"} =>
                                                    w.phase = "setup" /\ n /\ w.job \in H),
           "completed" \in F => Has(w, "direct")
    PROVE  Serves(u, On(w, F), X, N, H, n)
<1> DEFINE v == On(w, F)
<1>1. w \in Threads /\ Good(w)  BY DEF Serves, Good
<1>2. Keeps(w, v)  BY <1>1, KeepsItself, OnKeeps DEF Flags
<1>3. v.active = w.active /\ v.items = w.items /\ v.flags = w.flags \cup F /\ v.turn = w.turn
  BY <1>1 DEF On, Threads
<1> HIDE DEF v
<1>4. Loss(v, X, N)  BY <1>2, <1>3 DEF Serves, Loss, Safe, Pending, Keeps, Same
<1>5. Tame(u, v)
  <2>1. Tame(u, w)  BY DEF Serves
  <2>2. Same(u, v)  BY <1>2, <2>1 DEF Keeps, Same, Tame
  <2>3. v.flags \cap SessionFlags = w.flags \cap SessionFlags  BY <1>3 DEF SessionFlags
  <2>4. \A f \in {"restarting", "asks", "direct"} : f \in v.flags <=> f \in w.flags  BY <1>3
  <2> QED  BY <1>3, <2>1, <2>2, <2>3, <2>4 DEF Tame, Has
<1>6. Believes(v, H, n)
  <2>1. Believes(w, H, n)  BY DEF Serves
  <2>2. Same(w, v)  BY <1>2 DEF Keeps
  <2>3. \A f \in {"direct", "awaiting", "dead"} : f \in v.flags <=> f \in w.flags  BY <1>3
  <2>4. v.flags \cap {"done", "completed"} # {} =>
          w.flags \cap {"done", "completed"} # {} \/ F \cap {"done", "completed"} # {}
    BY <1>3
  <2> QED  BY <1>3, <2>1, <2>2, <2>3, <2>4 DEF Believes, Has, Up, Same
<1> QED  BY <1>2, <1>4, <1>5, <1>6 DEF Serves, Keeps, v

LEMMA ServesOff ==
    ASSUME NEW u, NEW w, NEW X, NEW N, NEW H, NEW n, Serves(u, w, X, N, H, n),
           NEW F, F \cap SessionFlags = {},
           "restarting" \in F => w.active.stage # "sent",
           "direct" \in F => /\ w.flags \cap {"awaiting", "completed"} \subseteq F
                             /\ w.active.stage = "preparing" =>
                                    w.phase \in {"none", "done"} /\ H = {},
           F \cap {"direct", "awaiting"} # {} => w.slot = None \/ ~Up(w)
    PROVE  Serves(u, Off(w, F), X, N, H, n)
<1> DEFINE v == Off(w, F)
<1>1. w \in Threads /\ Good(w)  BY DEF Serves, Good
<1>2. Keeps(w, v)  BY <1>1, KeepsItself, OffKeeps
<1>3. v.active = w.active /\ v.items = w.items /\ v.flags = w.flags \ F /\ v.turn = w.turn
  BY <1>1 DEF Off, Threads
<1> HIDE DEF v
<1>4. Loss(v, X, N)  BY <1>2, <1>3 DEF Serves, Loss, Safe, Pending, Keeps, Same
<1>5. Tame(u, v)
  <2>1. Tame(u, w)  BY DEF Serves
  <2>2. Same(u, v)  BY <1>2, <2>1 DEF Keeps, Same, Tame
  <2>3. v.flags \cap SessionFlags = w.flags \cap SessionFlags  BY <1>3
  <2>4. /\ \A f : f \in v.flags => f \in w.flags
        /\ w.active.stage = "sent" => ("restarting" \in w.flags => "restarting" \in v.flags)
    BY <1>3
  <2> QED  BY <1>3, <2>1, <2>2, <2>3, <2>4 DEF Tame, Has
<1>6. Believes(v, H, n)
  <2>1. Believes(w, H, n)  BY DEF Serves
  <2>2. Same(w, v)  BY <1>2 DEF Keeps
  <2>3. "dead" \in v.flags <=> "dead" \in w.flags  BY <1>3 DEF SessionFlags
  <2>4. \A f : f \in v.flags <=> f \in w.flags /\ f \notin F  BY <1>3
  <2> QED  BY <1>3, <2>1, <2>2, <2>3, <2>4 DEF Believes, Has, Up, Same
<1> QED  BY <1>2, <1>4, <1>5, <1>6 DEF Serves, Keeps, v

LEMMA ServesPump ==
    ASSUME NEW u, NEW w, NEW X, NEW N, NEW H, NEW n, Serves(u, w, X, N, H, n),
           NEW p \in {"off", "preparing", "ending"}
    PROVE  Serves(u, [w EXCEPT !.pump = p], X, N, H, n)
<1> DEFINE v == [w EXCEPT !.pump = p]
<1>1. w \in Threads /\ Good(w)  BY DEF Serves, Good
<1>2. Keeps(w, v)  BY <1>1, KeepsItself, PumpKeeps
<1>3. v.active = w.active /\ v.items = w.items /\ v.flags = w.flags /\ v.turn = w.turn
  BY <1>1 DEF Threads
<1> HIDE DEF v
<1>4. Loss(v, X, N)  BY <1>2, <1>3 DEF Serves, Loss, Safe, Pending, Keeps, Same
<1>5. Tame(u, v)  BY <1>2, <1>3 DEF Serves, Tame, Has, Keeps, Same
<1>6. Believes(v, H, n)  BY <1>2, <1>3 DEF Serves, Believes, Has, Up, Keeps, Same
<1> QED  BY <1>2, <1>4, <1>5, <1>6 DEF Serves, Keeps, v

LEMMA ServesReset ==
    ASSUME NEW u, NEW w, NEW X, NEW N, NEW H, NEW n, Serves(u, w, X, N, H, n),
           w.phase \notin {"live", "tail"}
    PROVE  Serves(u, ResetTurn(w), X, N, H, n)
<1> DEFINE v == [w EXCEPT !.turn = None]
<1>1. w \in Threads /\ Good(w)  BY DEF Serves, Good
<1>2. Keeps(w, v)  BY <1>1, KeepsItself, TurnKeeps
<1>3. v.active = w.active /\ v.items = w.items /\ v.flags = w.flags /\ v.turn = None
  BY <1>1 DEF Threads
<1> HIDE DEF v
<1>4. Loss(v, X, N)  BY <1>2, <1>3 DEF Serves, Loss, Safe, Pending, Keeps, Same
<1>5. Tame(u, v)  BY <1>2, <1>3 DEF Serves, Tame, Has, Keeps, Same
<1>6. Believes(v, H, n)  BY <1>2, <1>3 DEF Serves, Believes, Has, Up, Keeps, Same
<1>7. Serves(u, v, X, N, H, n)  BY <1>2, <1>4, <1>5, <1>6 DEF Serves, Keeps
<1> QED  BY <1>7, ServesOff DEF ResetTurn, SessionFlags, v

\* A dispatched message is dropped only when the queue does not owe it any more.
LEMMA ServesDrop ==
    ASSUME NEW u, NEW w, NEW X, NEW N, NEW H, NEW n, Serves(u, w, X, N, H, n),
           w.active.stage = "sent" => w.active.entry \notin X /\ ~Has(w, "restarting")
    PROVE  Serves(u, Drop(w), X, N, H, n) /\ Drop(w).active = NoActive
<1> DEFINE v == Drop(w)
<1>1. w \in Threads /\ Good(w)  BY DEF Serves, Good
<1>2. Keeps(w, v)  BY <1>1, KeepsItself, DropKeeps
<1>3. v.active = NoActive /\ v.items = w.items /\ v.flags = w.flags /\ v.turn = w.turn
  BY <1>1 DEF Drop, Threads
<1>0. NoActive.stage = "none" /\ NoActive.on = 0  BY DEF NoActive
<1> HIDE DEF v
<1>4. Loss(v, X, N)  BY <1>0, <1>2, <1>3 DEF Serves, Loss, Safe, Pending, Keeps, Same
<1>5. Tame(u, v)  BY <1>0, <1>2, <1>3 DEF Serves, Tame, Has, Keeps, Same
<1>6. Believes(v, H, n)  BY <1>0, <1>2, <1>3 DEF Serves, Believes, Has, Up, Keeps, Same
<1> QED  BY <1>2, <1>3, <1>4, <1>5, <1>6 DEF Serves, Keeps, v

\* A message comes back to the FIFO only if no provider runs it or ran it.
LEMMA ServesRestore ==
    ASSUME NEW u, NEW w, NEW X, NEW N, NEW H, NEW n, Serves(u, w, X, N, H, n),
           w.active.stage \in {"sent", "admitted"} =>
               /\ w.active.entry # w.job
               /\ w.active.stage = "admitted" => w.active.turn = None
               /\ w.active.stage = "sent" => ~Has(w, "restarting")
    PROVE  Serves(u, Restore(w), X, N, H, n) /\ Restore(w).active = NoActive
<1> DEFINE v == Restore(w)
<1>1. w \in Threads /\ Good(w)  BY DEF Serves, Good
<1>2. Keeps(w, v)  BY <1>1, KeepsItself, RestoreKeeps
<1>3. v.active = NoActive /\ v.flags = w.flags /\ v.turn = w.turn
  BY <1>1 DEF Restore, Threads
<1>0. NoActive.stage = "none" /\ NoActive.on = 0  BY DEF NoActive
<1>7. ToSet(v.items) = ToSet(w.items) \cup
                         (IF w.active.stage = "none" THEN {} ELSE {w.active.entry})
  <2>1. v.items = IF w.active.stage = "none" \/ w.active.entry \in ToSet(w.items)
                  THEN w.items ELSE <<w.active.entry>> \o w.items
    BY <1>1 DEF Restore, Threads
  <2>2. w.items \in Seq(Entries) /\ IsInjective(w.items)
        /\ (w.active.stage # "none" => w.active.entry \in Entries)
    BY <1>1 DEF Good, Once, Threads
  <2>3. CASE w.active.stage = "none" \/ w.active.entry \in ToSet(w.items)  BY <2>1, <2>3
  <2>4. CASE ~(w.active.stage = "none" \/ w.active.entry \in ToSet(w.items))
    BY <2>1, <2>2, <2>4, Prepended
  <2> QED  BY <2>3, <2>4
<1> HIDE DEF v
<1>4. Loss(v, X, N)
  <2>1. Safe(v) = ToSet(v.items) /\ Pending(v) = ToSet(v.items)  BY <1>0, <1>3 DEF Safe, Pending
  <2>2. Loss(w, X, N)  BY DEF Serves
  <2>3. X \subseteq Safe(v)  BY <1>7, <2>1, <2>2 DEF Loss, Safe
  <2>5. w.active.stage \in Stages  BY <1>1 DEF Threads, Actives
  <2>4. N \cap Pending(v) = {} /\ w.job \notin Pending(v)
    BY <1>7, <2>1, <2>2, <2>5 DEF Loss, Pending, Stages
  <2> QED  BY <1>0, <1>2, <1>3, <2>3, <2>4 DEF Loss, Keeps, Same
<1>5. Tame(u, v)  BY <1>0, <1>2, <1>3 DEF Serves, Tame, Has, Keeps, Same
<1>6. Believes(v, H, n)  BY <1>0, <1>2, <1>3 DEF Serves, Believes, Has, Up, Keeps, Same
<1> QED  BY <1>2, <1>3, <1>4, <1>5, <1>6 DEF Serves, Keeps, v

LEMMA ServesEmit ==
    ASSUME NEW u, NEW w, NEW X, NEW N, NEW H, NEW n, Serves(u, w, X, N, H, n)
    PROVE  Serves(u, EmitState(w), X, N, H, n)
  BY ServesOff DEF EmitState, Present, SessionFlags

\* What the queue takes for a quiet thread is one.
LEMMA ReadyIsQuiet ==
    ASSUME NEW w, Good(w), NEW H, NEW n, Believes(w, H, n), CanDeliver(w)
    PROVE  w.phase \in {"none", "done"} /\ H = {} /\ ~Has(w, "direct") /\ ~Has(w, "asks")
           /\ w.active.stage = "none" /\ w.cur # 0 /\ w.late = None
<1>1. w.phase \in {"none", "setup", "live", "done", "tail"} /\ w.status # "working" /\ w.turn = None
  BY DEF CanDeliver, Ready, Good, Threads
<1>2. H = {}  BY DEF CanDeliver, Ready, Believes
<1>3. w.phase # "setup"  BY <1>1, <1>2 DEF Believes
<1>4. w.phase \notin {"live", "tail"}  BY <1>1 DEF Believes
<1>5. w.flags \cap {"done", "direct", "asks"} = {} /\ w.active.stage = "none" /\ w.cur # 0
  BY DEF CanDeliver, Ready
<1> QED  BY <1>1, <1>2, <1>3, <1>4, <1>5 DEF Believes, Has

LEMMA ServesSchedule ==
    ASSUME NEW u, NEW w, NEW X, NEW N, NEW H, NEW n, Serves(u, w, X, N, H, n)
    PROVE  Serves(u, Schedule(w), X, N, H, n)
<1>1. CASE ~(Present(w) /\ w.pump = "off" /\ CanDeliver(w))
  <2>1. Serves(u, On(w, {"again"}), X, N, H, n)  BY ServesOn
  <2>2. Serves(u, [w EXCEPT !.pump = "ending"], X, N, H, n)  BY ServesPump
  <2> QED  BY <1>1, <2>1, <2>2 DEF Schedule
<1>2. CASE Present(w) /\ w.pump = "off" /\ CanDeliver(w)
  <2> DEFINE a == [NoActive EXCEPT !.entry = Head(w.items), !.on = w.cur, !.stage = "preparing"]
             v == [w EXCEPT !.pump = "preparing", !.active = a]
  <2>0. w \in Threads /\ Good(w) /\ Loss(w, X, N) /\ Believes(w, H, n) /\ Tame(u, w)
    BY DEF Serves, Good
  <2>1. Schedule(w) = v  BY <1>2 DEF Schedule
  <2>2. Keeps(w, v)  BY <2>0, <2>1, KeepsItself, ScheduleKeeps
  <2>3. a.stage = "preparing" /\ a.entry = Head(w.items) /\ a.turn = None /\ a.on = w.cur
        /\ a.end = "none"
    BY DEF NoActive
  <2> HIDE DEF a
  <2>4. v.active = a /\ v.items = w.items /\ v.flags = w.flags /\ v.turn = w.turn
    BY <2>0 DEF Threads
  <2> HIDE DEF v
  <2>5. Head(w.items) \in ToSet(w.items)
    BY <1>2, <2>0, Tailed DEF CanDeliver, Good, Once, Threads
  <2>6. w.phase \in {"none", "done"} /\ H = {} /\ ~Has(w, "direct") /\ w.active.stage = "none"
    BY <1>2, <2>0, ReadyIsQuiet
  <2>7. Loss(v, X, N)  BY <2>0, <2>2, <2>3, <2>4, <2>5, <2>6 DEF Loss, Safe, Pending, Keeps, Same
  <2>8. Tame(u, v)  BY <2>0, <2>2, <2>3, <2>4, <2>6 DEF Tame, Has, Keeps, Same
  <2>9. Believes(v, H, n)  BY <2>0, <2>2, <2>3, <2>4, <2>6 DEF Believes, Has, Up, Keeps, Same
  <2> QED  BY <2>1, <2>2, <2>7, <2>8, <2>9 DEF Serves, Keeps
<1> QED  BY <1>1, <1>2

LEMMA ServesCancel ==
    ASSUME NEW u, NEW w, NEW X, NEW N, NEW H, NEW n, Serves(u, w, X, N, H, n), NEW e
    PROVE  Serves(u, CancelPreparation(w, e), X, N, H, n)
  BY ServesDrop DEF CancelPreparation

LEMMA ServesPause ==
    ASSUME NEW u, NEW w, NEW X, NEW N, NEW H, NEW n, Serves(u, w, X, N, H, n)
    PROVE  Serves(u, PauseThread(w), X, N, H, n)
<1> DEFINE p == On(w, {"paused"})
<1>1. Serves(u, p, X, N, H, n)  BY ServesOn
<1> HIDE DEF p
<1>2. p.active.stage = "preparing" => Serves(u, Restore(p), X, N, H, n)  BY <1>1, ServesRestore
<1> QED  BY <1>1, <1>2, ServesEmit DEF PauseThread, p

-----------------------------------------------------------------------------
(* Turns and direct input end only when the provider's turn has.           *)

LEMMA ServesFinishDirect ==
    ASSUME NEW u, NEW w, NEW X, NEW N, NEW H, NEW n, Serves(u, w, X, N, H, n)
    PROVE  Serves(u, FinishDirect(w), X, N, H, n)
<1> SUFFICES ASSUME {"direct", "completed"} \subseteq w.flags, w.flags \cap {"awaiting", "asks"} = {},
                    w.status = "idle", w.res = 0
             PROVE  Serves(u, Schedule(ResetTurn(Off(w, {"direct", "completed"}))), X, N, H, n)
  BY DEF FinishDirect
<1> DEFINE v == Off(w, {"direct", "completed"})
<1>0. w \in Threads /\ Believes(w, H, n)  BY DEF Serves, Good
<1>1. H = {}  BY <1>0 DEF Believes
<1>2. w.phase \in {"none", "done"}
  <2>1. w.phase \in {"none", "setup", "live", "done", "tail"}  BY <1>0 DEF Threads
  <2>2. w.phase # "setup"  BY <1>0, <1>1 DEF Believes
  <2>3. w.phase \notin {"live", "tail"}  BY <1>0 DEF Believes
  <2> QED  BY <2>1, <2>2, <2>3
<1>3. w.slot = None \/ ~Up(w)  BY <1>0 DEF Believes
<1>4. Serves(u, v, X, N, H, n)  BY <1>1, <1>2, <1>3, ServesOff DEF SessionFlags
<1>5. v.phase = w.phase  BY <1>0 DEF Off, Threads
<1> HIDE DEF v
<1>6. Serves(u, ResetTurn(v), X, N, H, n)  BY <1>2, <1>4, <1>5, ServesReset
<1> QED  BY <1>6, ServesSchedule DEF v

LEMMA ServesDirectChanged ==
    ASSUME NEW u, NEW w, NEW X, NEW N, NEW H, NEW n, Serves(u, w, X, N, H, n)
    PROVE  Serves(u, DirectChanged(w), X, N, H, n)
  BY ServesFinishDirect, ServesSchedule DEF DirectChanged

LEMMA ServesFinishActive ==
    ASSUME NEW u, NEW w, NEW X, NEW N, NEW H, NEW n, Serves(u, w, X, N, H, n),
           w.active.stage # "none", w.active.on = w.cur
    PROVE  Serves(u, FinishActive(w), X, N, H, n)
<1> SUFFICES ASSUME w.active.end # "none"
             PROVE  Serves(u, EmitState(ResetTurn(Drop(IF w.active.end = "completed" THEN w
                                                       ELSE On(w, {"paused"})))), X, N, H, n)
  BY DEF FinishActive
<1> DEFINE p == IF w.active.end = "completed" THEN w ELSE On(w, {"paused"})
<1>0. w \in Threads /\ Loss(w, X, N) /\ Believes(w, H, n)  BY DEF Serves, Good
<1>1. Serves(u, p, X, N, H, n)  BY ServesOn
<1>2. p.active = w.active /\ p.phase = w.phase  BY <1>0 DEF On, Threads
<1> HIDE DEF p
<1>3. w.active.stage # "sent"  BY <1>0 DEF Loss
<1>4. w.phase \notin {"live", "tail"}  BY <1>0 DEF Believes
<1>5. Serves(u, Drop(p), X, N, H, n)  BY <1>1, <1>2, <1>3, ServesDrop
<1>6. p \in Threads  BY <1>1 DEF Serves, Good
<1>7. Drop(p).phase = w.phase  BY <1>2, <1>6 DEF Drop, Threads
<1>8. Serves(u, ResetTurn(Drop(p)), X, N, H, n)  BY <1>4, <1>5, <1>7, ServesReset
<1> QED  BY <1>8, ServesEmit DEF p

LEMMA ServesFinish ==
    ASSUME NEW u, NEW w, NEW X, NEW N, NEW H, NEW n, Serves(u, w, X, N, H, n)
    PROVE  Serves(u, FinishOrSchedule(w), X, N, H, n)
<1>1. Has(w, "done") => Serves(u, ResetTurn(w), X, N, H, n)
  <2>1. Believes(w, H, n)  BY DEF Serves
  <2>2. Has(w, "done") => w.phase \notin {"live", "tail"}  BY <2>1 DEF Believes, Has
  <2> QED  BY <2>2, ServesReset
<1> QED  BY <1>1, ServesFinishActive, ServesFinishDirect, ServesSchedule DEF FinishOrSchedule

-----------------------------------------------------------------------------
(* What the provider reports, and what fails.                              *)

LEMMA FlagsOn ==
    ASSUME NEW w \in Threads, NEW F
    PROVE  /\ On(w, F).active = w.active /\ On(w, F).items = w.items /\ On(w, F).pump = w.pump
           /\ On(w, F).flags = w.flags \cup F /\ On(w, F).turn = w.turn
  BY DEF On, Threads

LEMMA FlagsOff ==
    ASSUME NEW w \in Threads, NEW F
    PROVE  /\ Off(w, F).active = w.active /\ Off(w, F).items = w.items /\ Off(w, F).pump = w.pump
           /\ Off(w, F).flags = w.flags \ F /\ Off(w, F).turn = w.turn
  BY DEF Off, Threads

LEMMA FlagsEmit ==
    ASSUME NEW w \in Threads
    PROVE  /\ EmitState(w).active = w.active /\ EmitState(w).items = w.items
           /\ EmitState(w).turn = w.turn
           /\ EmitState(w).flags = IF Present(w) THEN w.flags
                                   ELSE w.flags \ {"replacing", "restarting", "again"}
  BY DEF EmitState, Off, Threads

LEMMA FlagsReset ==
    ASSUME NEW w \in Threads
    PROVE  /\ ResetTurn(w).active = w.active /\ ResetTurn(w).items = w.items
           /\ ResetTurn(w).flags = w.flags \ {"done"} /\ ResetTurn(w).turn = None
  BY DEF ResetTurn, Off, Threads

LEMMA ServedSame ==
    ASSUME NEW u, NEW w, NEW X, NEW N, NEW H, NEW n, Serves(u, w, X, N, H, n),
           NEW v, NEW Y, NEW M, NEW G, NEW m, Serves(u, v, Y, M, G, m)
    PROVE  /\ v.phase = w.phase /\ v.slot = w.slot /\ (Up(v) <=> Up(w)) /\ v.cur = w.cur
           /\ v.job = w.job /\ v.status = w.status /\ v.res = w.res /\ v.late = w.late
           /\ w \in Threads /\ v \in Threads /\ Good(v) /\ Loss(v, Y, M) /\ Believes(v, G, m)
<1>1. "dead" \in v.flags <=> "dead" \in w.flags  BY DEF Serves, Tame, SessionFlags
<1> QED  BY <1>1 DEF Serves, Tame, Same, Up, Has, Good

LEMMA ServesFailure ==
    ASSUME NEW u, NEW w, NEW X, NEW N, NEW H, NEW n, Serves(u, w, X, N, H, n),
           w.phase \notin {"live", "tail"}, w.slot = None \/ ~Up(w),
           w.active.stage \in {"sent", "admitted"} =>
               /\ w.active.entry # w.job
               /\ w.active.stage = "sent" => ~Has(w, "restarting")
    PROVE  Serves(u, PauseForFailure(w), X, N, H, n)
           /\ PauseForFailure(w).active.stage = "none"
<1> DEFINE a == DropOrRestore(w, w.active.turn # None)
           p == IF Present(w) THEN EmitState(On(a, {"paused"})) ELSE w
           e == EndDirect(p)
           f == Off(e, {"asks"})
<1>0. w \in Threads /\ Loss(w, X, N)  BY DEF Serves, Good
<1>1. Serves(u, a, X, N, H, n) /\ a.active = NoActive
  <2>1. w.active.turn # None => w.active.stage # "sent"  BY <1>0 DEF Loss
  <2>2. w.active.turn # None => Serves(u, Drop(w), X, N, H, n) /\ Drop(w).active = NoActive
    BY <2>1, ServesDrop
  <2>3. ~(w.active.turn # None) => Serves(u, Restore(w), X, N, H, n) /\ Restore(w).active = NoActive
    BY ServesRestore
  <2> QED  BY <2>2, <2>3 DEF DropOrRestore
<1> HIDE DEF a
<1>2. a \in Threads  BY <1>1 DEF Serves, Good
<1>3. Serves(u, On(a, {"paused"}), X, N, H, n) /\ On(a, {"paused"}).active = NoActive
  BY <1>1, <1>2, ServesOn, FlagsOn
<1>4. On(a, {"paused"}) \in Threads  BY <1>3 DEF Serves, Good
<1>5. Serves(u, p, X, N, H, n) /\ p.active.stage = "none"
  <2>1. ~Present(w) => w.active.stage = "none"  BY DEF Present
  <2>2. Serves(u, EmitState(On(a, {"paused"})), X, N, H, n)  BY <1>3, ServesEmit
  <2>3. EmitState(On(a, {"paused"})).active = NoActive  BY <1>3, <1>4, FlagsEmit
  <2>4. NoActive.stage = "none"  BY DEF NoActive
  <2> QED  BY <2>1, <2>2, <2>3, <2>4
<1> HIDE DEF p
<1>6. p.phase = w.phase /\ p.slot = w.slot /\ (Up(p) <=> Up(w)) /\ p \in Threads
  BY <1>5, ServedSame
<1>7. Serves(u, e, X, N, H, n)  BY <1>5, <1>6, ServesOff DEF EndDirect, SessionFlags
<1>8. e.active.stage = "none"  BY <1>5, <1>6, FlagsOff DEF EndDirect
<1> HIDE DEF e
<1>9. Serves(u, f, X, N, H, n)  BY <1>7, ServesOff DEF SessionFlags
<1>10. e \in Threads /\ f.phase = w.phase  BY <1>7, <1>9, ServedSame
<1>11. f.active.stage = "none"  BY <1>8, <1>10, FlagsOff
<1> HIDE DEF f
<1>12. Serves(u, ResetTurn(f), X, N, H, n)  BY <1>9, <1>10, ServesReset
<1>13. f \in Threads  BY <1>9 DEF Serves, Good
<1>14. ResetTurn(f).active.stage = "none"  BY <1>11, <1>13, FlagsReset
<1> QED  BY <1>12, <1>14 DEF PauseForFailure, a, p, e, f

\* A message whose preparation fails goes back; nothing ran.
LEMMA ServesAdmissionFailed ==
    ASSUME NEW u, NEW w, NEW X, NEW N, NEW H, NEW n, Serves(u, w, X, N, H, n),
           w.phase \in {"none", "done"}, ~Has(w, "direct"), w.active.stage # "admitted",
           w.active.stage = "sent" => w.active.entry # w.job /\ ~Has(w, "restarting")
    PROVE  Serves(u, AdmissionFailed(w), X, N, H, n) /\ AdmissionFailed(w).active.stage = "none"
<1> DEFINE r == Restore(w)
           p == On(r, {"paused"})
           a == Off(p, {"restarting", "replacing"})
           d == Off(a, {"direct"})
<1>0. w \in Threads /\ Believes(w, H, n)  BY DEF Serves, Good
<1>1. Serves(u, r, X, N, H, n) /\ r.active = NoActive /\ r.flags = w.flags
  BY <1>0, ServesRestore DEF Restore, Threads
<1> HIDE DEF r
<1>2. r \in Threads  BY <1>1 DEF Serves, Good
<1>3. Serves(u, p, X, N, H, n)  BY <1>1, ServesOn
<1>14. p.active = NoActive /\ p.flags = w.flags \cup {"paused"}  BY <1>1, <1>2, FlagsOn
<1> HIDE DEF p
<1>4. p \in Threads  BY <1>3 DEF Serves, Good
<1>5. Serves(u, a, X, N, H, n)
  <2>1. p.active.stage # "sent"  BY <1>14 DEF NoActive
  <2> QED  BY <1>3, <2>1, ServesOff DEF SessionFlags
<1>6. a.active = NoActive /\ a.flags \subseteq w.flags \cup {"paused"}  BY <1>4, <1>14, FlagsOff
<1> HIDE DEF a
<1>7. a \in Threads /\ a.phase = w.phase  BY <1>5, ServedSame
<1>8. w.flags \cap {"direct", "awaiting", "completed"} = {}  BY <1>0 DEF Believes, Has
<1>9. d = a
  <2>1. a.flags \ {"direct"} = a.flags  BY <1>6, <1>8
  <2> QED  BY <1>7, <2>1 DEF Off, Threads
<1>10. Serves(u, ResetTurn(d), X, N, H, n)  BY <1>5, <1>7, <1>9, ServesReset
<1>15. ResetTurn(d).active = NoActive  BY <1>6, <1>7, <1>9, FlagsReset
<1>11. DropOrRestore(w, w.active.stage = "admitted") = r  BY DEF DropOrRestore, r
<1>12. AdmissionFailed(w) = EmitState(IF w.active.on = w.cur THEN ResetTurn(d) ELSE a)
  BY <1>11 DEF AdmissionFailed, a, p, d
<1> HIDE DEF d
<1> DEFINE g == IF w.active.on = w.cur THEN ResetTurn(d) ELSE a
<1>16. Serves(u, g, X, N, H, n) /\ g.active = NoActive  BY <1>5, <1>6, <1>10, <1>15
<1> HIDE DEF g
<1>17. g \in Threads  BY <1>16 DEF Serves, Good
<1>18. EmitState(g).active = NoActive  BY <1>16, <1>17, FlagsEmit
<1>20. NoActive.stage = "none"  BY DEF NoActive
<1>19. AdmissionFailed(w) = EmitState(g)  BY <1>12 DEF g
<1> QED  BY <1>16, <1>18, <1>19, <1>20, ServesEmit

LEMMA ServesReplacementFailed ==
    ASSUME NEW u, NEW w, NEW X, NEW N, NEW H, NEW n, Serves(u, w, X, N, H, n),
           w.active.stage # "sent", w.job = None
    PROVE  Serves(u, ReplacementFailed(w), X, N, H, n)
<1> SUFFICES ASSUME Present(w)
             PROVE  Serves(u, EmitState(On(Off(DropOrRestore(w, w.active.turn # None),
                                               {"replacing", "restarting"}), {"paused"})), X, N, H, n)
  BY DEF ReplacementFailed
<1> DEFINE a == DropOrRestore(w, w.active.turn # None)
           b == Off(a, {"replacing", "restarting"})
<1>1. w.active.stage = "admitted" => w.active.entry # w.job
  BY NamesAssumption DEF Serves, Good, Once
<1>2. Serves(u, a, X, N, H, n) /\ a.active.stage = "none"
  <2>1. w.active.turn # None => Serves(u, Drop(w), X, N, H, n) /\ Drop(w).active = NoActive
    BY ServesDrop
  <2>2. w.active.turn = None => Serves(u, Restore(w), X, N, H, n) /\ Restore(w).active = NoActive
    BY <1>1, ServesRestore
  <2> QED  BY <2>1, <2>2 DEF DropOrRestore, NoActive
<1> HIDE DEF a
<1>3. Serves(u, b, X, N, H, n)  BY <1>2, ServesOff DEF SessionFlags
<1> HIDE DEF b
<1>4. Serves(u, On(b, {"paused"}), X, N, H, n)  BY <1>3, ServesOn
<1> QED  BY <1>4, ServesEmit DEF a, b

LEMMA ServesAdmit ==
    ASSUME NEW u, NEW w, NEW X, NEW N, NEW H, NEW n, Serves(u, w, X, N, H, n),
           w.active.stage = "sent" => w.active.entry \notin X /\ ~Has(w, "restarting")
                                      /\ w.active.on = w.cur
    PROVE  Serves(u, Admit(w), X, N, H, n) /\ Admit(w).active.stage # "sent"
<1>1. CASE w.active.stage # "sent"  BY <1>1 DEF Admit
<1>2. CASE w.active.stage = "sent"
  <2> DEFINE v == Admit(w)
  <2>0. w \in Threads /\ Good(w) /\ Loss(w, X, N) /\ Believes(w, H, n) /\ Tame(u, w)
    BY DEF Serves, Good
  <2>1. Keeps(w, v)  BY <2>0, KeepsItself, AdmitKeeps
  <2>2. v.active = [w.active EXCEPT !.stage = "admitted"] /\ w.active \in Actives
        /\ v.items = w.items /\ v.flags = w.flags /\ v.turn = w.turn
    BY <1>2, <2>0 DEF Admit, Threads
  <2>3. v.active.stage = "admitted" /\ v.active.entry = w.active.entry /\ v.active.on = w.active.on
        /\ v.active.turn = w.active.turn /\ v.active.end = w.active.end
    BY <2>2 DEF Actives
  <2> HIDE DEF v
  <2>4. Loss(v, X, N)  BY <1>2, <2>0, <2>1, <2>2, <2>3 DEF Loss, Safe, Pending, Keeps, Same
  <2>5. Tame(u, v)  BY <1>2, <2>0, <2>1, <2>2, <2>3 DEF Tame, Has, Keeps, Same
  <2>6. Believes(v, H, n)  BY <1>2, <2>0, <2>1, <2>2, <2>3 DEF Believes, Has, Up, Keeps, Same
  <2> QED  BY <2>1, <2>3, <2>4, <2>5, <2>6 DEF Serves, Keeps, v
<1> QED  BY <1>1, <1>2

\* A completion of the provider's last turn; the provider has said all about it.
LEMMA ServesCompleted ==
    ASSUME NEW u, NEW w, NEW X, NEW N, NEW H, NEW n, Serves(u, w, X, N, H, n),
           NEW j \in Jobs, NEW end \in {"completed", "failed"}, w.phase \in {"none", "done"}
    PROVE  Serves(u, OnTurnCompleted(w, j, end), X, N, H, n)
<1>0. w \in Threads /\ Good(w) /\ Loss(w, X, N) /\ Believes(w, H, n) /\ Tame(u, w)
  BY DEF Serves, Good
<1>1. ASSUME w.active.stage # "none", w.active.on = w.cur, w.active.turn = j
      PROVE  Serves(u, FinishOrSchedule(On([w EXCEPT !.active.stage = "admitted",
                                                     !.active.end = end], {"done"})), X, N, H, n)
  <2> DEFINE c == [w.active EXCEPT !.stage = "admitted", !.end = end]
             v == [w EXCEPT !.active = c]
  <2>1. w.active \in Actives /\ w.active.stage \in Stages  BY <1>0 DEF Threads, Actives
  <2>2. c \in Actives /\ c.entry = w.active.entry /\ c.stage = "admitted" /\ c.on = w.active.on
        /\ c.turn = j
    BY <1>1, <2>1 DEF Actives, Stages
  <2>3. [w EXCEPT !.active.stage = "admitted", !.active.end = end] = v  BY <1>0 DEF Threads, Actives
  <2> HIDE DEF c
  <2>4. w.active.stage = "admitted"
    BY <1>0, <1>1, <2>1, NamesAssumption DEF Loss, Good, Once, Stages, Jobs
  <2>5. Keeps(w, v)  BY <1>0, <2>2, <2>4, KeepsItself, StageKeeps
  <2>6. v.active = c /\ v.items = w.items /\ v.flags = w.flags /\ v.turn = w.turn
    BY <1>0 DEF Threads
  <2> HIDE DEF v
  <2>7. Loss(v, X, N)
    BY <1>0, <1>1, <2>2, <2>4, <2>5, <2>6 DEF Loss, Safe, Pending, Keeps, Same
  <2>8. Tame(u, v)  BY <1>0, <2>2, <2>4, <2>5, <2>6 DEF Tame, Has, Keeps, Same
  <2>9. Believes(v, H, n)  BY <1>0, <2>2, <2>4, <2>5, <2>6 DEF Believes, Has, Up, Keeps, Same
  <2>10. Serves(u, v, X, N, H, n) /\ v.phase = w.phase
    BY <2>5, <2>7, <2>8, <2>9 DEF Serves, Keeps, Same
  <2>11. Serves(u, On(v, {"done"}), X, N, H, n)  BY <2>10, ServesOn
  <2> QED  BY <2>3, <2>11, ServesFinish
<1>2. \A F \in SUBSET {"done", "completed"} :
         ("completed" \in F => Has(w, "direct")) => Serves(u, On(w, F), X, N, H, n)
  BY ServesOn
<1>3. Has(w, "direct") =>
         Serves(u, FinishDirect(On(w, IF Has(w, "awaiting") THEN {"done"}
                                      ELSE {"done", "completed"})), X, N, H, n)
  BY <1>2, ServesFinishDirect
<1>4. Serves(u, FinishOrSchedule(On(IF end = "completed" THEN w ELSE PauseThread(w), {"done"})), X, N, H, n)
  <2> DEFINE p == IF end = "completed" THEN w ELSE PauseThread(w)
  <2>1. Serves(u, p, X, N, H, n)  BY ServesPause
  <2> HIDE DEF p
  <2>2. p.phase = w.phase  BY <2>1, ServedSame
  <2>3. Serves(u, On(p, {"done"}), X, N, H, n)  BY <2>1, <2>2, ServesOn
  <2> QED  BY <2>3, ServesFinish DEF p
<1> QED  BY <1>1, <1>3, <1>4 DEF OnTurnCompleted

LEMMA ServesWithoutTurn ==
    ASSUME NEW u, NEW w, NEW X, NEW N, NEW H, NEW n, Serves(u, w, X, N, H, n),
           w.phase \in {"none", "done"}
    PROVE  Serves(u, OnDirectWithoutTurn(w), X, N, H, n)
<1>1. Has(w, "direct") => Serves(u, On(w, {"done", "completed"}), X, N, H, n)  BY ServesOn
<1> QED  BY <1>1, ServesFinishDirect, ServesSchedule DEF OnDirectWithoutTurn

LEMMA ServesInputFailed ==
    ASSUME NEW u, NEW w, NEW X, NEW N, NEW H, NEW n, Serves(u, w, X, N, H, n),
           w.slot = None \/ ~Up(w)
    PROVE  Serves(u, DirectInputFailed(w), X, N, H, n)
<1> DEFINE F == {"direct", "awaiting", "completed"}
           p == On(w, {"paused"})
           e == EndDirect(w)
<1>0. w \in Threads  BY DEF Serves, Good
<1>1. CASE w.active.stage # "preparing"
  <2>1. Serves(u, e, X, N, H, n)  BY <1>1, ServesOff DEF EndDirect, SessionFlags
  <2> QED  BY <2>1, ServesPause DEF DirectInputFailed
<1>2. CASE w.active.stage = "preparing"
  <2>1. Serves(u, p, X, N, H, n) /\ p.active = w.active  BY <1>0, ServesOn, FlagsOn
  <2> HIDE DEF p
  <2>2. Serves(u, Restore(p), X, N, H, n) /\ Restore(p).active = NoActive
    BY <1>2, <2>1, ServesRestore
  <2>3. (Restore(p).slot = None \/ ~Up(Restore(p))) /\ p \in Threads  BY <2>1, <2>2, ServedSame
  <2>4. NoActive.stage = "none"  BY DEF NoActive
  <2>5. Serves(u, Off(Restore(p), F), X, N, H, n)  BY <2>2, <2>3, <2>4, ServesOff DEF SessionFlags
  <2>6. Restore(On(e, {"paused"})) = Off(Restore(p), F)
    <3>1. On(e, {"paused"}) = Off(p, F)
      <4>1. (w.flags \ F) \cup {"paused"} = (w.flags \cup {"paused"}) \ F  OBVIOUS
      <4> QED  BY <1>0, <4>1 DEF EndDirect, On, Off, Threads, p
    <3>2. Restore(Off(p, F)) = Off(Restore(p), F)  BY <2>3 DEF Restore, Off, Threads
    <3> QED  BY <3>1, <3>2
  <2>7. On(e, {"paused"}).active = w.active  BY <1>0 DEF EndDirect, On, Off, Threads
  <2>8. PauseThread(e) = EmitState(Off(Restore(p), F))  BY <1>2, <2>6, <2>7 DEF PauseThread
  <2> QED  BY <2>5, <2>8, ServesEmit DEF DirectInputFailed
<1> QED  BY <1>1, <1>2

-----------------------------------------------------------------------------
(* The message in delivery and the provider or the restart that has it.    *)

Provider(w) ==
    /\ Up(w) /\ Has(w, "quiet") /\ w.status = "working"
    /\ w.phase = "setup" /\ w.job = w.active.entry /\ w.late = None /\ w.active.on = w.cur

Owed(w) ==
    w.active.stage = "sent" => /\ w.flags \cap {"direct", "asks"} = {}
                               /\ Has(w, "restarting") \/ Provider(w)

Restarting(w) ==
    IF Has(w, "restarting")
    THEN /\ w.restarts = <<[job |-> w.active.entry, on |-> w.active.on]>>
         /\ w.active.stage = "sent" /\ ~Up(w)
    ELSE \A i \in DOMAIN w.restarts : w.restarts[i].job \in Inputs

Conn(w) ==
    /\ Owed(w) /\ Restarting(w)
    /\ ~Up(w) => w.job = None /\ w.late = None /\ w.status # "working"
    /\ Has(w, "starting") => w.cur = 0 /\ w.restarts = <<>>
    /\ w.job \in Entries /\ w.phase = "setup" => ~Has(w, "asks")

Core(w, X, N, H, n) == Good(w) /\ Loss(w, X, N) /\ Believes(w, H, n) /\ Conn(w)

\* A message in delivery was in delivery before.
NoDispatch(u, w) ==
    /\ w.active.stage \in {"sent", "admitted"} => u.active.stage \in {"sent", "admitted"}
    /\ w.active.stage = "sent" => u.active.stage = "sent"

\* Nothing new is bound to a session, started or handed to the provider.
Stays(u, w) ==
    /\ w.cur = u.cur /\ w.active.on \in {0, u.active.on, u.cur} /\ w.restarts = u.restarts
    /\ Has(u, "dead") => Has(w, "dead")
    /\ w.slot \in {u.slot, None} /\ w.job \in {u.job, None}

LEMMA TameConn ==
    ASSUME NEW u, NEW w, Tame(u, w), Conn(u)
    PROVE  Conn(w) /\ NoDispatch(u, w) /\ Stays(u, w)
<1>1. /\ "dead" \in w.flags <=> "dead" \in u.flags
      /\ "quiet" \in w.flags <=> "quiet" \in u.flags
      /\ "starting" \in w.flags <=> "starting" \in u.flags
  BY DEF Tame, SessionFlags
<1>2. Up(w) <=> Up(u)  BY <1>1 DEF Up, Has, Tame, Same
<1>3. Owed(w)
  <2> SUFFICES ASSUME w.active.stage = "sent"
               PROVE  w.flags \cap {"direct", "asks"} = {} /\ (Has(w, "restarting") \/ Provider(w))
    BY DEF Owed
  <2>1. w.active = u.active /\ (Has(w, "direct") => Has(u, "direct"))
        /\ (Has(w, "asks") => Has(u, "asks")) /\ (Has(u, "restarting") => Has(w, "restarting"))
    BY DEF Tame
  <2>2. u.flags \cap {"direct", "asks"} = {} /\ (Has(u, "restarting") \/ Provider(u))
    BY <2>1 DEF Conn, Owed
  <2>3. w.flags \cap {"direct", "asks"} = {}  BY <2>1, <2>2 DEF Has
  <2>4. Provider(u) => Provider(w)  BY <1>1, <1>2, <2>1 DEF Provider, Has, Tame, Same
  <2> QED  BY <2>1, <2>2, <2>3, <2>4
<1>4. Restarting(w)
  <2>1. w.restarts = u.restarts  BY DEF Tame, Same
  <2>2. CASE Has(w, "restarting")
    <3>1. Has(u, "restarting")  BY <2>2 DEF Tame
    <3>2. u.active.stage = "sent"  BY <3>1 DEF Conn, Restarting
    <3>3. w.active.stage = "sent" /\ w.active = u.active  BY <3>1, <3>2 DEF Tame
    <3> QED  BY <1>2, <2>1, <2>2, <3>1, <3>3 DEF Conn, Restarting
  <2>3. CASE ~Has(w, "restarting")
    <3>1. ~Has(u, "restarting")  BY <2>3 DEF Tame, Conn, Restarting
    <3> QED  BY <2>1, <2>3, <3>1 DEF Conn, Restarting
  <2> QED  BY <2>2, <2>3
<1>5. /\ ~Up(w) => w.job = None /\ w.late = None /\ w.status # "working"
      /\ Has(w, "starting") => w.cur = 0 /\ w.restarts = <<>>
      /\ w.job \in Entries /\ w.phase = "setup" => ~Has(w, "asks")
  BY <1>1, <1>2 DEF Conn, Tame, Same, Has
<1> QED  BY <1>1, <1>3, <1>4, <1>5 DEF Conn, Tame, NoDispatch, Stays, Same, Has

LEMMA ServedCore ==
    ASSUME NEW u, NEW w, NEW X, NEW N, NEW H, NEW n, Serves(u, w, X, N, H, n), Conn(u)
    PROVE  Core(w, X, N, H, n) /\ NoDispatch(u, w) /\ Stays(u, w)
  BY TameConn DEF Serves, Core

\* Without a session nothing is sent that no restart has.
LEMMA NothingSent ==
    ASSUME NEW w, Conn(w), ~Has(w, "restarting"), ~Provider(w)
    PROVE  w.active.stage # "sent"
  BY DEF Conn, Owed

LEMMA NothingRestarts ==
    ASSUME NEW w, Conn(w), Up(w) \/ w.active.stage # "sent"
    PROVE  ~Has(w, "restarting")
  BY DEF Conn, Restarting

\* A turn that has been dispatched is not admitted by the wait for its admission.
LEMMA JoinsNothing ==
    ASSUME NEW w, Conn(w)
    PROVE  JoinAdmission(w) = w
  BY DEF Conn, Owed, Restarting, Provider, JoinAdmission, AdmissionOpen, Working

-----------------------------------------------------------------------------
(* Sessions that end.                                                      *)

\* What a session that closes leaves of the queue.
Closed(w, v) ==
    /\ Good(v) /\ v.restarts = w.restarts /\ v.slot = w.slot
    /\ v.flags \cap {"direct", "awaiting", "completed", "done"} = {}
    /\ v.flags \subseteq w.flags \cup {"paused", "replacing"}
    /\ IF Has(w, "restarting") /\ w.active.stage # "none"
       THEN v.active = w.active /\ v.items = w.items /\ Has(v, "restarting")
       ELSE /\ v.active.stage = "none" /\ v.active.on \in {0, w.active.on}
            /\ ToSet(v.items) = ToSet(w.items) \cup
                    (IF w.active.stage \in {"sent", "preparing"} THEN {w.active.entry} ELSE {})

\* The delivery that is put back, or forgotten once it was admitted.
LEMMA PutBack ==
    ASSUME NEW w, Good(w), NEW v, v = DropOrRestore(w, w.active.stage = "admitted"),
           w.active.stage # "none"
    PROVE  /\ Good(v) /\ Keeps(w, v) /\ v.active = NoActive
           /\ v.flags = w.flags /\ v.turn = w.turn
           /\ ToSet(v.items) = ToSet(w.items) \cup
                    (IF w.active.stage \in {"sent", "preparing"} THEN {w.active.entry} ELSE {})
<1>1. Keeps(w, v)  BY KeepsItself, DropOrRestoreKeeps
<1>2. w \in Threads /\ Once(w)  BY DEF Good
<1>3. v.active = NoActive /\ v.flags = w.flags /\ v.turn = w.turn
  BY <1>2 DEF DropOrRestore, Drop, Restore, Threads
<1>4. CASE w.active.stage = "admitted"
  <2>1. v.items = w.items  BY <1>2, <1>4 DEF DropOrRestore, Drop, Threads
  <2> QED  BY <1>1, <1>3, <1>4, <2>1 DEF Keeps
<1>5. CASE w.active.stage # "admitted"
  <2>1. w.active.stage \in {"sent", "preparing"}  BY <1>2, <1>5 DEF Threads, Actives, Stages
  <2>2. v.items = IF w.active.entry \in ToSet(w.items) THEN w.items
                  ELSE <<w.active.entry>> \o w.items
    BY <1>2, <1>5, <2>1 DEF DropOrRestore, Restore, Threads
  <2>3. w.items \in Seq(Entries) /\ IsInjective(w.items) /\ w.active.entry \in Entries
    BY <1>2, <2>1 DEF Once, Threads
  <2>4. CASE w.active.entry \in ToSet(w.items)  BY <1>1, <1>3, <2>1, <2>2, <2>4 DEF Keeps
  <2>5. CASE w.active.entry \notin ToSet(w.items)
    <3>1. ToSet(v.items) = {w.active.entry} \cup ToSet(w.items)  BY <2>2, <2>3, <2>5, Prepended
    <3> QED  BY <1>1, <1>3, <2>1, <3>1 DEF Keeps
  <2> QED  BY <2>4, <2>5
<1> QED  BY <1>4, <1>5

LEMMA ClosingCloses ==
    ASSUME NEW w, Good(w)
    PROVE  Closed(w, OnSessionClosing(w))
<1> DEFINE a == IF w.active.stage = "none" \/ Has(w, "restarting") THEN w
                ELSE DropOrRestore(w, w.active.stage = "admitted")
           b == IF Present(w) /\ ~Has(w, "replacing") THEN On(a, {"paused"}) ELSE a
           c == EmitState(b)
           d == EndDirect(c)
           f == Off(d, IF Has(w, "replacing") THEN {} ELSE {"asks"})
           v == ResetTurn(f)
           kept == Has(w, "restarting") /\ w.active.stage # "none"
           back == IF w.active.stage \in {"sent", "preparing"} THEN {w.active.entry} ELSE {}
<1>0. Keeps(w, v)
  <2>1. Keeps(w, a)  BY KeepsItself, DropOrRestoreKeeps
  <2> HIDE DEF a
  <2>2. Keeps(w, b)  BY <2>1, PausedKeeps
  <2> HIDE DEF b
  <2>3. Keeps(w, f)  BY <2>2, EmitKeeps, EndDirectKeeps, OffKeeps
  <2> HIDE DEF f
  <2> QED  BY <2>3, ResetKeeps
<1>1. /\ a \in Threads /\ a.flags = w.flags
      /\ kept => a.active = w.active /\ a.items = w.items
      /\ ~kept => /\ a.active.stage = "none" /\ a.active.on \in {0, w.active.on}
                  /\ ToSet(a.items) = ToSet(w.items) \cup back
  <2>1. w \in Threads  BY DEF Good
  <2>2. NoActive.stage = "none" /\ NoActive.on = 0  BY DEF NoActive
  <2>3. CASE w.active.stage = "none" \/ Has(w, "restarting")  BY <2>1, <2>3
  <2>4. CASE ~(w.active.stage = "none" \/ Has(w, "restarting"))
    <3> DEFINE x == DropOrRestore(w, w.active.stage = "admitted")
    <3>1. a = x  BY <2>4
    <3>2. Good(x) /\ x.active = NoActive /\ x.flags = w.flags /\ ToSet(x.items) = ToSet(w.items) \cup back
      BY <2>4, PutBack
    <3> HIDE DEF x, a, back
    <3> QED  BY <2>2, <2>4, <3>1, <3>2 DEF Good
  <2> QED  BY <2>3, <2>4
<1> HIDE DEF a, back
<1>2. /\ b \in Threads /\ b.flags \subseteq w.flags \cup {"paused"} /\ w.flags \subseteq b.flags
      /\ b.active = a.active /\ b.items = a.items
  <2>1. a.flags \in SUBSET Flags  BY <1>1 DEF Threads
  <2>2. On(a, {"paused"}) \in Threads  BY <1>1, <2>1 DEF On, Threads, Flags
  <2> QED  BY <1>1, <2>2, FlagsOn
<1> HIDE DEF b
<1>3. /\ c \in Threads /\ c.active = b.active /\ c.items = b.items
      /\ c.flags \subseteq b.flags
      /\ b.active.stage # "none" => c.flags = b.flags
  <2>1. c \in Threads  BY <1>2 DEF EmitState, Off, Threads
  <2>2. b.active.stage # "none" => Present(b)  BY DEF Present
  <2> QED  BY <1>2, <2>1, <2>2, FlagsEmit
<1> HIDE DEF c
<1>4. /\ d \in Threads /\ d.active = c.active /\ d.items = c.items
      /\ d.flags = c.flags \ {"direct", "awaiting", "completed"}
  <2>1. d \in Threads  BY <1>3 DEF EndDirect, Off, Threads
  <2> QED  BY <1>3, <2>1, FlagsOff DEF EndDirect
<1> HIDE DEF d
<1>5. /\ f \in Threads /\ f.active = d.active /\ f.items = d.items
      /\ f.flags \subseteq d.flags /\ d.flags \ {"asks"} \subseteq f.flags
  <2>1. f \in Threads  BY <1>4 DEF Off, Threads
  <2> QED  BY <1>4, <2>1, FlagsOff
<1> HIDE DEF f
<1>6. v.active = f.active /\ v.items = f.items /\ v.flags = f.flags \ {"done"}
  BY <1>5, FlagsReset
<1>7. OnSessionClosing(w) = v  BY DEF OnSessionClosing, a, b, c, d, f
<1> HIDE DEF v
<1>8. v.flags \cap {"direct", "awaiting", "completed", "done"} = {}
  BY <1>4, <1>5, <1>6
<1>9. v.flags \subseteq w.flags \cup {"paused", "replacing"}
  BY <1>2, <1>3, <1>4, <1>5, <1>6
<1>10. v.active = a.active /\ v.items = a.items  BY <1>2, <1>3, <1>4, <1>5, <1>6
<1>11. kept => Has(v, "restarting")
  <2> SUFFICES ASSUME kept PROVE "restarting" \in v.flags  BY DEF Has
  <2>1. b.active.stage # "none" /\ "restarting" \in b.flags  BY <1>1, <1>2 DEF Has
  <2> QED  BY <1>3, <1>4, <1>5, <1>6, <2>1
<1> QED  BY <1>0, <1>1, <1>7, <1>8, <1>9, <1>10, <1>11 DEF Closed, Keeps, Same, back

LEMMA ReplacedCloses ==
    ASSUME NEW w, Good(w)
    PROVE  Closed(w, OnSessionClosing(BeginReplacement(w)))
<1> DEFINE p == IF Present(w) THEN On(w, {"replacing"}) ELSE w
           r == BeginReplacement(w)
           v == OnSessionClosing(r)
<1>0. w \in Threads  BY DEF Good
<1>1. Keeps(w, p)  BY KeepsItself, PausedKeeps
<1>2. p.active = w.active /\ p.items = w.items /\ p.flags \subseteq w.flags \cup {"replacing"}
      /\ w.flags \subseteq p.flags
  BY <1>0, FlagsOn
<1> HIDE DEF p
<1>3. Keeps(w, r)  BY <1>1, EndDirectKeeps DEF BeginReplacement, p
<1>4. p \in Threads  BY <1>1 DEF Keeps, Good
<1>5. r.active = w.active /\ r.items = w.items /\ r.flags = p.flags \ {"direct", "awaiting", "completed"}
  BY <1>2, <1>4, FlagsOff DEF BeginReplacement, EndDirect, p
<1> HIDE DEF r
<1>6. Closed(r, v)  BY <1>3, ClosingCloses DEF Keeps
<1> HIDE DEF v
<1>7. Keeps(w, v)  BY <1>3, ClosingKeeps DEF v
<1>8. "restarting" \in r.flags <=> "restarting" \in w.flags  BY <1>2, <1>5
<1>9. v.flags \subseteq w.flags \cup {"paused", "replacing"}  BY <1>2, <1>5, <1>6 DEF Closed
<1>10. Closed(w, v)  BY <1>5, <1>6, <1>7, <1>8, <1>9 DEF Closed, Has, Keeps, Same
<1> QED  BY <1>10 DEF v, r

\* A thread whose session has ended.
LEMMA EndedCore ==
    ASSUME NEW w, NEW X, NEW N, NEW H, NEW n, Core(w, X, N, H, n), NEW v, Closed(w, v),
           NEW z \in Threads, z.items = v.items, z.active = v.active, z.restarts = v.restarts,
           z.phase = "none", z.job = None, z.late = None, z.slot \in {None, v.slot},
           ~Up(z), z.status # "working",
           \A f \in {"direct", "awaiting", "completed", "done", "asks", "restarting"} :
               Has(z, f) <=> Has(v, f),
           Has(z, "starting") => z.cur = 0 /\ z.restarts = <<>>,
           NEW G, z.res = 0 => G = {}
    PROVE  Core(z, X, N, G, n) /\ NoDispatch(w, z)
<1>0. Good(w) /\ Loss(w, X, N) /\ Believes(w, H, n) /\ Conn(w) /\ w \in Threads /\ Good(v)
      /\ Once(v) /\ v.restarts = w.restarts /\ v.slot = w.slot
  BY DEF Core, Good, Closed
<1>1. Good(z)  BY <1>0 DEF Good, Once
<1>2. z.active.stage # "none" => z.active.entry \in Entries  BY <1>1 DEF Good, Once
<1>5. None \notin ToSet(z.items)
  <2>1. z.items \in Seq(Entries)  BY DEF Threads
  <2> QED  BY <2>1, ElementOfSeq, NamesAssumption DEF ToSet
<1>3. CASE Has(w, "restarting")
  <2>1. w.active.stage = "sent" /\ w.restarts = <<[job |-> w.active.entry, on |-> w.active.on]>>
    BY <1>0, <1>3 DEF Conn, Restarting
  <2>2. z.active = w.active /\ z.items = w.items /\ Has(z, "restarting") /\ z.restarts = w.restarts
    BY <1>0, <1>3, <2>1 DEF Closed, Same
  <2>3. Loss(z, X, N)
    <3>1. Safe(z) = Safe(w) /\ Pending(z) = Pending(w)  BY <2>2 DEF Safe, Pending
    <3>2. Pending(z) = ToSet(z.items)  BY <2>1, <2>2 DEF Pending
    <3> QED  BY <1>0, <1>2, <1>5, <2>1, <2>2, <3>1, <3>2, NamesAssumption DEF Loss
  <2>4. Believes(z, G, n)
    BY <1>0, <2>1, <2>2 DEF Believes, Closed, Has, Same
  <2>5. "asks" \notin z.flags
    BY <1>0, <2>1 DEF Conn, Owed, Closed, Has
  <2>6. Owed(z)  BY <2>2, <2>5 DEF Owed, Closed, Has
  <2>7. Restarting(z)  BY <2>1, <2>2 DEF Restarting
  <2> QED  BY <1>1, <2>1, <2>3, <2>4, <2>6, <2>7, NamesAssumption DEF Core, Conn, NoDispatch
<1>4. CASE ~Has(w, "restarting")
  <2>1. z.active.stage = "none" /\ ToSet(z.items) = ToSet(w.items) \cup
            (IF w.active.stage \in {"sent", "preparing"} THEN {w.active.entry} ELSE {})
    BY <1>4 DEF Closed
  <2>2. Loss(z, X, N)
    <3>1. Safe(w) \subseteq ToSet(z.items) /\ Safe(z) = ToSet(z.items) /\ Pending(z) = ToSet(z.items)
      BY <2>1 DEF Safe, Pending
    <3>2. X \subseteq Safe(z)  BY <1>0, <3>1 DEF Loss
    <3>3. N \cap ToSet(z.items) = {}  BY <1>0, <2>1 DEF Loss, Pending
    <3> QED  BY <1>5, <2>1, <3>1, <3>2, <3>3 DEF Loss
  <2>3. Believes(z, G, n)  BY <1>0, <2>1 DEF Believes, Closed, Has, Same
  <2>4. ~Has(v, "restarting")  BY <1>4 DEF Closed, Has
  <2>5. Restarting(z)  BY <1>0, <1>4, <2>4 DEF Conn, Restarting, Same
  <2> QED  BY <1>1, <2>1, <2>2, <2>3, <2>5, NamesAssumption DEF Core, Conn, Owed, NoDispatch
<1> QED  BY <1>3, <1>4

LEMMA CoreHolds ==
    ASSUME NEW w, NEW X, NEW N, NEW H, NEW n, Core(w, X, N, H, n)
    PROVE  Holds(w, w) /\ w \in Threads
<1>1. w \in Threads /\ Good(w) /\ Believes(w, H, n)  BY DEF Core, Good
<1>2. w.phase # "none" => w.job \in Jobs  BY <1>1 DEF Believes, Threads
<1> QED  BY <1>1, <1>2, HoldsItself DEF Sound

\* What is in delivery stays in delivery until somebody ends it.
LEMMA ScheduleStays ==
    ASSUME NEW w \in Threads, w.active.stage # "none"
    PROVE  /\ Schedule(w).active = w.active /\ Schedule(w).items = w.items
           /\ Schedule(w).flags \subseteq w.flags \cup {"again"} /\ w.flags \subseteq Schedule(w).flags
           /\ Schedule(w).turn = w.turn
<1>1. ~CanDeliver(w)  BY DEF CanDeliver
<1> DEFINE o == On(w, {"again"})
           p == [w EXCEPT !.pump = "ending"]
<1>2. Schedule(w) = w \/ Schedule(w) = o \/ Schedule(w) = p  BY <1>1 DEF Schedule
<1>3. o.active = w.active /\ o.items = w.items /\ o.flags = w.flags \cup {"again"} /\ o.turn = w.turn
  BY FlagsOn
<1>4. p.active = w.active /\ p.items = w.items /\ p.flags = w.flags /\ p.turn = w.turn  BY DEF Threads
<1> HIDE DEF o, p
<1> QED  BY <1>2, <1>3, <1>4

LEMMA ForcedCore ==
    ASSUME NEW w, NEW X, NEW N, NEW H, NEW n, Core(w, X, N, H, n), Up(w), w.slot = None
    PROVE  Core(ForceStopped(w), X, N, H, n) /\ NoDispatch(w, ForceStopped(w))
           /\ Stays(w, ForceStopped(w)) /\ ~Up(ForceStopped(w))
<1> DEFINE z == Silent(Off(On(w, {"dead"}), {"quiet", "stop"}))
           a == ResetTurn(Off(EndDirect(z), {"asks"}))
           b == IF a.active.stage = "none" THEN a ELSE DropOrRestore(a, a.active.stage = "admitted")
           r == Schedule(EmitState(b))
           f == [r EXCEPT !.status = "idle", !.slot = None]
<1>0. /\ Good(w) /\ Loss(w, X, N) /\ Believes(w, H, n) /\ Conn(w) /\ Holds(w, w) /\ w \in Threads
      /\ Once(w)
  BY CoreHolds DEF Core, Good
<1>1. Holds(w, z)
  <2>1. Holds(w, On(w, {"dead"}))  BY <1>0, Flagged DEF Flags
  <2> QED  BY <2>1, Unflagged, SilentHolds
<1>2. /\ z.items = w.items /\ z.active = w.active /\ z.phase = "none" /\ z.job = None
      /\ z.late = None /\ z.slot = None /\ z.cur = w.cur /\ z.restarts = w.restarts
      /\ z.res = w.res /\ z.flags = (w.flags \cup {"dead"}) \ {"quiet", "stop"}
  BY <1>0 DEF Silent, On, Off, Threads
<1> HIDE DEF z
<1>3. Keeps(z, a)
  <2>1. Keeps(z, z)  BY <1>1, KeepsItself DEF Holds, Sound
  <2>2. Keeps(z, Off(EndDirect(z), {"asks"}))  BY <2>1, EndDirectKeeps, OffKeeps
  <2> QED  BY <2>2, ResetKeeps
<1>4. /\ a.items = z.items /\ a.active = z.active
      /\ a.flags = z.flags \ {"direct", "awaiting", "completed", "asks", "done"}
  <2>1. z \in Threads  BY <1>1, SoundTyped
  <2>2. EndDirect(z) \in Threads /\ Off(EndDirect(z), {"asks"}) \in Threads
    BY <2>1 DEF EndDirect, Off, Threads
  <2>3. EndDirect(z).items = z.items /\ EndDirect(z).active = z.active
        /\ EndDirect(z).flags = z.flags \ {"direct", "awaiting", "completed"}
    BY <2>1, FlagsOff DEF EndDirect
  <2>4. Off(EndDirect(z), {"asks"}).items = z.items /\ Off(EndDirect(z), {"asks"}).active = z.active
        /\ Off(EndDirect(z), {"asks"}).flags = EndDirect(z).flags \ {"asks"}
    BY <2>2, <2>3, FlagsOff
  <2>5. a.items = z.items /\ a.active = z.active /\ a.flags = Off(EndDirect(z), {"asks"}).flags \ {"done"}
    BY <2>2, <2>4, FlagsReset
  <2> QED  BY <2>3, <2>4, <2>5
<1> HIDE DEF a
<1>5. /\ Keeps(a, b) /\ b.active.stage = "none" /\ b.flags = a.flags
      /\ b.active.on \in {0, w.active.on}
      /\ ToSet(b.items) = ToSet(w.items) \cup
                    (IF w.active.stage \in {"sent", "preparing"} THEN {w.active.entry} ELSE {})
  <2>1. Good(a)  BY <1>3 DEF Keeps
  <2>2. NoActive.stage = "none" /\ NoActive.on = 0  BY DEF NoActive
  <2>3. CASE a.active.stage = "none"  BY <1>2, <1>4, <2>1, <2>3, KeepsItself
  <2>4. CASE a.active.stage # "none"
    <3> DEFINE x == DropOrRestore(a, a.active.stage = "admitted")
    <3>1. b = x  BY <2>4
    <3>2. /\ Keeps(a, x) /\ x.active = NoActive /\ x.flags = a.flags
          /\ ToSet(x.items) = ToSet(a.items) \cup
                    (IF a.active.stage \in {"sent", "preparing"} THEN {a.active.entry} ELSE {})
      BY <2>1, <2>4, PutBack
    <3> HIDE DEF b, x
    <3> QED  BY <1>2, <1>4, <2>2, <3>1, <3>2
  <2> QED  BY <2>3, <2>4
<1> HIDE DEF b
<1>6. Same(z, b) /\ Good(b) /\ b \in Threads  BY <1>3, <1>5 DEF Keeps, Same, Good
<1>7. None \notin ToSet(b.items)
  <2>1. b.items \in Seq(Entries)  BY <1>6 DEF Threads
  <2> QED  BY <2>1, ElementOfSeq, NamesAssumption DEF ToSet
<1>8. Loss(b, X, N)
  <2>1. Safe(w) \subseteq ToSet(b.items) /\ Safe(b) = ToSet(b.items) /\ Pending(b) = ToSet(b.items)
    BY <1>5 DEF Safe, Pending
  <2>2. N \cap ToSet(b.items) = {}  BY <1>0, <1>5 DEF Loss, Pending
  <2> QED  BY <1>0, <1>2, <1>5, <1>6, <1>7, <2>1, <2>2 DEF Loss, Same
<1>9. b.flags \cap {"direct", "awaiting", "completed", "asks", "done"} = {} /\ "dead" \in b.flags
      /\ b.flags \subseteq w.flags \cup {"dead"}
  BY <1>2, <1>4, <1>5
<1>10. Believes(b, H, n)  BY <1>0, <1>2, <1>5, <1>6, <1>9 DEF Believes, Has, Same, Up
<1>11. Serves(b, r, X, N, H, n)
  <2>1. Serves(b, b, X, N, H, n)  BY <1>6, <1>8, <1>10, ServesItself
  <2> QED  BY <2>1, ServesEmit, ServesSchedule
<1>12. ForceStopped(w) = f
  <2>1. OnForcedInterrupt(z) = r  BY DEF OnForcedInterrupt, a, b, r
  <2>2. r.restarts = [r EXCEPT !.status = "idle", !.slot = None].restarts
    BY <1>11 DEF Serves, Good, Threads
  <2>3. ForceStopped(w) = [r EXCEPT !.status = "idle", !.slot = None, !.restarts = r.restarts]
    BY <1>0, <2>1 DEF ForceStopped, z
  <2> QED  BY <1>11, <2>3 DEF Serves, Good, Threads
<1>13. Good(f)
  <2>1. Holds(w, ForceStopped(w))  BY <1>0, ForceStoppedHolds
  <2> QED  BY <1>12, <2>1 DEF Holds, Sound
<1> HIDE DEF r
<1>14. /\ f.items = r.items /\ f.active = r.active /\ f.flags = r.flags /\ f.turn = r.turn
       /\ f.job = r.job /\ f.phase = r.phase /\ f.late = r.late /\ f.slot = None /\ f.cur = r.cur
       /\ f.restarts = r.restarts /\ f.res = r.res /\ f.status = "idle"
  BY <1>11 DEF Serves, Good, Threads
<1> HIDE DEF f
<1>15. Same(b, r) /\ r.slot = None /\ r.phase = "none"
  BY <1>2, <1>6, <1>11 DEF Serves, Tame, Same
<1>16. Loss(f, X, N)  BY <1>11, <1>14 DEF Serves, Loss, Safe, Pending
<1>17. Believes(f, H, n)  BY <1>11, <1>14, <1>15 DEF Serves, Believes, Has, Up
<1>18. f.active.stage \notin {"sent", "admitted"}  BY <1>5, <1>11, <1>14 DEF Serves, Tame
<1>19. "dead" \in f.flags /\ "restarting" \notin f.flags /\ "starting" \notin f.flags
  <2>1. "dead" \in r.flags  BY <1>9, <1>11 DEF Serves, Tame, SessionFlags
  <2>2. "restarting" \notin w.flags /\ "starting" \notin w.flags
    BY <1>0 DEF Conn, Restarting, Up, Has
  <2>3. "restarting" \notin r.flags  BY <1>9, <1>11, <2>2 DEF Serves, Tame, Has
  <2>4. "starting" \notin r.flags  BY <1>9, <1>11, <2>2 DEF Serves, Tame, SessionFlags
  <2> QED  BY <1>14, <2>1, <2>3, <2>4
<1>20. f.restarts = w.restarts /\ f.job = None /\ f.late = None
  BY <1>2, <1>6, <1>14, <1>15 DEF Same
<1>21. Restarting(f)  BY <1>0, <1>19, <1>20 DEF Conn, Restarting, Up, Has
<1>22. Conn(f)
  BY <1>14, <1>18, <1>19, <1>20, <1>21, NamesAssumption DEF Conn, Owed, Has
<1>23. Stays(w, f)
  <2>1. f.cur = w.cur /\ f.slot = None  BY <1>2, <1>6, <1>14, <1>15 DEF Same
  <2>2. f.active.on \in {0, b.active.on, b.cur} /\ b.cur = w.cur
    BY <1>2, <1>6, <1>11, <1>14 DEF Serves, Tame, Same
  <2> QED  BY <1>5, <1>19, <1>20, <2>1, <2>2 DEF Stays, Has
<1>24. ~Up(f)  BY <1>19 DEF Up, Has
<1> QED  BY <1>12, <1>13, <1>16, <1>17, <1>18, <1>22, <1>23, <1>24 DEF Core, NoDispatch

LEMMA StopFlagCore ==
    ASSUME NEW w, NEW X, NEW N, NEW H, NEW n, Core(w, X, N, H, n)
    PROVE  Core(On(w, {"stop"}), X, N, H, n) /\ NoDispatch(w, On(w, {"stop"}))
           /\ Stays(w, On(w, {"stop"}))
<1> DEFINE v == On(w, {"stop"})
<1>0. Good(w) /\ Loss(w, X, N) /\ Believes(w, H, n) /\ Conn(w) /\ w \in Threads
  BY CoreHolds DEF Core
<1>1. Keeps(w, v)  BY <1>0, KeepsItself, PausedKeeps
<1>2. v.active = w.active /\ v.items = w.items /\ v.turn = w.turn
      /\ \A g : g # "stop" => (Has(v, g) <=> Has(w, g))
  BY <1>0, FlagsOn DEF Has
<1>3. \A F : "stop" \notin F => v.flags \cap F = w.flags \cap F
  BY <1>0, FlagsOn
<1> HIDE DEF v
<1>4. Loss(v, X, N)  BY <1>0, <1>1, <1>2 DEF Loss, Safe, Pending, Keeps, Same
<1>5. Up(v) <=> Up(w)  BY <1>1, <1>2 DEF Up, Keeps, Same
<1>6. {"direct", "awaiting"} \subseteq v.flags <=> {"direct", "awaiting"} \subseteq w.flags
  BY <1>2 DEF Has
<1>7. Believes(v, H, n)
  <2>1. /\ v.flags \cap {"done", "completed"} = w.flags \cap {"done", "completed"}
        /\ v.flags \cap {"awaiting", "completed"} = w.flags \cap {"awaiting", "completed"}
    BY <1>3
  <2>2. (Has(v, "direct") <=> Has(w, "direct")) /\ (Has(v, "awaiting") <=> Has(w, "awaiting"))
    BY <1>2
  <2> QED  BY <1>0, <1>1, <1>2, <1>5, <1>6, <2>1, <2>2 DEF Believes, Keeps, Same
<1>8. Conn(v)
  <2>1. v.flags \cap {"direct", "asks"} = w.flags \cap {"direct", "asks"}  BY <1>3
  <2>2. \A g \in {"restarting", "quiet", "starting", "asks"} : Has(v, g) <=> Has(w, g)  BY <1>2
  <2>3. Owed(v)  BY <1>0, <1>1, <1>2, <1>5, <2>1, <2>2 DEF Conn, Owed, Provider, Keeps, Same
  <2>4. Restarting(v)  BY <1>0, <1>1, <1>2, <1>5, <2>2 DEF Conn, Restarting, Keeps, Same
  <2> QED  BY <1>0, <1>1, <1>5, <2>2, <2>3, <2>4 DEF Conn, Keeps, Same
<1>9. NoDispatch(w, v) /\ Stays(w, v)  BY <1>1, <1>2 DEF NoDispatch, Stays, Keeps, Same
<1> QED  BY <1>1, <1>4, <1>7, <1>8, <1>9 DEF Core, Keeps, v

LEMMA InterruptCore ==
    ASSUME NEW w, NEW X, NEW N, NEW H, NEW n, Core(w, X, N, H, n), Up(w),
           w.slot = None \/ ~Has(w, "quiet")
    PROVE  Core(Interrupt(w), X, N, H, n) /\ NoDispatch(w, Interrupt(w))
           /\ Stays(w, Interrupt(w))
  BY ForcedCore, StopFlagCore DEF Interrupt, NoDispatch, Stays

-----------------------------------------------------------------------------
(* Direct input that starts, and turns that start.                         *)

LEMMA MarkedEffect ==
    ASSUME NEW w, Good(w), NEW interrupted, NEW v, v = MarkStarted(w, interrupted)
    PROVE  /\ Keeps(w, v) /\ v.items = w.items /\ v.turn = w.turn
           /\ v.active = IF w.active.stage \in {"sent", "admitted"} THEN NoActive ELSE w.active
           /\ \A g : g \notin {"again", "direct", "awaiting", "completed", "done"} =>
                        (Has(v, g) <=> Has(w, g))
           /\ Has(v, "direct") /\ ~Has(v, "completed") /\ ~Has(v, "done")
           /\ Has(v, "awaiting") => interrupted
           /\ interrupted => Has(v, "awaiting")
<1> DEFINE a == IF w.active.stage \in {"sent", "admitted"} THEN Drop(w) ELSE w
           o == On(a, {"direct"})
           b == Off(o, {"awaiting", "completed", "done"})
           c == IF interrupted THEN On(b, {"awaiting"}) ELSE b
<1>0. w \in Threads  BY DEF Good
<1>1. Keeps(w, v)  BY KeepsItself, MarkStartedKeeps
<1>2. Keeps(w, a) /\ a.items = w.items /\ a.turn = w.turn /\ a.flags = w.flags
      /\ a.active = IF w.active.stage \in {"sent", "admitted"} THEN NoActive ELSE w.active
  <2>1. Keeps(w, w) /\ Keeps(w, Drop(w))  BY KeepsItself, DropKeeps
  <2>2. Drop(w).items = w.items /\ Drop(w).turn = w.turn /\ Drop(w).flags = w.flags
        /\ Drop(w).active = NoActive
    BY <1>0 DEF Drop, Threads
  <2> QED  BY <2>1, <2>2
<1> HIDE DEF a
<1>3. Keeps(w, o)  BY <1>2, PausedKeeps
<1>4. o.items = w.items /\ o.turn = w.turn /\ o.flags = w.flags \cup {"direct"} /\ o.active = a.active
  <2>1. a \in Threads  BY <1>2 DEF Keeps, Good
  <2> QED  BY <1>2, <2>1, FlagsOn
<1> HIDE DEF o
<1>5. Keeps(w, b)  BY <1>3, OffKeeps
<1>6. b.items = w.items /\ b.turn = w.turn /\ b.active = a.active
      /\ b.flags = o.flags \ {"awaiting", "completed", "done"}
  <2>1. o \in Threads  BY <1>3 DEF Keeps, Good
  <2> QED  BY <1>4, <2>1, FlagsOff
<1> HIDE DEF b
<1>7. Keeps(w, c)  BY <1>5, PausedKeeps
<1>8. c.items = w.items /\ c.turn = w.turn /\ c.active = a.active
      /\ c.flags = IF interrupted THEN b.flags \cup {"awaiting"} ELSE b.flags
  <2>1. b \in Threads  BY <1>5 DEF Keeps, Good
  <2> QED  BY <1>6, <2>1, FlagsOn
<1>9. v = DirectChanged(c)  BY DEF MarkStarted, a, o, b, c
<1> HIDE DEF c
<1>10. c \in Threads  BY <1>7 DEF Keeps, Good
<1>11. "direct" \in c.flags /\ "completed" \notin c.flags /\ "done" \notin c.flags
       /\ ("awaiting" \in c.flags => interrupted) /\ (interrupted => "awaiting" \in c.flags)
       /\ \A g : g \notin {"direct", "awaiting", "completed", "done"} =>
                    (g \in c.flags <=> g \in w.flags)
  BY <1>4, <1>6, <1>8
<1>12. FinishDirect(c) = c  BY <1>11 DEF FinishDirect
<1>13. v = Schedule(c)  BY <1>9, <1>12 DEF DirectChanged
<1>14. ~CanDeliver(c)  BY <1>11 DEF CanDeliver, Ready
<1>16. v.items = c.items /\ v.turn = c.turn /\ v.active = c.active
       /\ \A g : g # "again" => (g \in v.flags <=> g \in c.flags)
  <2> DEFINE x == On(c, {"again"})
             p == [c EXCEPT !.pump = "ending"]
  <2>1. v = c \/ v = x \/ v = p  BY <1>13, <1>14 DEF Schedule
  <2>2. x.active = c.active /\ x.items = c.items /\ x.flags = c.flags \cup {"again"} /\ x.turn = c.turn
    BY <1>10, FlagsOn
  <2>3. p.active = c.active /\ p.items = c.items /\ p.flags = c.flags /\ p.turn = c.turn
    BY <1>10 DEF Threads
  <2> HIDE DEF x, p
  <2> QED  BY <2>1, <2>2, <2>3
<1> QED  BY <1>1, <1>2, <1>8, <1>11, <1>16 DEF Has

\* The provider reports that it has started the turn it was given.
TurnStarts(u) == OnTurnStarted([Off(u, {"launch"}) EXCEPT !.phase = "live"], u.job)

LEMMA StartedCore ==
    ASSUME NEW u, NEW X, NEW N, NEW H, NEW n, Core(u, X, N, H, n), Up(u), u.phase = "setup",
           NEW Y, Y \subseteq X \ {u.job}, NEW M, M \subseteq N \cup {u.job},
           NEW G, G \subseteq H, NEW v,
           v = TurnStarts(u), Good(v)
    PROVE  Core(v, Y, M, G, n) /\ NoDispatch(u, v) /\ Stays(u, v)
<1> DEFINE z == [Off(u, {"launch"}) EXCEPT !.phase = "live"]
           a == [Off(z, {"done"}) EXCEPT !.turn = u.job]
           b == IF {"direct"} = a.flags \cap {"direct", "awaiting"} THEN Off(a, {"completed"}) ELSE a
<1>0. /\ Good(u) /\ Loss(u, X, N) /\ Believes(u, H, n) /\ Conn(u) /\ u \in Threads /\ Once(u)
      /\ u.active \in Actives
  BY DEF Core, Good, Threads
<1>1. /\ a.items = u.items /\ a.active = u.active /\ a.phase = "live" /\ a.turn = u.job /\ Same([u EXCEPT !.phase = "live"], a)
      /\ a.flags = (u.flags \ {"launch"}) \ {"done"}
  BY <1>0 DEF Off, Threads, Same
<1>2. a \in Threads
  <2>1. Off(u, {"launch"}) \in Threads  BY <1>0 DEF Off, Threads
  <2>2. z \in Threads  BY <2>1 DEF Threads
  <2>3. Off(z, {"done"}) \in Threads  BY <2>2 DEF Off, Threads
  <2>4. u.job \in Jobs \cup {None}  BY <1>0 DEF Threads
  <2> QED  BY <2>3, <2>4 DEF Threads
<1>3. v = IF b.active.stage \in {"sent", "admitted"} /\ b.active.on = b.cur
          THEN [b EXCEPT !.active.stage = "admitted", !.active.turn = u.job] ELSE b
  BY DEF OnTurnStarted, TurnStarts
<1>4. /\ a.job = u.job /\ a.late = u.late /\ a.slot = u.slot /\ a.restarts = u.restarts
      /\ a.cur = u.cur /\ a.status = u.status /\ a.res = u.res
  BY <1>0, <1>1 DEF Same, Threads
<1> HIDE DEF a
<1>5. b \in Threads /\ b.items = a.items /\ b.active = a.active /\ b.phase = a.phase /\ b.turn = a.turn
      /\ b.job = a.job /\ b.late = a.late /\ b.slot = a.slot /\ b.restarts = a.restarts
      /\ b.cur = a.cur /\ b.status = a.status /\ b.res = a.res
      /\ b.flags = IF {"direct"} = a.flags \cap {"direct", "awaiting"} THEN a.flags \ {"completed"} ELSE a.flags
  <2> DEFINE x == Off(a, {"completed"})
  <2>1. x \in Threads /\ x.items = a.items /\ x.active = a.active /\ x.phase = a.phase /\ x.turn = a.turn
        /\ x.job = a.job /\ x.late = a.late /\ x.slot = a.slot /\ x.restarts = a.restarts
        /\ x.cur = a.cur /\ x.status = a.status /\ x.res = a.res /\ x.flags = a.flags \ {"completed"}
    BY <1>2 DEF Off, Threads
  <2>2. b = x \/ b = a  OBVIOUS
  <2>3. b = IF {"direct"} = a.flags \cap {"direct", "awaiting"} THEN x ELSE a  OBVIOUS
  <2> HIDE DEF x, b
  <2> QED  BY <1>2, <2>1, <2>2, <2>3
<1> HIDE DEF b
<1>6. /\ v.items = b.items /\ v.phase = b.phase /\ v.turn = b.turn /\ v.flags = b.flags
      /\ v.job = b.job /\ v.late = b.late /\ v.slot = b.slot /\ v.restarts = b.restarts
      /\ v.cur = b.cur /\ v.status = b.status /\ v.res = b.res
  <2> DEFINE c == [b EXCEPT !.active.stage = "admitted", !.active.turn = u.job]
  <2>1. /\ c.items = b.items /\ c.phase = b.phase /\ c.turn = b.turn /\ c.flags = b.flags
        /\ c.job = b.job /\ c.late = b.late /\ c.slot = b.slot /\ c.restarts = b.restarts
        /\ c.cur = b.cur /\ c.status = b.status /\ c.res = b.res
    BY <1>5 DEF Threads
  <2>2. v = c \/ v = b  BY <1>3
  <2> HIDE DEF c
  <2> QED  BY <2>1, <2>2
<1>7. IF u.active.stage \in {"sent", "admitted"} /\ u.active.on = u.cur
      THEN /\ v.active.stage = "admitted" /\ v.active.turn = u.job /\ v.active.on = u.active.on
           /\ v.active.entry = u.active.entry /\ v.active.end = u.active.end
      ELSE v.active = u.active
  <2>1. b.active = u.active /\ b.cur = u.cur  BY <1>1, <1>4, <1>5
  <2> DEFINE c == [b.active EXCEPT !.stage = "admitted", !.turn = u.job]
  <2>2. [b EXCEPT !.active.stage = "admitted", !.active.turn = u.job].active = c
    BY <1>5 DEF Threads
  <2>3. c.stage = "admitted" /\ c.turn = u.job /\ c.on = u.active.on /\ c.entry = u.active.entry
        /\ c.end = u.active.end
    BY <1>0, <2>1 DEF Actives
  <2> HIDE DEF c
  <2> QED  BY <1>3, <2>1, <2>2, <2>3
<1>8. /\ v.items = u.items /\ v.phase = "live" /\ v.turn = u.job
      /\ v.job = u.job /\ v.late = u.late /\ v.slot = u.slot /\ v.restarts = u.restarts
      /\ v.cur = u.cur /\ v.status = u.status /\ v.res = u.res
  BY <1>1, <1>4, <1>5, <1>6
<1>9. u.job # None /\ u.active.stage \in Stages  BY <1>0 DEF Believes, Actives
<1>10. ~Has(u, "restarting") /\ ~Has(u, "starting")  BY <1>0 DEF Conn, Restarting, Up
<1>11. u.active.stage = "sent" => u.active.entry = u.job /\ u.active.on = u.cur
  BY <1>0, <1>10 DEF Conn, Owed, Provider
<1>12. Loss(v, Y, M)
  <2>1. v.active.stage # "sent"  BY <1>7, <1>11
  <2>2. Pending(v) = Pending(u)  BY <1>7, <1>8 DEF Pending
  <2>3. Y \subseteq Safe(v)
    <3>1. Y \subseteq Safe(u) \ {u.job}  BY <1>0 DEF Loss
    <3>2. Safe(u) \ {u.job} \subseteq ToSet(u.items)  BY <1>11 DEF Safe
    <3> QED  BY <1>8, <3>1, <3>2 DEF Safe
  <2>4. M \cap Pending(v) = {} /\ v.job \notin Pending(v)  BY <1>0, <1>8, <2>2 DEF Loss
  <2>5. v.active.stage # "none" /\ v.active.entry \in M
          => v.active.stage = "admitted" /\ v.active.turn # None
    <3> SUFFICES ASSUME v.active.stage # "none", v.active.entry \in M
                 PROVE  v.active.stage = "admitted" /\ v.active.turn # None
      OBVIOUS
    <3>1. CASE u.active.stage \in {"sent", "admitted"} /\ u.active.on = u.cur  BY <1>7, <1>9, <3>1
    <3>2. CASE ~(u.active.stage \in {"sent", "admitted"} /\ u.active.on = u.cur)
      <4>1. v.active = u.active  BY <1>7, <3>2
      <4>2. u.active.stage \in {"sent", "preparing", "admitted"}  BY <1>9, <4>1 DEF Stages
      <4>3. u.active.entry # u.job  BY <1>0, <3>2, <4>1, <4>2 DEF Loss, Pending
      <4> QED  BY <1>0, <4>1, <4>3 DEF Loss
    <3> QED  BY <3>1, <3>2
  <2>6. v.active.stage # "none" /\ v.active.entry = v.job => v.active.on = v.cur
    BY <1>0, <1>7, <1>8 DEF Loss
  <2>7. v.active.stage = "admitted" => v.active.entry \notin Y
    BY <1>0, <1>7, <1>11 DEF Loss
  <2>8. v.active.stage \in {"sent", "preparing"} => v.active.end = "none"
    BY <1>0, <1>7 DEF Loss
  <2> QED  BY <2>1, <2>3, <2>4, <2>5, <2>6, <2>7, <2>8 DEF Loss
<1>13. /\ Has(v, "direct") <=> Has(u, "direct")
       /\ Has(v, "awaiting") <=> Has(u, "awaiting")
       /\ Has(v, "dead") <=> Has(u, "dead")
       /\ Has(v, "restarting") <=> Has(u, "restarting")
       /\ Has(v, "starting") <=> Has(u, "starting")
       /\ ~Has(v, "done")
       /\ Has(v, "completed") => Has(u, "completed")
  BY <1>1, <1>5, <1>6 DEF Has
<1>14. ~Has(v, "completed")
  <2> SUFFICES ASSUME "completed" \in u.flags, Has(v, "completed") PROVE FALSE  BY <1>13 DEF Has
  <2>1. Has(u, "direct") /\ n  BY <1>0 DEF Believes
  <2>2. ~Has(u, "awaiting")  BY <1>0, <2>1 DEF Believes
  <2>3. "direct" \in a.flags /\ "awaiting" \notin a.flags  BY <1>1, <2>1, <2>2 DEF Has
  <2>4. "completed" \notin b.flags  BY <1>5, <2>3
  <2> QED  BY <1>6, <2>4 DEF Has
<1>15. v.active.stage = "none" <=> u.active.stage = "none"  BY <1>7
<1>16. v.active.stage \in {"none", "preparing"} <=> u.active.stage \in {"none", "preparing"}
  BY <1>7
<1>17. Believes(v, G, n)
  <2>1. v.flags \cap {"done", "completed"} = {}  BY <1>13, <1>14 DEF Has
  <2>2. v.late # None => v.late \notin {v.job, v.turn} /\ v.active.stage \in {"none", "preparing"}
    BY <1>0, <1>8, <1>16 DEF Believes
  <2>3. v.active.stage # "none" /\ v.active.on = v.cur => v.active.end = "none"
    BY <1>0, <1>7, <1>8 DEF Believes
  <2>4. v.flags \cap {"awaiting", "completed"} # {} => Has(v, "direct")
    BY <1>0, <1>13, <1>14 DEF Believes, Has
  <2>5. n => ~Has(v, "awaiting") /\ v.slot = None  BY <1>0, <1>8, <1>13 DEF Believes
  <2>6. v.slot # None => {"direct", "awaiting"} \subseteq v.flags /\ v.active.stage \in {"none", "preparing"}
    BY <1>0, <1>8, <1>13, <1>16 DEF Believes, Has
  <2>7. v.active.stage = "preparing" => Has(v, "direct")
    BY <1>0, <1>7, <1>13 DEF Believes
  <2>8. v.res = 0 => G = {}  BY <1>0, <1>8 DEF Believes
  <2> QED  BY <1>8, <1>9, <2>1, <2>2, <2>3, <2>4, <2>5, <2>6, <2>7, <2>8 DEF Believes
<1>18. Conn(v)
  <2>1. v.active.stage # "sent"  BY <1>7, <1>11
  <2>2. Up(v)  BY <1>8, <1>13 DEF Up
  <2>3. Restarting(v)  BY <1>0, <1>8, <1>10, <1>13 DEF Conn, Restarting
  <2> QED  BY <1>8, <1>10, <1>13, <2>1, <2>2, <2>3 DEF Conn, Owed
<1>19. NoDispatch(u, v) /\ Stays(u, v)  BY <1>7, <1>8, <1>13 DEF NoDispatch, Stays
<1> QED  BY <1>12, <1>17, <1>18, <1>19 DEF Core

LEMMA StartDirectCore ==
    ASSUME NEW w, NEW X, NEW N, NEW G, NEW n, NEW d \in Inputs,
           Holds(w, w), Loss(w, X, N), Has(w, "direct"), w.active.stage \in {"none", "preparing"},
           w.phase \in {"none", "done"} => w.late = None,
           w.phase \notin {"none", "done"} => w.job \notin {d, None},
           w.slot = None, Up(w), ~Has(w, "restarting"), ~Has(w, "starting"),
           \A i \in DOMAIN w.restarts : w.restarts[i].job \in Inputs,
           w.res = 0 => G = {}
    PROVE  Core(StartDirect(w, d), X, N, G, n) /\ NoDispatch(w, StartDirect(w, d))
           /\ StartDirect(w, d).res = w.res /\ Stays([w EXCEPT !.job = d], StartDirect(w, d))
<1> DEFINE a == Off(w, {"awaiting", "completed", "done"})
           b == [a EXCEPT !.turn = None]
           c == On(Off(b, {"launch"}), {"quiet"})
           z == StartDirect(w, d)
           l == IF b.phase \in {"none", "done"} THEN c.late ELSE b.job
<1>0. w \in Threads /\ w.items \in Seq(Entries)  BY SoundTyped
<1>1. Holds(w, z)  BY StartDirectHolds
<1>2. Good(z) /\ z \in Threads /\ z.res = w.res  BY <1>1, SoundTyped DEF Holds, Sound
<1>3. /\ a \in Threads /\ a.active = w.active /\ a.items = w.items /\ a.phase = w.phase /\ a.job = w.job
      /\ a.late = w.late /\ a.slot = w.slot /\ a.restarts = w.restarts /\ a.cur = w.cur
      /\ a.flags = w.flags \ {"awaiting", "completed", "done"}
  BY <1>0 DEF Off, Threads
<1> HIDE DEF a
<1>4. /\ b \in Threads /\ b.active = w.active /\ b.items = w.items /\ b.phase = w.phase /\ b.job = w.job
      /\ b.late = w.late /\ b.slot = w.slot /\ b.restarts = w.restarts /\ b.cur = w.cur
      /\ b.flags = a.flags /\ b.turn = None
  BY <1>3 DEF Threads
<1>5. NoteDirectTurn(w) = b  BY DEF NoteDirectTurn, a
<1> HIDE DEF b
<1>6. /\ c \in Threads /\ c.active = w.active /\ c.items = w.items /\ c.turn = None
      /\ c.late = w.late /\ c.slot = w.slot /\ c.restarts = w.restarts /\ c.cur = w.cur
      /\ c.flags = (b.flags \ {"launch"}) \cup {"quiet"}
  <2>1. (b.flags \ {"launch"}) \cup {"quiet"} \in SUBSET Flags  BY <1>4 DEF Threads, Flags
  <2> QED  BY <1>4, <2>1 DEF On, Off, Threads
<1>7. z = [c EXCEPT !.status = "working", !.job = d, !.phase = "setup", !.late = l]
  BY <1>5 DEF StartDirect, Start
<1> HIDE DEF c, l
<1>8. /\ z.active = w.active /\ z.items = w.items /\ z.turn = None /\ z.slot = None
      /\ z.restarts = w.restarts /\ z.cur = w.cur /\ z.flags = c.flags
      /\ z.status = "working" /\ z.job = d /\ z.phase = "setup" /\ z.late = l
  BY <1>6, <1>7 DEF Threads
<1> HIDE DEF z
<1>9. d \notin ToSet(w.items) /\ d \notin Entries /\ d # None
  <2>1. \A i \in DOMAIN w.items : w.items[i] \in Entries  BY <1>0, ElementOfSeq, LenProperties
  <2> QED  BY <2>1, NamesAssumption DEF ToSet
<1>10. w.active.stage # "none" => w.active.entry # d
  BY <1>9 DEF Holds, Sound, Good, Once
<1>11. Loss(z, X, N)  BY <1>8, <1>9, <1>10 DEF Loss, Safe, Pending
<1>12. ~Has(z, "awaiting") /\ ~Has(z, "completed") /\ ~Has(z, "done") /\ Has(z, "direct")
       /\ ~Has(z, "restarting") /\ ~Has(z, "starting") /\ (Has(z, "dead") <=> Has(w, "dead"))
  BY <1>3, <1>4, <1>6, <1>8 DEF Has
<1>13. l # None => l \notin {d, None}
  <2>1. l = IF w.phase \in {"none", "done"} THEN w.late ELSE w.job  BY <1>4, <1>6 DEF l
  <2> QED  BY <2>1
<1>14. Believes(z, G, n)
  <2>1. z.flags \cap {"done", "completed"} = {} /\ z.flags \cap {"awaiting", "completed"} = {}
    BY <1>12 DEF Has
  <2>2. w.active.stage = "preparing" => w.active.end = "none"  BY DEF Loss
  <2> QED  BY <1>2, <1>8, <1>9, <1>12, <1>13, <2>1, <2>2 DEF Believes
<1>15. Conn(z)
  <2>1. Up(z)  BY <1>8, <1>12 DEF Up
  <2>2. Restarting(z)  BY <1>8, <1>12 DEF Restarting
  <2> QED  BY <1>8, <1>9, <1>12, <2>1, <2>2 DEF Conn, Owed
<1>16. Stays([w EXCEPT !.job = d], z)
  <2> DEFINE x == [w EXCEPT !.job = d]
  <2>1. /\ x.cur = w.cur /\ x.active = w.active /\ x.restarts = w.restarts /\ x.flags = w.flags
        /\ x.slot = w.slot /\ x.job = d
    BY <1>0 DEF Threads
  <2> HIDE DEF x
  <2> QED  BY <1>8, <1>12, <2>1 DEF Stays, Has
<1> QED  BY <1>2, <1>8, <1>11, <1>14, <1>15, <1>16 DEF Core, NoDispatch, z

\* A message is dispatched only into quiet.
LEMMA DispatchCore ==
    ASSUME NEW w, NEW X, NEW N, NEW H, NEW n, Core(w, X, N, H, n), w.active.stage = "preparing",
           StillDeliverable(w), w.restarts = <<>>
    PROVE  Core(Dispatch(w), X, N, H, n) /\ w.phase \in {"none", "done"} /\ ~Has(w, "asks")
           /\ w.res = 0
<1> DEFINE e == w.active.entry
           c == [w.active EXCEPT !.stage = "sent"]
           a == [w EXCEPT !.items = Tail(@), !.active.stage = "sent"]
           y == Drop(w)
<1>0. /\ Good(w) /\ Loss(w, X, N) /\ Believes(w, H, n) /\ Conn(w) /\ Holds(w, w) /\ w \in Threads
      /\ w.items \in Seq(Entries) /\ IsInjective(w.items) /\ w.active \in Actives /\ Once(w)
  BY CoreHolds DEF Core, Good, Once, Threads
<1>1. /\ y.items = w.items /\ y.flags = w.flags /\ y.phase = w.phase /\ y.cur = w.cur /\ y.res = w.res
      /\ y.late = w.late /\ y.turn = w.turn
  BY <1>0 DEF Drop, Threads
<1>2. w.items # <<>> /\ Head(w.items) = e /\ w.active.on = w.cur /\ CanDeliver(y)
  BY <1>1 DEF StillDeliverable, CanDeliver
<1>3. Good(y) /\ Believes(y, H, n)
  <2>1. Serves(w, w, X, N, H, n)  BY <1>0, ServesItself
  <2>2. Serves(w, y, X, N, H, n)  BY <2>1, ServesDrop
  <2> QED  BY <2>2 DEF Serves
<1>4. /\ w.phase \in {"none", "done"} /\ H = {} /\ ~Has(w, "direct") /\ ~Has(w, "asks")
      /\ w.cur # 0 /\ w.late = None
  BY <1>1, <1>2, <1>3, ReadyIsQuiet DEF Has
<1>5. w.res = 0 /\ w.turn = None /\ "done" \notin w.flags  BY <1>1, <1>2 DEF CanDeliver, Ready
<1>6. w.flags \cap {"awaiting", "completed"} = {}  BY <1>0, <1>4 DEF Believes
<1>7. ~Has(w, "restarting")  BY <1>0 DEF Conn, Restarting
<1> HIDE DEF y
<1>8. /\ Tail(w.items) \in Seq(Entries) /\ IsInjective(Tail(w.items)) /\ e \in Entries
      /\ ToSet(Tail(w.items)) \subseteq ToSet(w.items) /\ e \notin ToSet(Tail(w.items))
      /\ ToSet(w.items) = ToSet(Tail(w.items)) \cup {e}
  <2>1. /\ Tail(w.items) \in Seq(Entries) /\ IsInjective(Tail(w.items)) /\ e \in Entries
        /\ ToSet(Tail(w.items)) \subseteq ToSet(w.items) /\ e \in ToSet(w.items)
        /\ e \notin ToSet(Tail(w.items))
    BY <1>0, <1>2, Tailed
  <2>2. ToSet(w.items) \subseteq ToSet(Tail(w.items)) \cup {e}
    <3> SUFFICES ASSUME NEW i \in DOMAIN w.items
                 PROVE  w.items[i] = e \/ \E k \in DOMAIN Tail(w.items) : w.items[i] = Tail(w.items)[k]
      BY DEF ToSet
    <3>1. /\ Len(Tail(w.items)) = Len(w.items) - 1
          /\ \A k \in 1 .. Len(Tail(w.items)) : Tail(w.items)[k] = w.items[k + 1]
      BY <1>0, <1>2, HeadTailProperties
    <3>2. DOMAIN w.items = 1 .. Len(w.items) /\ Len(w.items) \in Nat
          /\ DOMAIN Tail(w.items) = 1 .. Len(Tail(w.items)) /\ w.items[1] = e
      BY <1>0, <1>2, <2>1, LenProperties
    <3>3. CASE i = 1  BY <3>2, <3>3
    <3>4. CASE i # 1
      <4>1. i - 1 \in 1 .. Len(w.items) - 1 /\ (i - 1) + 1 = i  BY <3>2, <3>4
      <4>2. i - 1 \in DOMAIN Tail(w.items) /\ Tail(w.items)[i - 1] = w.items[i]
        BY <3>1, <3>2, <4>1
      <4> QED  BY <4>2
    <3> QED  BY <3>3, <3>4
  <2> QED  BY <2>1, <2>2
<1>9. /\ c.entry = e /\ c.stage = "sent" /\ c.on = w.cur /\ c.turn = None /\ c.end = "none"
  <2>1. w.active.turn = None /\ w.active.end = "none"  BY <1>0 DEF Loss, Once
  <2> QED  BY <1>0, <1>2, <2>1 DEF Actives
<1>10. a = [w EXCEPT !.items = Tail(w.items), !.active = c]  BY <1>0 DEF Threads, Actives
<1> HIDE DEF c
<1>11. /\ a.items = Tail(w.items) /\ a.active = c /\ a.flags = w.flags /\ a.cur = w.cur
       /\ a.phase = w.phase /\ a.job = w.job /\ a.late = w.late /\ a.slot = w.slot
       /\ a.turn = None /\ a.status = w.status /\ a.res = w.res /\ a.restarts = w.restarts
  BY <1>0, <1>5, <1>10 DEF Threads
<1>12. Good(Dispatch(w))
  <2>1. Holds(w, Dispatch(w))  BY <1>0, <1>2, DispatchHolds
  <2> QED  BY <2>1 DEF Holds, Sound
<1>13. e \notin N /\ X \subseteq ToSet(w.items) /\ w.job \notin ToSet(w.items) /\ N \cap ToSet(w.items) = {}
  BY <1>0 DEF Loss, Safe, Pending
<1>14. w.active.stage # "none" /\ e # None  BY <1>8, NamesAssumption
<1>15. CASE Has(a, "dead")
  <2> DEFINE o == On(a, {"replacing", "restarting"})
             v == [o EXCEPT !.restarts = Append(@, [job |-> e, on |-> a.cur])]
  <2>1. Dispatch(w) = v  BY <1>15 DEF Dispatch, a
  <2>2. v \in Threads  BY <1>12, <2>1 DEF Good
  <2>3. DOMAIN a = DOMAIN w  BY <1>10
  <2> HIDE DEF a
  <2>4. /\ v.items = a.items /\ v.active = a.active /\ v.flags = a.flags \cup {"replacing", "restarting"}
        /\ v.cur = a.cur /\ v.phase = a.phase /\ v.job = a.job /\ v.late = a.late /\ v.slot = a.slot
        /\ v.turn = a.turn /\ v.status = a.status /\ v.res = a.res
        /\ v.restarts = Append(a.restarts, [job |-> e, on |-> a.cur])
    BY <1>0, <2>3 DEF On, Threads
  <2> HIDE DEF v, o
  <2>5. ~Up(w) /\ ~Up(v) /\ Has(w, "dead")  BY <1>11, <1>15, <2>4 DEF Up, Has
  <2>6. w.job = None /\ w.phase = "none" /\ w.late = None /\ w.status # "working"
    BY <1>0, <2>5 DEF Conn, Believes
  <2>7. Loss(v, X, N)
    <3>1. Safe(v) = ToSet(w.items) /\ Pending(v) = ToSet(Tail(w.items))
      BY <1>8, <1>9, <1>11, <2>4 DEF Safe, Pending
    <3> QED  BY <1>8, <1>9, <1>11, <1>13, <1>14, <2>4, <2>6, <3>1 DEF Loss
  <2>8. \A g : g \notin {"replacing", "restarting"} => (Has(v, g) <=> Has(w, g))
    BY <1>11, <2>4 DEF Has
  <2>9. Believes(v, H, n)
    <3>1. v.flags \cap {"awaiting", "completed"} = {}  BY <1>6, <1>11, <2>4
    <3> QED  BY <1>0, <1>4, <1>9, <1>11, <2>4, <2>5, <2>6, <2>8, <3>1 DEF Believes
  <2>10. Restarting(v)
    <3>1. v.restarts = <<[job |-> e, on |-> w.cur]>>  BY <1>11, <2>4
    <3>2. Has(v, "restarting")  BY <2>4 DEF Has
    <3> QED  BY <1>9, <1>11, <2>4, <2>5, <3>1, <3>2 DEF Restarting
  <2>11. Conn(v)
    <3>1. v.flags \cap {"direct", "asks"} = {} /\ Has(v, "restarting")
      BY <1>4, <1>11, <2>4 DEF Has
    <3>2. ~Has(v, "starting")
      <4>1. ~Has(w, "starting")  BY <1>0, <1>4 DEF Conn
      <4> QED  BY <2>8, <4>1
    <3> QED  BY <1>11, <2>4, <2>6, <2>10, <3>1, <3>2, NamesAssumption DEF Conn, Owed
  <2> QED  BY <1>4, <1>5, <1>12, <2>1, <2>7, <2>9, <2>11 DEF Core
<1>16. CASE ~Has(a, "dead")
  <2> DEFINE o == On(Off(a, {"launch"}), {"quiet"})
             l == IF a.phase \in {"none", "done"} THEN o.late ELSE a.job
             v == [o EXCEPT !.status = "working", !.job = e, !.phase = "setup", !.late = l]
  <2>1. Dispatch(w) = v  BY <1>16 DEF Dispatch, Start, a
  <2>3. DOMAIN a = DOMAIN w  BY <1>10
  <2> HIDE DEF a
  <2>4. /\ o.items = a.items /\ o.active = a.active /\ o.flags = (a.flags \ {"launch"}) \cup {"quiet"}
        /\ o.cur = a.cur /\ o.late = a.late /\ o.slot = a.slot
        /\ o.turn = a.turn /\ o.res = a.res /\ o.restarts = a.restarts /\ DOMAIN o = DOMAIN w
    BY <1>0, <2>3 DEF On, Off, Threads
  <2> HIDE DEF o
  <2>5. /\ v.items = a.items /\ v.active = a.active /\ v.flags = (a.flags \ {"launch"}) \cup {"quiet"}
        /\ v.cur = a.cur /\ v.slot = a.slot /\ v.turn = a.turn /\ v.res = a.res /\ v.restarts = a.restarts
        /\ v.phase = "setup" /\ v.job = e /\ v.status = "working" /\ v.late = l
    BY <1>0, <2>4 DEF Threads
  <2>6. l = None  BY <1>4, <1>11, <2>4
  <2> HIDE DEF v, l
  <2>7. Loss(v, X, N)
    <3>1. Safe(v) = ToSet(w.items) /\ Pending(v) = ToSet(Tail(w.items))
      BY <1>8, <1>9, <1>11, <2>5 DEF Safe, Pending
    <3> QED  BY <1>8, <1>9, <1>11, <1>13, <1>14, <2>5, <3>1 DEF Loss
  <2>8. \A g : g \notin {"launch", "quiet"} => (Has(v, g) <=> Has(w, g))
    BY <1>11, <2>5 DEF Has
  <2>9. Up(v) /\ Up(w) /\ Has(v, "quiet")  BY <1>4, <1>11, <1>16, <2>5 DEF Up, Has
  <2>10. v.slot = None
    <3>1. w.slot = None  BY <1>0, <1>4, <2>9 DEF Believes, Has
    <3> QED  BY <1>11, <2>5, <3>1
  <2>11. v.flags \cap {"direct", "asks", "awaiting", "completed", "done"} = {}
    BY <1>4, <1>5, <1>6, <1>11, <2>5 DEF Has
  <2>12. Believes(v, H, n)
    BY <1>4, <1>9, <1>11, <1>14, <2>5, <2>6, <2>10, <2>11 DEF Believes, Has
  <2>13. Conn(v)
    <3>1. Provider(v)  BY <1>9, <1>11, <2>5, <2>6, <2>9 DEF Provider
    <3>2. Restarting(v)  BY <1>0, <1>7, <1>11, <2>5, <2>8 DEF Conn, Restarting
    <3>3. ~Has(v, "starting")
      <4>1. ~Has(w, "starting")  BY <1>0, <1>4 DEF Conn
      <4> QED  BY <2>8, <4>1
    <3> QED  BY <2>9, <2>11, <3>1, <3>2, <3>3 DEF Conn, Owed, Has
  <2> QED  BY <1>4, <1>5, <1>12, <2>1, <2>7, <2>12, <2>13 DEF Core
<1> QED  BY <1>15, <1>16

\* What a new session finds, and what waits for it.
Attaches(w, s, v, X, N, n) ==
    /\ Good(v) /\ Loss(v, X, N) /\ Believes(v, {}, n)
    /\ v.phase = "none" /\ v.job = None /\ v.late = None /\ v.slot = None
    /\ v.cur = sessions + 1 /\ v.status = s /\ v.restarts = w.restarts /\ v.res = w.res
    /\ v.flags \cap {"awaiting", "completed", "asks", "done", "dead", "quiet", "starting",
                     "restarting"} = {}
    /\ Has(v, "direct") => Has(w, "direct")
    /\ w.active.stage = "sent"
         => /\ v.active.stage = "sent" /\ v.active.entry = w.active.entry
            /\ v.active.on = v.cur /\ v.active.turn = None /\ v.active.end = "none"
    /\ w.active.stage # "sent" => v.active.stage \in {"none", "preparing"}
    /\ s = "working" => v.active.stage # "preparing"
    /\ v.active.on \in {0, w.active.on, v.cur}

\* A new session takes the thread over. What was not admitted waits again, but for the
\* message a restart was made for.
LEMMA AttachCore ==
    ASSUME NEW w, NEW X, NEW N, NEW H, NEW n, Holds(w, w), Loss(w, X, N), Believes(w, H, n),
           NEW s \in {"idle", "working"}, sessions \in Nat,
           w.active.stage # "none" => w.active.on <= sessions,
           Has(w, "restarting") <=> w.active.stage = "sent",
           NEW v, v = Attach(w, s)
    PROVE  Attaches(w, s, v, X, N, n)
<1> DEFINE c == sessions + 1
           y == Off(w, {"dead", "quiet", "stop", "starting", "launch"})
           z == [Silent(y) EXCEPT !.cur = c, !.status = s, !.slot = None]
           F == {"replacing", "awaiting", "completed", "asks"}
           a == IF z.active.stage = "none" \/ z.active.on = z.cur THEN z
                ELSE IF Has(z, "restarting") THEN Off(Rebind(z), {"restarting"})
                ELSE EmitState(DropOrRestore(z, z.active.turn # None))
           r == Schedule(ResetTurn(Off(a, F)))
<1>0. w \in Threads /\ Good(w) /\ Once(w) /\ w.active \in Actives /\ w.items \in Seq(Entries)
  BY SoundTyped DEF Holds, Sound, Good, Threads
<1>1. v = r  BY DEF Attach, OnSessionAttached
<1>2. /\ y \in Threads /\ y.items = w.items /\ y.active = w.active /\ y.turn = w.turn
      /\ y.restarts = w.restarts /\ y.res = w.res /\ y.pump = w.pump
      /\ y.flags = w.flags \ {"dead", "quiet", "stop", "starting", "launch"}
  BY <1>0 DEF Off, Threads
<1> HIDE DEF y
<1>3. /\ z \in Threads /\ z.items = w.items /\ z.active = w.active /\ z.turn = w.turn
      /\ z.restarts = w.restarts /\ z.res = w.res /\ z.flags = y.flags
      /\ z.phase = "none" /\ z.job = None /\ z.late = None /\ z.slot = None /\ z.cur = c
      /\ z.status = s
  <2>1. c \in Nat /\ s \in {"idle", "working", "error", "inactive"}  OBVIOUS
  <2> HIDE DEF c
  <2>2. Silent(y) \in Threads  BY <1>2 DEF Silent, Threads
  <2>3. /\ Silent(y).items = y.items /\ Silent(y).active = y.active /\ Silent(y).turn = y.turn
        /\ Silent(y).restarts = y.restarts /\ Silent(y).res = y.res /\ Silent(y).flags = y.flags
        /\ Silent(y).phase = "none" /\ Silent(y).job = None /\ Silent(y).late = None
    BY <1>2 DEF Silent, Threads
  <2>4. z \in Threads  BY <2>1, <2>2 DEF Threads
  <2>5. /\ z.items = Silent(y).items /\ z.active = Silent(y).active /\ z.turn = Silent(y).turn
        /\ z.restarts = Silent(y).restarts /\ z.res = Silent(y).res /\ z.flags = Silent(y).flags
        /\ z.phase = Silent(y).phase /\ z.job = Silent(y).job /\ z.late = Silent(y).late
        /\ z.slot = None /\ z.cur = c /\ z.status = s
    BY <2>2 DEF Threads
  <2> QED  BY <1>2, <2>3, <2>4, <2>5
<1>4. c \in Nat \ {0} /\ (w.active.stage # "none" => w.active.on # c)
  <2>1. w.active.on \in Nat  BY <1>0 DEF Actives
  <2> QED  BY <2>1
<1> HIDE DEF z, c
<1>5. \A g : g \notin {"dead", "quiet", "stop", "starting", "launch"} => (Has(z, g) <=> Has(w, g))
  BY <1>2, <1>3 DEF Has
<1>6. z.flags \cap {"dead", "quiet", "starting"} = {}  BY <1>2, <1>3
<1>7. Good(z)  BY <1>0, <1>3 DEF Good, Once
<1>8. None \notin ToSet(w.items) /\ (w.active.stage # "none" => w.active.entry # None)
  <2>1. \A i \in DOMAIN w.items : w.items[i] \in Entries  BY <1>0, ElementOfSeq, LenProperties
  <2> QED  BY <1>0, <2>1, NamesAssumption DEF ToSet, Once
<1>9. Loss(z, X, N)  BY <1>3, <1>8 DEF Loss, Safe, Pending
<1>10. Believes(z, {}, n)
  <2>1. n => ~Has(z, "awaiting")  BY <1>5 DEF Believes
  <2>2. z.flags \cap {"awaiting", "completed"} # {} => Has(z, "direct")
    BY <1>5 DEF Believes, Has
  <2> QED  BY <1>3, <2>1, <2>2 DEF Believes
<1>11. CASE w.active.stage = "sent"
  <2> DEFINE b == [z.active EXCEPT !.on = c, !.turn = None, !.end = "none"]
             q == [z EXCEPT !.active = b]
             x == Off(q, {"restarting"})
             p == ResetTurn(Off(x, F))
  <2>1. b \in Actives /\ b.entry = w.active.entry /\ b.stage = "sent" /\ b.on = c /\ b.turn = None
        /\ b.end = "none"
    BY <1>0, <1>3, <1>4, <1>11 DEF Actives
  <2>2. Rebind(z) = q  BY <1>3 DEF Rebind, Threads, Actives
  <2>3. a = x  BY <1>3, <1>4, <1>5, <1>11, <2>2
  <2> HIDE DEF a, b
  <2>4. /\ q \in Threads /\ q.items = w.items /\ q.active = b /\ q.flags = z.flags /\ q.turn = z.turn
        /\ q.restarts = w.restarts /\ q.res = w.res /\ q.phase = "none" /\ q.job = None
        /\ q.late = None /\ q.slot = None /\ q.cur = c /\ q.status = s
    BY <1>3, <2>1 DEF Threads
  <2> HIDE DEF q
  <2>5. /\ x \in Threads /\ x.items = w.items /\ x.active = b /\ x.turn = z.turn
        /\ x.restarts = w.restarts /\ x.res = w.res /\ x.phase = "none" /\ x.job = None
        /\ x.late = None /\ x.slot = None /\ x.cur = c /\ x.status = s
        /\ x.flags = z.flags \ {"restarting"}
    BY <2>4 DEF Off, Threads
  <2> HIDE DEF x
  <2>6. Good(x)  BY <1>0, <1>11, <2>1, <2>5 DEF Good, Once
  <2>7. Loss(x, X, N)  BY <1>8, <1>9, <1>3, <1>11, <2>1, <2>5 DEF Loss, Safe, Pending
  <2>8. Believes(x, {}, n)
    <3>1. \A g : g # "restarting" => (Has(x, g) <=> Has(z, g))  BY <2>5 DEF Has
    <3>2. x.flags \cap {"awaiting", "completed"} = z.flags \cap {"awaiting", "completed"}  BY <2>5
    <3> QED  BY <1>10, <2>1, <2>5, <3>1, <3>2 DEF Believes
  <2>9. Serves(x, p, X, N, {}, n)
    <3>1. Serves(x, x, X, N, {}, n)  BY <2>6, <2>7, <2>8, ServesItself
    <3>2. Serves(x, Off(x, F), X, N, {}, n)  BY <2>5, <3>1, ServesOff DEF SessionFlags
    <3>3. Off(x, F).phase = "none"  BY <2>5, <3>1, <3>2, ServedSame
    <3> QED  BY <3>2, <3>3, ServesReset
  <2>10. Serves(x, r, X, N, {}, n)  BY <2>3, <2>9, ServesSchedule
  <2>11. p \in Threads /\ p.active = b /\ p.flags = (x.flags \ F) \ {"done"}
    <3>1. Off(x, F) \in Threads  BY <2>5 DEF Off, Threads
    <3> QED  BY <2>5, <2>9, <3>1, FlagsOff, FlagsReset DEF Serves, Good
  <2>12. r = Schedule(p)  BY <2>3
  <2> HIDE DEF p, r
  <2>13. r.active = b /\ r.flags \subseteq p.flags \cup {"again"}
    BY <2>1, <2>11, <2>12, ScheduleStays
  <2>14. r.flags \cap {"awaiting", "completed", "asks", "done", "dead", "quiet", "starting", "restarting"} = {}
    BY <1>6, <2>5, <2>11, <2>13
  <2>15. Has(r, "direct") => Has(w, "direct")
    <3>1. Has(r, "direct") => Has(z, "direct")  BY <2>5, <2>11, <2>13 DEF Has
    <3> QED  BY <1>5, <3>1
  <2>16. /\ r.phase = x.phase /\ r.job = x.job /\ r.late = x.late /\ r.slot = x.slot /\ r.cur = x.cur
         /\ r.status = x.status /\ r.restarts = x.restarts /\ r.res = x.res
    BY <2>10 DEF Serves, Tame, Same
  <2>17. Good(r) /\ Loss(r, X, N) /\ Believes(r, {}, n)  BY <2>10 DEF Serves
  <2> QED  BY <1>1, <1>11, <2>1, <2>5, <2>13, <2>14, <2>15, <2>16, <2>17 DEF c, Attaches
<1>12. CASE w.active.stage # "sent"
  <2> DEFINE d == DropOrRestore(z, z.active.turn # None)
  <2>1. Serves(z, z, X, N, {}, n)  BY <1>7, <1>9, <1>10, ServesItself
  <2>2. z.active.stage # "none" => Serves(z, d, X, N, {}, n) /\ d.active.stage = "none"
    <3>1. Serves(z, Drop(z), X, N, {}, n) /\ Drop(z).active = NoActive
      BY <1>3, <1>12, <2>1, ServesDrop
    <3>2. z.active.turn = None => Serves(z, Restore(z), X, N, {}, n) /\ Restore(z).active = NoActive
      BY <1>3, <1>8, <1>12, <2>1, ServesRestore
    <3> QED  BY <3>1, <3>2 DEF DropOrRestore, NoActive
  <2> HIDE DEF d
  <2>3. Serves(z, a, X, N, {}, n) /\ a.active.stage = "none"
    <3>1. CASE z.active.stage = "none"  BY <2>1, <3>1
    <3>2. CASE z.active.stage # "none"
      <4>1. ~Has(z, "restarting") /\ z.active.on # z.cur  BY <1>3, <1>4, <1>5, <1>12, <3>2
      <4>2. a = EmitState(d)  BY <3>2, <4>1 DEF d
      <4>3. d \in Threads  BY <2>2, <3>2 DEF Serves, Good
      <4>4. EmitState(d).active = d.active  BY <4>3, FlagsEmit
      <4>5. Serves(z, EmitState(d), X, N, {}, n)  BY <2>2, <3>2, ServesEmit
      <4> QED  BY <2>2, <3>2, <4>2, <4>4, <4>5
    <3> QED  BY <3>1, <3>2
  <2> HIDE DEF a
  <2> DEFINE o == Off(a, F)
             p == ResetTurn(o)
  <2>4. a.slot = None /\ a.phase = "none" /\ a \in Threads  BY <1>3, <2>1, <2>3, ServedSame
  <2>5. Serves(z, o, X, N, {}, n)  BY <2>3, <2>4, ServesOff DEF SessionFlags
  <2>6. o.phase = "none" /\ o \in Threads  BY <2>3, <2>4, <2>5, ServedSame
  <2>7. Serves(z, p, X, N, {}, n)  BY <2>5, <2>6, ServesReset
  <2>8. Serves(z, r, X, N, {}, n)  BY <2>7, ServesSchedule
  <2>9. o.active = a.active /\ o.flags = a.flags \ F  BY <2>4, FlagsOff
  <2> HIDE DEF o
  <2>10. p.active = o.active /\ p.flags = o.flags \ {"done"} /\ p \in Threads
    BY <2>6, <2>7, FlagsReset DEF Serves, Good
  <2>11. r = Schedule(p)  BY DEF o
  <2> HIDE DEF p, r
  <2>12. r.flags \subseteq p.flags \cup {"again"} /\ r.active.stage \in {"none", "preparing"}
         /\ (s = "working" => r.active.stage # "preparing")
    <3> DEFINE e == [p EXCEPT !.pump = "ending"]
               k == [NoActive EXCEPT !.entry = Head(p.items), !.on = p.cur, !.stage = "preparing"]
               f == [p EXCEPT !.pump = "preparing", !.active = k]
               g == On(p, {"again"})
    <3>1. p.status = s  BY <1>3, <2>1, <2>7, ServedSame
    <3>2. CanDeliver(p) /\ s = "working" => Has(p, "dead")  BY <3>1 DEF CanDeliver, Ready
    <3>3. ~Has(p, "dead")  BY <1>6, <2>7 DEF Serves, Tame, SessionFlags, Has
    <3>4. r = p \/ r = g \/ r = e \/ (r = f /\ s # "working")
      BY <2>11, <3>2, <3>3 DEF Schedule
    <3>5. k.stage = "preparing"  BY DEF NoActive
    <3> HIDE DEF k
    <3>6. g.flags = p.flags \cup {"again"} /\ g.active = p.active  BY <2>10, FlagsOn
    <3>7. e.flags = p.flags /\ e.active = p.active /\ f.flags = p.flags /\ f.active = k
      BY <2>10 DEF Threads
    <3> HIDE DEF e, f, g
    <3> QED  BY <2>3, <2>9, <2>10, <3>4, <3>5, <3>6, <3>7
  <2>13. \A h : h \in r.flags => h = "again" \/ (h \in a.flags /\ h \notin F \cup {"done"})
    BY <2>9, <2>10, <2>12
  <2>14. r.flags \cap {"dead", "quiet", "starting"} = {}
    BY <1>6, <2>8 DEF Serves, Tame, SessionFlags
  <2>15. Has(a, "restarting") => Has(w, "restarting")
    BY <1>5, <2>3 DEF Serves, Tame
  <2>16. r.flags \cap {"awaiting", "completed", "asks", "done", "dead", "quiet", "starting", "restarting"} = {}
    BY <1>12, <2>13, <2>14, <2>15 DEF Has
  <2>17. /\ r.phase = z.phase /\ r.job = z.job /\ r.late = z.late /\ r.slot = z.slot /\ r.cur = z.cur
         /\ r.status = z.status /\ r.restarts = z.restarts /\ r.res = z.res
    BY <2>8 DEF Serves, Tame, Same
  <2>18. Good(r) /\ Loss(r, X, N) /\ Believes(r, {}, n)  BY <2>8 DEF Serves
  <2>19. Has(r, "direct") => Has(w, "direct")
    <3>1. d.flags = z.flags  BY <1>3 DEF d, DropOrRestore, Drop, Restore, Threads
    <3>2. d \in Threads \/ z.active.stage = "none"  BY <2>2 DEF Serves, Good
    <3>3. a.flags \subseteq z.flags
      <4>1. a = z \/ (a = EmitState(d) /\ d \in Threads)
        BY <1>3, <1>4, <1>5, <1>12, <3>2 DEF a, d
      <4>2. d \in Threads => EmitState(d).flags \subseteq d.flags  BY FlagsEmit
      <4> QED  BY <3>1, <4>1, <4>2
    <3>4. Has(r, "direct") => Has(z, "direct")  BY <2>13, <3>3 DEF Has
    <3> QED  BY <1>5, <3>4
  <2>20. r.active.on \in {0, w.active.on, r.cur}  BY <1>3, <2>8, <2>17 DEF Serves, Tame
  <2> QED  BY <1>1, <1>3, <1>12, <2>12, <2>16, <2>17, <2>18, <2>19, <2>20
    DEF c, Attaches
<1> QED  BY <1>11, <1>12

-----------------------------------------------------------------------------
(* The invariant of the behaviours without the four races.                 *)

\* The messages the queue owes, and the direct inputs that wait for the current session.
Due == queued \ (withdrawn \cup begun \cup Steered)
Waiting == {d \in Inputs : Pc(d) = "handed" /\ inputs[d].on = th.cur}
Served == Core(th, Due, ran, Waiting, native)

\* Sessions are numbered as they begin.
Dated == th.cur <= sessions /\ th.active.on <= sessions /\ \A d \in Inputs : inputs[d].on <= sessions

\* A restart belongs to a dead session, and the caller of a direct input waits for it.
Linked(r) ==
    /\ r.on \in 1 .. sessions /\ (r.on = th.cur => Has(th, "dead"))
    /\ r.job \in Inputs => Pc(r.job) = "handed" /\ r.job \notin given /\ inputs[r.job].on = r.on
Restarts ==
    /\ \A i \in DOMAIN th.restarts : Linked(th.restarts[i])
    /\ \A i, k \in DOMAIN th.restarts : th.restarts[i].job = th.restarts[k].job => i = k

\* The provider, the slot and the restarts never have the same input.
Steers ==
    /\ th.job \in Inputs => th.job \in given
    /\ th.slot \in Inputs =>
           /\ th.slot \notin given /\ Pc(th.slot) \in {"handed", "done"}
           /\ \A i \in DOMAIN th.restarts : th.restarts[i].job # th.slot

\* A caller waits until no message is being admitted.
Callers ==
    /\ \A d \in given : Pc(d) \notin {"new", "begun", "waiting", "ready"}
    /\ \A d \in Inputs : /\ Pc(d) \in {"ready", "handed"} => th.active.stage # "sent"
                         /\ Pc(d) = "handed" => th.active.stage # "admitted"

Ran == begun \cup ran \subseteq queued /\ (th.job \in Entries => th.job \in queued)

Links == Dated /\ Restarts /\ Steers /\ Callers /\ Ran
SInv == IInv /\ Served /\ Links

\* The queue owes less, or other callers wait.
LEMMA CoreGives ==
    ASSUME NEW w, NEW X, NEW N, NEW H, NEW n, Core(w, X, N, H, n),
           NEW Y, Y \subseteq X, NEW M, M \subseteq N, NEW G,
           w.phase = "setup" /\ w.job \in H => w.job \in G,
           w.res = 0 => G = {},
           w.active.stage = "preparing" /\ G # {} => Has(w, "direct")
    PROVE  Core(w, Y, M, G, n)
<1>1. Loss(w, Y, M)  BY DEF Core, Loss
<1>2. Believes(w, G, n)  BY DEF Core, Believes
<1> QED  BY <1>1, <1>2 DEF Core

\* What a promotion has taken out of the FIFO stays out.
Onward ==
    \A d \in Inputs : Pc(d) \in {"accepted", "done"} =>
        inputs'[d].pc \in {"accepted", "done"} /\ inputs'[d].entry = inputs[d].entry

LEMMA OwesLess ==
    ASSUME Onward, queued' = queued, withdrawn \subseteq withdrawn', begun \subseteq begun'
    PROVE  Due' \subseteq Due
<1>1. Steered \subseteq Steered'  BY DEF Onward, Steered, Pc
<1> QED  BY <1>1 DEF Due

LEMMA OnwardByOne ==
    ASSUME inputs \in Records, NEW d \in Inputs, Pc(d) \notin {"accepted", "done"}, NEW r,
           inputs' = [inputs EXCEPT ![d] = r]
    PROVE  Onward
  BY DEF Onward, Records, Pc

LEMMA OnwardByOutcome ==
    ASSUME NEW D, NEW outcome, inputs' = Resolve(D, outcome)
    PROVE  Onward
  BY DEF Onward, Resolve, Pc

LEMMA NobodyWaits ==
    ASSUME IInv, th.res = 0
    PROVE  /\ \A d \in Inputs : Pc(d) \notin Reserved
           /\ Waiting = {}
<1>1. IsFiniteSet(Res) /\ Cardinality(Res) = 0  BY DEF IInv, ReservationsBalance, Res
<1>2. Res = {}  BY <1>1, FS_EmptySet
<1> QED  BY <1>2 DEF Res, Waiting, Reserved

LEMMA NobodyWaitsNext ==
    ASSUME IInv', th'.res = 0
    PROVE  Waiting' = {}
<1>1. IsFiniteSet(Res') /\ Cardinality(Res') = 0  BY DEF IInv, ReservationsBalance, Res
<1>2. Res' = {}  BY <1>1, FS_EmptySet
<1> QED  BY <1>2 DEF Res, Waiting, Reserved, Pc

\* A step of the queue or its provider that no caller hears of.
Unheard ==
    /\ inputs' = inputs /\ native' = native
    /\ queued' = queued /\ withdrawn' = withdrawn /\ begun' = begun /\ ran' = ran

LEMMA Settles ==
    ASSUME Unheard, th'.cur = th.cur, Core(th', Due, ran, Waiting, native)
    PROVE  Served'
<1>1. Due' = Due  BY DEF Unheard, Due, Steered, Pc
<1>2. Waiting' = Waiting  BY DEF Unheard, Waiting, Pc
<1> QED  BY <1>1, <1>2 DEF Unheard, Served

LEMMA Resumes ==
    ASSUME SInv, Unheard, Serves(th, th', Due, ran, Waiting, native)
    PROVE  Served' /\ NoDispatch(th, th') /\ Stays(th, th')
<1>1. Core(th', Due, ran, Waiting, native) /\ NoDispatch(th, th') /\ Stays(th, th')
  BY ServedCore DEF SInv, Served, Core
<1>2. th'.cur = th.cur  BY DEF Serves, Tame, Same
<1> QED  BY <1>1, <1>2, Settles

LEMMA StartsServing ==
    ASSUME SInv
    PROVE  /\ Serves(th, th, Due, ran, Waiting, native) /\ Good(th) /\ Conn(th) /\ th \in Threads
           /\ Core(th, Due, ran, Waiting, native) /\ Holds(th, th)
           /\ Loss(th, Due, ran) /\ Believes(th, Waiting, native)
<1>1. Core(th, Due, ran, Waiting, native) /\ Good(th)  BY DEF SInv, Served, Core
<1> QED  BY <1>1, ServesItself, CoreHolds DEF Core

-----------------------------------------------------------------------------
(* The user's operations on the queue.                                     *)

LEMMA ResumeServed ==
    ASSUME SInv, Resume
    PROVE  Served' /\ NoDispatch(th, th') /\ Stays(th, th')
<1>1. Serves(th, Off(th, {"paused"}), Due, ran, Waiting, native)
  BY StartsServing, ServesOff DEF SessionFlags
<1>2. Serves(th, th', Due, ran, Waiting, native)  BY <1>1, ServesSchedule DEF Resume
<1>3. Unheard  BY DEF Resume, Unheard, histories
<1> QED  BY <1>2, <1>3, Resumes

LEMMA PauseForEditServed ==
    ASSUME SInv, PauseForEdit
    PROVE  Served' /\ NoDispatch(th, th') /\ Stays(th, th')
<1>1. Serves(th, th', Due, ran, Waiting, native)
  BY StartsServing, ServesPause DEF PauseForEdit
<1>2. Unheard  BY DEF PauseForEdit, Unheard, histories
<1> QED  BY <1>1, <1>2, Resumes

\* Every message but the one taken out is still there.
LEMMA MovedAll ==
    ASSUME NEW s \in Seq(Entries), NEW i \in DOMAIN s, NEW k \in DOMAIN s
    PROVE  ToSet(s) \subseteq ToSet(Moved(s, i, k))
<1> DEFINE p == Moved(s, i, k)
<1>1. Len(s) \in Nat /\ DOMAIN s = 1 .. Len(s)  BY LenProperties
<1>2. DOMAIN p = 1 .. Len(s)  BY DEF Moved
<1>3. ASSUME NEW j \in DOMAIN s  PROVE \E x \in DOMAIN p : p[x] = s[j]
  <2> DEFINE x == IF j = i THEN k ELSE IF i < j /\ j <= k THEN j - 1
                  ELSE IF k <= j /\ j < i THEN j + 1 ELSE j
  <2>1. x \in 1 .. Len(s)  BY <1>1
  <2>2. p[x] = s[j]  BY <1>1, <2>1 DEF Moved
  <2> QED  BY <1>2, <2>1, <2>2
<1> QED  BY <1>3 DEF ToSet

LEMMA WithoutAll ==
    ASSUME NEW s \in Seq(Entries), NEW e
    PROVE  ToSet(s) \ {e} \subseteq ToSet(Without(s, e))
<1>1. CASE e \notin ToSet(s)  BY <1>1 DEF Without
<1>2. CASE e \in ToSet(s)
  <2> DEFINE i == CHOOSE k \in DOMAIN s : s[k] = e
             p == [k \in 1 .. Len(s) - 1 |-> IF k < i THEN s[k] ELSE s[k + 1]]
  <2>1. i \in DOMAIN s /\ s[i] = e  BY <1>2 DEF ToSet
  <2>2. Len(s) \in Nat /\ DOMAIN s = 1 .. Len(s)  BY LenProperties
  <2>3. Without(s, e) = p  BY <1>2 DEF Without
  <2> HIDE DEF i
  <2>4. ASSUME NEW j \in DOMAIN s, s[j] # e  PROVE \E x \in DOMAIN p : p[x] = s[j]
    <3> DEFINE x == IF j < i THEN j ELSE j - 1
    <3>1. x \in 1 .. Len(s) - 1  BY <2>1, <2>2, <2>4
    <3>2. p[x] = s[j]  BY <2>1, <2>2, <2>4, <3>1
    <3> QED  BY <3>1, <3>2
  <2> HIDE DEF p
  <2> QED  BY <2>3, <2>4 DEF ToSet
<1> QED  BY <1>1, <1>2

LEMMA ReplacedAll ==
    ASSUME NEW s \in Seq(Entries), NEW e \in ToSet(s), NEW f
    PROVE  (ToSet(s) \ {e}) \cup {f}
               \subseteq ToSet([k \in DOMAIN s |-> IF s[k] = e THEN f ELSE s[k]])
  BY DEF ToSet

LEMMA ServesItems ==
    ASSUME NEW u, NEW w, NEW X, NEW N, NEW H, NEW n, Serves(u, w, X, N, H, n),
           NEW s \in Seq(Entries), IsInjective(s),
           w.active.stage \in {"sent", "admitted"} => w.active.entry \notin ToSet(s),
           N \cap ToSet(s) = {}, w.job \notin ToSet(s),
           NEW Y, Y \subseteq ToSet(s) \cup (IF w.active.stage = "sent" THEN {w.active.entry} ELSE {}),
           w.active.stage = "admitted" => w.active.entry \notin Y
    PROVE  Serves(u, [w EXCEPT !.items = s], Y, N, H, n)
<1> DEFINE v == [w EXCEPT !.items = s]
<1>1. w \in Threads /\ Good(w) /\ Loss(w, X, N) /\ Believes(w, H, n) /\ Tame(u, w)
  BY DEF Serves, Good
<1>2. v \in Threads  BY <1>1 DEF Threads
<1>3. v.items = s /\ v.active = w.active /\ v.flags = w.flags /\ v.turn = w.turn /\ Same(w, v)
  BY <1>1 DEF Threads, Same
<1> HIDE DEF v
<1>4. Good(v)  BY <1>1, <1>2, <1>3 DEF Good, Once
<1>5. Loss(v, Y, N)  BY <1>1, <1>3 DEF Loss, Safe, Pending, Same
<1>6. Believes(v, H, n)  BY <1>1, <1>3 DEF Believes, Has, Up, Same
<1>7. Tame(u, v)  BY <1>1, <1>3 DEF Tame, Has, Same
<1> QED  BY <1>4, <1>5, <1>6, <1>7 DEF Serves, v

LEMMA Rewritten ==
    ASSUME SInv, inputs' = inputs, native' = native, begun' = begun, ran' = ran,
           NEW X, Serves(th, th', X, ran, Waiting, native), Due' \subseteq X
    PROVE  Served' /\ NoDispatch(th, th') /\ Stays(th, th')
<1>1. Core(th', X, ran, Waiting, native) /\ NoDispatch(th, th') /\ Stays(th, th')
  BY StartsServing, ServedCore
<1>2. th'.cur = th.cur  BY DEF Serves, Tame, Same
<1>3. Waiting' = Waiting  BY <1>2 DEF Waiting, Pc
<1>4. Core(th', Due', ran', Waiting', native')
  <2>1. th'.res = 0 => Waiting = {}  BY <1>1 DEF Core, Believes
  <2>2. th'.active.stage = "preparing" /\ Waiting # {} => Has(th', "direct")
    BY <1>1 DEF Core, Believes
  <2> QED  BY <1>1, <1>3, <2>1, <2>2, CoreGives
<1> QED  BY <1>1, <1>4 DEF Served

LEMMA QueueServed ==
    ASSUME SInv, NEW e \in Entries, Queue(e)
    PROVE  Served' /\ NoDispatch(th, th') /\ Stays(th, th')
<1> DEFINE s == Append(th.items, e)
           w == [th EXCEPT !.items = s]
           X == Due \cup {e}
<1>1. Serves(th, th, Due, ran, Waiting, native) /\ th \in Threads /\ Good(th) /\ Loss(th, Due, ran)
  BY StartsServing
<1>2. e \notin queued /\ e \notin Held(th) /\ e \notin ran /\ e # th.job
  BY DEF SInv, IInv, Books, Queue, Links, Ran
<1>3. th.items \in Seq(Entries) /\ IsInjective(th.items)  BY <1>1 DEF Threads, Good, Once
<1>4. s \in Seq(Entries) /\ IsInjective(s) /\ ToSet(s) = {e} \cup ToSet(th.items)
  BY <1>2, <1>3, Appended DEF Held
<1> HIDE DEF s
<1>5. th.active.stage # "none" => th.active.entry # e  BY <1>2 DEF Held
<1>6. /\ th.active.stage \in {"sent", "admitted"} => th.active.entry \notin ToSet(s)
      /\ ran \cap ToSet(s) = {} /\ th.job \notin ToSet(s)
      /\ X \subseteq ToSet(s) \cup (IF th.active.stage = "sent" THEN {th.active.entry} ELSE {})
      /\ th.active.stage = "admitted" => th.active.entry \notin X
  BY <1>1, <1>2, <1>4, <1>5 DEF Loss, Safe, Pending, Good, Once
<1> HIDE DEF X
<1>7. Serves(th, w, X, ran, Waiting, native)  BY <1>1, <1>4, <1>6, ServesItems
<1>8. th' = Schedule(IF w.status \in {"error", "inactive"} THEN On(w, {"paused"}) ELSE w)
  BY DEF Queue, s
<1> HIDE DEF w
<1>9. Serves(th, On(w, {"paused"}), X, ran, Waiting, native)  BY <1>7, ServesOn
<1>10. Serves(th, th', X, ran, Waiting, native)  BY <1>7, <1>8, <1>9, ServesSchedule
<1>11. Due' \subseteq X  BY DEF Queue, Due, Steered, Pc, X
<1>12. inputs' = inputs /\ native' = native /\ begun' = begun /\ ran' = ran  BY DEF Queue
<1> QED  BY <1>10, <1>11, <1>12, Rewritten

LEMMA ReorderServed ==
    ASSUME SInv, NEW i \in DOMAIN th.items, NEW k \in DOMAIN th.items, Reorder(i, k)
    PROVE  Served' /\ NoDispatch(th, th') /\ Stays(th, th')
<1> DEFINE s == Moved(th.items, i, k)
           w == [th EXCEPT !.items = s]
<1>1. Serves(th, th, Due, ran, Waiting, native) /\ th \in Threads /\ Good(th) /\ Loss(th, Due, ran)
  BY StartsServing
<1>2. th.items \in Seq(Entries) /\ IsInjective(th.items)  BY <1>1 DEF Threads, Good, Once
<1>3. s \in Seq(Entries) /\ IsInjective(s) /\ ToSet(s) = ToSet(th.items)
  <2> DEFINE q == th.items
  <2>1. q \in Seq(Entries) /\ IsInjective(q) /\ i \in DOMAIN q /\ k \in DOMAIN q  BY <1>2
  <2>2. s = Moved(q, i, k)  OBVIOUS
  <2> HIDE DEF q, s
  <2>3. s \in Seq(Entries) /\ IsInjective(s) /\ ToSet(s) \subseteq ToSet(q)
    BY <2>1, <2>2, Reordered
  <2>4. ToSet(q) \subseteq ToSet(s)  BY <2>1, <2>2, MovedAll
  <2> QED  BY <2>3, <2>4 DEF q
<1> HIDE DEF s
<1>4. /\ th.active.stage \in {"sent", "admitted"} => th.active.entry \notin ToSet(s)
      /\ ran \cap ToSet(s) = {} /\ th.job \notin ToSet(s)
      /\ Due \subseteq ToSet(s) \cup (IF th.active.stage = "sent" THEN {th.active.entry} ELSE {})
      /\ th.active.stage = "admitted" => th.active.entry \notin Due
  BY <1>1, <1>3 DEF Loss, Safe, Pending, Good, Once
<1>5. Serves(th, w, Due, ran, Waiting, native)  BY <1>1, <1>3, <1>4, ServesItems
<1>6. th' = Schedule(IF Head(w.items) = w.active.entry THEN w
                     ELSE CancelPreparation(w, w.active.entry))
  BY DEF Reorder, s
<1> HIDE DEF w
<1>7. Serves(th, th', Due, ran, Waiting, native)
  BY <1>5, <1>6, ServesCancel, ServesSchedule
<1>8. Unheard  BY DEF Reorder, Unheard, histories
<1> QED  BY <1>7, <1>8, Resumes

\* The preparation of a message is called off before it leaves the FIFO.
LEMMA CancelledOut ==
    ASSUME Good(th), NEW e \in ToSet(th.items), NEW w, w = CancelPreparation(th, e)
    PROVE  w.items = th.items /\ (w.active.stage # "none" => w.active.entry # e)
<1>1. th \in Threads /\ th.active.stage \in Stages  BY DEF Good, Threads, Actives
<1>2. Drop(th).active = NoActive /\ Drop(th).items = th.items  BY <1>1 DEF Drop, Threads
<1>3. NoActive.stage = "none"  BY DEF NoActive
<1>4. th.active.stage \in {"sent", "admitted"} => th.active.entry # e  BY DEF Good, Once
<1> QED  BY <1>1, <1>2, <1>3, <1>4 DEF CancelPreparation, Stages

LEMMA EditServed ==
    ASSUME SInv, NEW e \in Entries, NEW f \in Entries, Edit(e, f)
    PROVE  Served' /\ NoDispatch(th, th') /\ Stays(th, th')
<1> DEFINE w == CancelPreparation(th, e)
           s == [k \in DOMAIN w.items |-> IF w.items[k] = e THEN f ELSE w.items[k]]
           v == [w EXCEPT !.items = s]
           X == (Due \ {e}) \cup {f}
<1>1. Serves(th, th, Due, ran, Waiting, native) /\ Good(th)  BY StartsServing
<1>2. Serves(th, w, Due, ran, Waiting, native)  BY <1>1, ServesCancel
<1>3. e \in ToSet(th.items) /\ f \notin queued  BY DEF Edit
<1>4. f \notin Held(th) /\ f \notin ran /\ f # th.job /\ Held(w) \subseteq Held(th) /\ e # f
  <2>1. Held(w) \subseteq Held(th)  BY <1>1, KeepsItself, CancelKeeps DEF Keeps
  <2> QED  BY <1>3, <2>1 DEF SInv, IInv, Books, Links, Ran, Held
<1>5. w.items = th.items /\ (w.active.stage # "none" => w.active.entry # e)
  BY <1>1, <1>3, CancelledOut
<1>6. th' = Schedule(v)  BY DEF Edit
<1>7. Good(w) /\ Loss(w, Due, ran) /\ w.job = th.job  BY <1>2 DEF Serves, Tame, Same
<1> HIDE DEF w
<1>8. w.items \in Seq(Entries) /\ IsInjective(w.items) /\ e \in ToSet(w.items)
      /\ f \notin ToSet(w.items)
  BY <1>3, <1>4, <1>5, <1>7 DEF Good, Threads, Once, Held
<1>9. s \in Seq(Entries) /\ IsInjective(s) /\ ToSet(s) = (ToSet(w.items) \ {e}) \cup {f}
  <2> DEFINE q == w.items
  <2>1. q \in Seq(Entries) /\ IsInjective(q) /\ e \in ToSet(q) /\ f \notin ToSet(q)  BY <1>8
  <2>2. s = [k \in DOMAIN q |-> IF q[k] = e THEN f ELSE q[k]]  OBVIOUS
  <2> HIDE DEF q, s
  <2>3. s \in Seq(Entries) /\ IsInjective(s) /\ ToSet(s) \subseteq (ToSet(q) \ {e}) \cup {f}
    BY <2>1, <2>2, Replaced
  <2>4. (ToSet(q) \ {e}) \cup {f} \subseteq ToSet(s)  BY <2>1, <2>2, ReplacedAll
  <2> QED  BY <2>3, <2>4 DEF q
<1> HIDE DEF s
<1>10. w.active.stage # "none" => w.active.entry # f  BY <1>4 DEF Held
<1>11. /\ w.active.stage \in {"sent", "admitted"} => w.active.entry \notin ToSet(s)
       /\ ran \cap ToSet(s) = {} /\ w.job \notin ToSet(s)
       /\ X \subseteq ToSet(s) \cup (IF w.active.stage = "sent" THEN {w.active.entry} ELSE {})
       /\ w.active.stage = "admitted" => w.active.entry \notin X
  BY <1>4, <1>7, <1>9, <1>10 DEF Loss, Safe, Pending, Good, Once
<1> HIDE DEF X
<1>12. Serves(th, v, X, ran, Waiting, native)  BY <1>2, <1>9, <1>11, ServesItems
<1>13. Serves(th, th', X, ran, Waiting, native)  BY <1>6, <1>12, ServesSchedule
<1>14. Due' \subseteq X  BY DEF Edit, Due, Steered, Pc, X
<1>15. inputs' = inputs /\ native' = native /\ begun' = begun /\ ran' = ran  BY DEF Edit
<1> QED  BY <1>13, <1>14, <1>15, Rewritten

LEMMA RemoveServed ==
    ASSUME SInv, NEW e \in Entries, RemoveEntry(e)
    PROVE  Served' /\ NoDispatch(th, th') /\ Stays(th, th')
<1> DEFINE w == CancelPreparation(th, e)
           s == Without(w.items, e)
           v == [w EXCEPT !.items = s]
           X == Due \ {e}
<1>1. Serves(th, th, Due, ran, Waiting, native) /\ Good(th)  BY StartsServing
<1>2. Serves(th, w, Due, ran, Waiting, native)  BY <1>1, ServesCancel
<1>3. e \in ToSet(th.items)  BY DEF RemoveEntry
<1>4. w.items = th.items /\ (w.active.stage # "none" => w.active.entry # e)
  BY <1>1, <1>3, CancelledOut
<1>5. th' = IF th.active.entry = e THEN Schedule(EmitState(v)) ELSE EmitState(v)
  BY DEF RemoveEntry
<1>6. Good(w) /\ Loss(w, Due, ran)  BY <1>2 DEF Serves
<1> HIDE DEF w
<1>7. w.items \in Seq(Entries) /\ IsInjective(w.items)  BY <1>6 DEF Good, Threads, Once
<1>8. s \in Seq(Entries) /\ IsInjective(s) /\ ToSet(s) = ToSet(w.items) \ {e}
  BY <1>7, Removed, WithoutAll
<1> HIDE DEF s
<1>9. /\ w.active.stage \in {"sent", "admitted"} => w.active.entry \notin ToSet(s)
      /\ ran \cap ToSet(s) = {} /\ w.job \notin ToSet(s)
      /\ X \subseteq ToSet(s) \cup (IF w.active.stage = "sent" THEN {w.active.entry} ELSE {})
      /\ w.active.stage = "admitted" => w.active.entry \notin X
  BY <1>6, <1>8 DEF Loss, Safe, Pending, Good, Once
<1> HIDE DEF X
<1>10. Serves(th, v, X, ran, Waiting, native)  BY <1>2, <1>8, <1>9, ServesItems
<1> HIDE DEF v
<1>11. Serves(th, EmitState(v), X, ran, Waiting, native)  BY <1>10, ServesEmit
<1>12. Serves(th, th', X, ran, Waiting, native)  BY <1>5, <1>11, ServesSchedule
<1>13. Due' \subseteq X  BY DEF RemoveEntry, Due, Steered, Pc, X
<1>14. inputs' = inputs /\ native' = native /\ begun' = begun /\ ran' = ran  BY DEF RemoveEntry
<1> QED  BY <1>12, <1>13, <1>14, Rewritten

LEMMA StopServed ==
    ASSUME SInv, Stop \/ Watchdog, Races = {}
    PROVE  Served' /\ NoDispatch(th, th') /\ Stays(th, th')
<1>1. Core(th, Due, ran, Waiting, native) /\ Conn(th)  BY StartsServing
<1>2. Unheard  BY DEF Stop, Watchdog, Unheard, histories
<1>3. CASE Watchdog
  <2>1. th' = ForceStopped(th) /\ th.slot = None /\ Up(th)  BY <1>3 DEF Watchdog, Live, Up
  <2>2. Core(th', Due, ran, Waiting, native) /\ NoDispatch(th, th') /\ Stays(th, th')
    BY <1>1, <2>1, ForcedCore
  <2> QED  BY <1>2, <2>2, Settles DEF Stays
<1>4. CASE Stop
  <2> DEFINE w == PauseThread(th)
  <2>1. th' = (IF Live THEN Interrupt(w) ELSE w) /\ (th.slot = None \/ ~Has(th, "quiet"))
    BY <1>4 DEF Stop
  <2>2. Serves(th, w, Due, ran, Waiting, native)  BY StartsServing, ServesPause
  <2> HIDE DEF w
  <2>3. Core(w, Due, ran, Waiting, native) /\ NoDispatch(th, w) /\ Stays(th, w)
    BY <1>1, <2>2, ServedCore
  <2>4. (Up(w) <=> Live) /\ w.slot = th.slot /\ (Has(w, "quiet") <=> Has(th, "quiet"))
        /\ (Has(w, "dead") <=> Has(th, "dead"))
    BY <2>2 DEF Serves, Tame, Same, SessionFlags, Up, Live, Has
  <2>5. CASE Live
    <3>1. Core(th', Due, ran, Waiting, native) /\ NoDispatch(w, th') /\ Stays(w, th')
      BY <2>1, <2>3, <2>4, <2>5, InterruptCore
    <3>2. NoDispatch(th, th') /\ Stays(th, th')  BY <2>3, <3>1 DEF NoDispatch, Stays
    <3> QED  BY <1>2, <3>1, <3>2, Settles DEF Stays
  <2>6. CASE ~Live  BY <1>2, <2>1, <2>3, <2>6, Settles DEF Stays
  <2> QED  BY <2>5, <2>6
<1> QED  BY <1>3, <1>4

-----------------------------------------------------------------------------
(* Direct inputs before they are handed over.                              *)

\* A step in which callers are answered or handed over.
LEMMA Answers ==
    ASSUME Onward, native' = native, queued' = queued, withdrawn' = withdrawn,
           begun \subseteq begun', ran' = ran, Core(th', Due, ran, Waiting', native)
    PROVE  Served'
<1>1. Due' \subseteq Due  BY OwesLess
<1>2. /\ th'.res = 0 => Waiting' = {}
      /\ th'.active.stage = "preparing" /\ Waiting' # {} => Has(th', "direct")
  BY DEF Core, Believes
<1>3. Core(th', Due', ran, Waiting', native)  BY <1>1, <1>2, CoreGives
<1> QED  BY <1>3 DEF Served

\* The queue counts a reservation more or less.
LEMMA ServesCounted ==
    ASSUME NEW w, NEW X, NEW N, NEW H, NEW n, Core(w, X, N, H, n), NEW r \in Int,
           r = 0 => H = {}
    PROVE  /\ Serves([w EXCEPT !.res = r], [w EXCEPT !.res = r], X, N, H, n)
           /\ Conn([w EXCEPT !.res = r])
           /\ [w EXCEPT !.res = r].active = w.active /\ [w EXCEPT !.res = r].items = w.items
           /\ Stays(w, [w EXCEPT !.res = r])
<1> DEFINE v == [w EXCEPT !.res = r]
<1>1. w \in Threads /\ Good(w) /\ Loss(w, X, N) /\ Believes(w, H, n) /\ Conn(w)
  BY DEF Core, Good
<1>2. v \in Threads  BY <1>1, ResTyped
<1>3. /\ v.active = w.active /\ v.items = w.items /\ v.flags = w.flags /\ v.turn = w.turn
      /\ v.job = w.job /\ v.phase = w.phase /\ v.late = w.late /\ v.slot = w.slot
      /\ v.restarts = w.restarts /\ v.cur = w.cur /\ v.status = w.status /\ v.res = r
  BY <1>1 DEF Threads
<1> HIDE DEF v
<1>4. Good(v)  BY <1>1, <1>2, <1>3 DEF Good, Once
<1>5. Loss(v, X, N)  BY <1>1, <1>3 DEF Loss, Safe, Pending
<1>6. Believes(v, H, n)  BY <1>1, <1>3 DEF Believes, Has, Up
<1>7. Up(v) <=> Up(w)  BY <1>3 DEF Up, Has
<1>8. Conn(v)  BY <1>1, <1>3, <1>7 DEF Conn, Owed, Provider, Restarting, Has
<1>9. Stays(w, v)  BY <1>3 DEF Stays, Has
<1> QED  BY <1>3, <1>4, <1>5, <1>6, <1>8, <1>9, ServesItself DEF v

\* A reservation is released, after the queue has done w.
LEMMA ReleaseCore ==
    ASSUME IInv', NEW w, NEW X, NEW N, NEW n, Core(w, X, N, Waiting', n), th' = Release(w)
    PROVE  Core(th', X, N, Waiting', n) /\ NoDispatch(w, th') /\ Stays(w, th')
<1> DEFINE r == w.res - 1
           v == [w EXCEPT !.res = r]
<1>1. r \in Int
  <2>1. w.res \in Int  BY DEF Core, Good, Threads
  <2> QED  BY <2>1
<1>2. th' = DirectChanged(v)  BY DEF Release
<1>3. th'.res = r
  <2>1. Holds(w, w) /\ w \in Threads  BY CoreHolds
  <2>2. v \in Threads /\ v.res = r  BY <1>1, <2>1, ResTyped DEF Threads
  <2>3. v.items = w.items /\ v.active = w.active  BY <2>1 DEF Threads
  <2> HIDE DEF v
  <2>4. Good(v)  BY <2>1, <2>2, <2>3 DEF Good, Once, Holds, Sound
  <2> QED  BY <1>2, <2>2, <2>4, KeepsItself, DirectChangedKeeps DEF Keeps, Same
<1>4. r = 0 => Waiting' = {}  BY <1>3, NobodyWaitsNext
<1> DEFINE G == Waiting'
<1> HIDE DEF r, G
<1>5. Serves(v, v, X, N, G, n) /\ Conn(v) /\ v.active = w.active /\ Stays(w, v)
  BY <1>1, <1>4, ServesCounted DEF G
<1> HIDE DEF v
<1>6. Serves(v, th', X, N, G, n)  BY <1>2, <1>5, ServesDirectChanged
<1>7. Core(th', X, N, G, n) /\ NoDispatch(v, th') /\ Stays(v, th')
  BY <1>5, <1>6, ServedCore
<1> QED  BY <1>5, <1>7 DEF NoDispatch, Stays, G

LEMMA Releases ==
    ASSUME SInv, IInv', NEW w, Serves(th, w, Due, ran, Waiting, native), th' = Release(w),
           Waiting' = Waiting
    PROVE  Core(th', Due, ran, Waiting, native) /\ NoDispatch(th, th') /\ Stays(th, th')
<1>1. Core(w, Due, ran, Waiting, native) /\ NoDispatch(th, w) /\ Stays(th, w)
  BY StartsServing, ServedCore
<1>2. Core(th', Due, ran, Waiting', native) /\ NoDispatch(w, th') /\ Stays(w, th')
  BY <1>1, ReleaseCore
<1> QED  BY <1>1, <1>2 DEF NoDispatch, Stays

LEMMA WaitingResolved ==
    ASSUME NEW j, NEW o \in {"accepted", "refused"}, inputs' = Resolve({j}, o), th'.cur = th.cur
    PROVE  Waiting' = Waiting \ {j}
  BY DEF Waiting, Resolve, Pc

LEMMA WaitingMoved ==
    ASSUME inputs \in Records, NEW d \in Inputs, NEW r, inputs' = [inputs EXCEPT ![d] = r],
           Pc(d) # "handed", th'.cur = th.cur
    PROVE  /\ r.pc # "handed" => Waiting' = Waiting
           /\ r.pc = "handed" /\ r.on = th.cur => Waiting' = Waiting \cup {d}
<1>1. \A x \in Inputs : inputs'[x] = IF x = d THEN r ELSE inputs[x]  BY DEF Records
<1> QED  BY <1>1 DEF Waiting, Pc

LEMMA RecordsTyped ==
    ASSUME SInv
    PROVE  /\ inputs \in Records /\ th.res \in Nat /\ sessions \in Nat /\ th.cur \in Nat
           /\ \A d \in Inputs : /\ inputs[d] \in [pc : Pcs, entry : Entries \cup {None}, on : Nat]
                                /\ \A p : [inputs[d] EXCEPT !.pc = p].pc = p
                                /\ \A p, c : /\ [inputs[d] EXCEPT !.pc = p, !.on = c].pc = p
                                             /\ [inputs[d] EXCEPT !.pc = p, !.on = c].on = c
                                             /\ [inputs[d] EXCEPT !.pc = p, !.on = c].entry
                                                    = inputs[d].entry
<1>1. IsFiniteSet(Res) /\ th.res = Cardinality(Res) /\ TypeOK  BY DEF SInv, IInv, ReservationsBalance, Res
<1>2. th.res \in Nat  BY <1>1, FS_CardinalityType
<1>3. th.cur \in Nat  BY <1>1 DEF TypeOK, Threads
<1>4. inputs \in Records  BY <1>1 DEF TypeOK, Records
<1> QED  BY <1>1, <1>2, <1>3, <1>4 DEF TypeOK, Records

LEMMA BeginServed ==
    ASSUME SInv, NEW d \in Inputs, NEW e \in Entries \cup {None}, Begin(d, e)
    PROVE  Served' /\ NoDispatch(th, th') /\ Stays(th, th')
<1> DEFINE r == [pc |-> IF e = None THEN "waiting" ELSE "begun", entry |-> e, on |-> 0]
           c == th.res + 1
           w == [th EXCEPT !.res = c]
<1>1. inputs' = [inputs EXCEPT ![d] = r] /\ th' = IF e = None THEN JoinAdmission(w) ELSE w
  BY DEF Begin
<1>2. r.pc # "handed"  OBVIOUS
<1>3. inputs \in Records /\ c \in Int /\ c # 0  BY RecordsTyped
<1>4. Core(th, Due, ran, Waiting, native)  BY StartsServing
<1> HIDE DEF c, r
<1>5. Serves(w, w, Due, ran, Waiting, native) /\ Conn(w) /\ w.active = th.active /\ Stays(th, w)
  BY <1>3, <1>4, ServesCounted
<1> HIDE DEF w
<1>6. th' = w  BY <1>1, <1>5, JoinsNothing
<1>7. Core(th', Due, ran, Waiting, native) /\ NoDispatch(th, th') /\ Stays(th, th')
  BY <1>5, <1>6 DEF Serves, Core, NoDispatch
<1>8. Onward  BY <1>1, <1>3, OnwardByOne DEF Begin
<1>9. Waiting' = Waiting  BY <1>1, <1>2, <1>3, <1>7, WaitingMoved DEF Begin, Stays
<1>10. native' = native /\ queued' = queued /\ withdrawn' = withdrawn /\ begun' = begun /\ ran' = ran
  BY DEF Begin, histories
<1> QED  BY <1>7, <1>8, <1>9, <1>10, Answers

LEMMA ReleaseStays ==
    ASSUME NEW w, Good(w)
    PROVE  Release(w).cur = w.cur
<1> DEFINE x == [w EXCEPT !.res = @ - 1]
<1>1. w \in Threads /\ w.res - 1 \in Int
  <2>1. w \in Threads /\ w.res \in Int  BY DEF Good, Threads
  <2> QED  BY <2>1
<1>2. x \in Threads  BY <1>1, ResTyped
<1>3. x.items = w.items /\ x.active = w.active /\ x.cur = w.cur  BY <1>1 DEF Threads
<1>4. Release(w) = DirectChanged(x)  BY DEF Release
<1> HIDE DEF x
<1>5. Good(x)  BY <1>2, <1>3 DEF Good, Once
<1> QED  BY <1>3, <1>4, <1>5, KeepsItself, DirectChangedKeeps DEF Keeps, Same

LEMMA ArriveServed ==
    ASSUME SInv, IInv', NEW d \in Inputs, Arrive(d)
    PROVE  Served' /\ NoDispatch(th, th') /\ Stays(th, th')
<1> DEFINE r == [inputs[d] EXCEPT !.pc = "waiting"]
           w == CancelPreparation(th, inputs[d].entry)
<1>1. inputs \in Records /\ r.pc = "waiting" /\ Failed.pc = "failed"  BY RecordsTyped DEF Failed
<1>2. \/ inputs' = [inputs EXCEPT ![d] = r] /\ th' = JoinAdmission(w)
      \/ inputs' = [inputs EXCEPT ![d] = Failed] /\ th' = Release(th)
  BY DEF Arrive
<1>3. Serves(th, w, Due, ran, Waiting, native) /\ Serves(th, th, Due, ran, Waiting, native)
      /\ Conn(th) /\ th \in Threads
  BY StartsServing, ServesCancel
<1> HIDE DEF w, r
<1>4. Core(w, Due, ran, Waiting, native) /\ NoDispatch(th, w) /\ Stays(th, w)
  BY <1>3, ServedCore
<1>5. th'.cur = th.cur
  <2>1. JoinAdmission(w) = w  BY <1>4, JoinsNothing DEF Core
  <2>2. Release(th).cur = th.cur  BY StartsServing, ReleaseStays
  <2> QED  BY <1>2, <1>4, <2>1, <2>2 DEF Stays
<1>6. Pc(d) = "begun"  BY DEF Arrive
<1>7. Waiting' = Waiting  BY <1>1, <1>2, <1>5, <1>6, WaitingMoved
<1>8. Core(th', Due, ran, Waiting, native) /\ NoDispatch(th, th') /\ Stays(th, th')
  <2>1. CASE th' = JoinAdmission(w)  BY <1>4, <2>1, JoinsNothing DEF Core
  <2>2. CASE th' = Release(th)  BY <1>3, <1>7, <2>2, Releases
  <2> QED  BY <1>2, <2>1, <2>2
<1>9. Onward  BY <1>1, <1>2, <1>6, OnwardByOne
<1>10. native' = native /\ queued' = queued /\ withdrawn' = withdrawn /\ begun' = begun /\ ran' = ran
  BY DEF Arrive, histories
<1> QED  BY <1>7, <1>8, <1>9, <1>10, Answers

LEMMA AdmittedServed ==
    ASSUME SInv, NEW d \in Inputs, Admitted(d)
    PROVE  Served' /\ NoDispatch(th, th') /\ Stays(th, th')
<1> DEFINE r == [inputs[d] EXCEPT !.pc = "ready"]
<1>1. inputs \in Records /\ r.pc = "ready"  BY RecordsTyped
<1>2. inputs' = [inputs EXCEPT ![d] = r] /\ th' = th /\ Pc(d) = "waiting"  BY DEF Admitted
<1> HIDE DEF r
<1>3. Waiting' = Waiting  BY <1>1, <1>2, WaitingMoved
<1>4. Onward  BY <1>1, <1>2, OnwardByOne
<1>5. Core(th', Due, ran, Waiting, native)  BY <1>2, StartsServing
<1>6. native' = native /\ queued' = queued /\ withdrawn' = withdrawn /\ begun' = begun /\ ran' = ran
  BY DEF Admitted, histories
<1>7. NoDispatch(th, th') /\ Stays(th, th')  BY <1>2 DEF NoDispatch, Stays
<1> QED  BY <1>3, <1>4, <1>5, <1>6, <1>7, Answers

LEMMA AcceptedServed ==
    ASSUME SInv, IInv', NEW d \in Inputs, Accepted(d)
    PROVE  Served' /\ NoDispatch(th, th') /\ Stays(th, th')
<1> DEFINE r == [inputs[d] EXCEPT !.pc = "done", !.on = 0]
           e == inputs[d].entry
           s == Without(th.items, e)
           v == [th EXCEPT !.items = s]
           w == IF Promotes(d) THEN EmitState(v) ELSE th
<1>1. inputs \in Records /\ r.pc = "done" /\ r.entry = inputs[d].entry  BY RecordsTyped
<1>2. inputs' = [inputs EXCEPT ![d] = r] /\ th' = Release(w) /\ Pc(d) = "accepted"
  BY DEF Accepted
<1>3. Serves(th, th, Due, ran, Waiting, native) /\ Good(th) /\ Loss(th, Due, ran) /\ th \in Threads
  BY StartsServing
<1> HIDE DEF r
<1>4. Serves(th, w, Due, ran, Waiting, native)
  <2>1. e \notin Due  BY <1>2 DEF Due, Steered
  <2>2. th.items \in Seq(Entries) /\ IsInjective(th.items)  BY <1>3 DEF Threads, Good, Once
  <2> HIDE DEF e
  <2>3. s \in Seq(Entries) /\ IsInjective(s) /\ ToSet(s) = ToSet(th.items) \ {e}
    BY <2>2, Removed, WithoutAll
  <2> HIDE DEF s
  <2>4. /\ th.active.stage \in {"sent", "admitted"} => th.active.entry \notin ToSet(s)
        /\ ran \cap ToSet(s) = {} /\ th.job \notin ToSet(s)
        /\ Due \subseteq ToSet(s) \cup (IF th.active.stage = "sent" THEN {th.active.entry} ELSE {})
        /\ th.active.stage = "admitted" => th.active.entry \notin Due
    BY <1>3, <2>1, <2>3 DEF Loss, Safe, Pending, Good, Once
  <2>5. Serves(th, v, Due, ran, Waiting, native)  BY <1>3, <2>3, <2>4, ServesItems
  <2> HIDE DEF v
  <2> QED  BY <1>3, <2>5, ServesEmit
<1> HIDE DEF w
<1>5. Good(w) /\ w.cur = th.cur  BY <1>4 DEF Serves, Tame, Same
<1>6. th'.cur = th.cur  BY <1>2, <1>5, ReleaseStays
<1>7. Waiting' = Waiting  BY <1>1, <1>2, <1>6, WaitingMoved
<1>8. Core(th', Due, ran, Waiting, native) /\ NoDispatch(th, th') /\ Stays(th, th')
  BY <1>2, <1>4, <1>7, Releases
<1>9. Onward  BY <1>1, <1>2 DEF Onward, Records, Pc
<1>10. native' = native /\ queued' = queued /\ withdrawn' = withdrawn /\ begun' = begun /\ ran' = ran
  BY DEF Accepted, histories
<1> QED  BY <1>7, <1>8, <1>9, <1>10, Answers

LEMMA RefusedServed ==
    ASSUME SInv, IInv', Races = {}, NEW d \in Inputs, Refused(d)
    PROVE  Served' /\ NoDispatch(th, th') /\ Stays(th, th')
<1> DEFINE w == IF Promotes(d) /\ inputs[d].on \notin {0, th.cur} THEN th ELSE DirectInputFailed(th)
<1>1. inputs \in Records /\ Failed.pc = "failed"  BY RecordsTyped DEF Failed
<1>2. inputs' = [inputs EXCEPT ![d] = Failed] /\ th' = Release(w) /\ Pc(d) = "refused"
      /\ Underway \subseteq {d}
  BY DEF Refused
<1>3. Serves(th, th, Due, ran, Waiting, native) /\ th.slot \in Inputs \cup {None}
  BY StartsServing, SoundTyped
<1>4. th.slot = None  BY <1>2, <1>3 DEF Underway, SInv, Links, Steers
<1>5. Serves(th, w, Due, ran, Waiting, native)  BY <1>3, <1>4, ServesInputFailed
<1> HIDE DEF w
<1>6. th'.cur = th.cur
  <2>1. Good(w) /\ w.cur = th.cur  BY <1>5 DEF Serves, Tame, Same
  <2> QED  BY <1>2, <2>1, ReleaseStays
<1>7. Waiting' = Waiting  BY <1>1, <1>2, <1>6, WaitingMoved
<1>8. Core(th', Due, ran, Waiting, native) /\ NoDispatch(th, th') /\ Stays(th, th')
  BY <1>2, <1>5, <1>7, Releases
<1>9. Onward  BY <1>1, <1>2, OnwardByOne
<1>10. native' = native /\ queued' = queued /\ withdrawn' = withdrawn /\ begun' = begun /\ ran' = ran
  BY DEF Refused, histories
<1> QED  BY <1>7, <1>8, <1>9, <1>10, Answers

LEMMA ClearSteerServed ==
    ASSUME SInv, ClearSteer
    PROVE  Served' /\ NoDispatch(th, th') /\ Stays(th, th') /\ th'.slot = None
<1> DEFINE G == Waiting \ {th.slot}
           w == [th EXCEPT !.slot = None]
           a == Off(w, {"awaiting"})
           b == IF Has(a, "done") THEN On(a, {"completed"}) ELSE a
<1>1. /\ Good(th) /\ th \in Threads /\ Loss(th, Due, ran) /\ Believes(th, Waiting, native) /\ Conn(th)
      /\ th.slot \in Inputs /\ th.slot # None
  <2>1. th.slot \in Inputs \cup {None} /\ th.slot # None  BY StartsServing, SoundTyped DEF ClearSteer
  <2> QED  BY <2>1, StartsServing
<1>2. /\ w \in Threads /\ w.items = th.items /\ w.active = th.active /\ w.turn = th.turn /\ w.slot = None
      /\ w.flags = th.flags /\ w.job = th.job /\ w.phase = th.phase /\ w.late = th.late
      /\ w.restarts = th.restarts /\ w.cur = th.cur /\ w.status = th.status /\ w.res = th.res
  BY <1>1 DEF Threads
<1>3. th' = IF ~Has(w, "direct") THEN w ELSE FinishDirect(b)  BY DEF ClearSteer
<1> HIDE DEF w
<1>4. ~native  BY <1>1 DEF Believes
<1>5. th.phase = "setup" => th.job # th.slot
  BY <1>1, NamesAssumption DEF SInv, Links, Steers
<1>6. Serves(w, w, Due, ran, G, native) /\ Conn(w)
  <2>1. Good(w)  BY <1>1, <1>2 DEF Good, Once
  <2>2. Loss(w, Due, ran)  BY <1>1, <1>2 DEF Loss, Safe, Pending
  <2>3. Believes(w, G, native)  BY <1>1, <1>2, <1>5 DEF Believes, Has, Up
  <2>4. Up(w) <=> Up(th)  BY <1>2 DEF Up, Has
  <2>5. Conn(w)  BY <1>1, <1>2, <2>4 DEF Conn, Owed, Provider, Restarting, Has
  <2> QED  BY <2>1, <2>2, <2>3, <2>5, ServesItself
<1> HIDE DEF G
<1>7. Serves(w, a, Due, ran, G, native)  BY <1>2, <1>6, ServesOff DEF SessionFlags
<1>8. a.flags = w.flags \ {"awaiting"} /\ a.phase = th.phase
  BY <1>2, <1>7, FlagsOff DEF Serves, Tame, Same
<1> HIDE DEF a
<1>9. Has(w, "direct") => Serves(w, FinishDirect(b), Due, ran, G, native)
  <2> SUFFICES ASSUME Has(w, "direct") PROVE Serves(w, FinishDirect(b), Due, ran, G, native)
    OBVIOUS
  <2>1. Has(a, "direct")  BY <1>8 DEF Has
  <2>2. ASSUME Has(a, "done") PROVE Serves(w, On(a, {"completed"}), Due, ran, G, native)
    <3>1. a.phase \notin {"setup", "live", "tail"}
      BY <1>1, <1>2, <1>4, <1>8, <2>2 DEF Believes, Has
    <3> QED  BY <1>7, <2>1, <3>1, ServesOn
  <2>3. Serves(w, b, Due, ran, G, native)  BY <1>7, <2>2
  <2> HIDE DEF b
  <2> QED  BY <2>3, ServesFinishDirect
<1> HIDE DEF b
<1>10. Serves(w, th', Due, ran, G, native)  BY <1>3, <1>6, <1>9
<1>11. Core(th', Due, ran, G, native) /\ NoDispatch(w, th') /\ Stays(w, th')
  BY <1>6, <1>10, ServedCore
<1>12. NoDispatch(th, th') /\ Stays(th, th')  BY <1>2, <1>11 DEF NoDispatch, Stays, Has
<1>13. inputs' = Resolve({th.slot}, "refused")  BY DEF ClearSteer
<1>14. Waiting' = G  BY <1>12, <1>13, WaitingResolved DEF Stays, G
<1>15. Onward  BY <1>13, OnwardByOutcome
<1>16. native' = native /\ queued' = queued /\ withdrawn' = withdrawn /\ begun' = begun /\ ran' = ran
  BY DEF ClearSteer, histories
<1>17. th'.slot = None  BY <1>2, <1>11 DEF Stays
<1> QED  BY <1>11, <1>12, <1>14, <1>15, <1>16, <1>17, Answers

-----------------------------------------------------------------------------
(* Direct inputs that are handed over.                                     *)

LEMMA ReadyInput ==
    ASSUME SInv, NEW d \in Inputs, Pc(d) = "ready"
    PROVE  /\ th.res # 0 /\ th.active.stage # "sent" /\ ~Has(th, "restarting")
           /\ d \notin given /\ th.job # d /\ th.slot # d /\ d \notin Waiting
           /\ \A i \in DOMAIN th.restarts : th.restarts[i].job \in Inputs \ {d}
<1>1. th.res # 0
  <2>1. SInv => IInv  BY DEF SInv
  <2> QED  BY <2>1, NobodyWaits DEF Reserved
<1>2. th.active.stage # "sent"  BY DEF SInv, Links, Callers
<1>3. Conn(th)  BY StartsServing
<1>4. ~Has(th, "restarting")  BY <1>2, <1>3, NothingRestarts
<1>5. d \notin given  BY DEF SInv, Links, Callers
<1>6. th.job # d /\ th.slot # d  BY <1>5 DEF SInv, Links, Steers
<1>7. \A i \in DOMAIN th.restarts : th.restarts[i].job \in Inputs \ {d}
  BY <1>3, <1>4 DEF Conn, Restarting, SInv, Links, Restarts, Linked
<1> QED  BY <1>1, <1>2, <1>4, <1>5, <1>6, <1>7 DEF Waiting

LEMMA HandMoves ==
    ASSUME SInv, NEW d \in Inputs, Pc(d) = "ready", NEW p, inputs' = Hand(d, p), th'.cur = th.cur
    PROVE  Onward /\ Waiting' = IF p = "handed" THEN Waiting \cup {d} ELSE Waiting
<1> DEFINE r == [inputs[d] EXCEPT !.pc = p, !.on = th.cur]
<1>1. inputs \in Records /\ r.pc = p /\ r.on = th.cur  BY RecordsTyped
<1>2. inputs' = [inputs EXCEPT ![d] = r]  BY <1>1 DEF Hand, Records
<1> HIDE DEF r
<1> QED  BY <1>1, <1>2, OnwardByOne, WaitingMoved

LEMMA HandedOverTo ==
    ASSUME SInv, NEW d \in Inputs, Pc(d) = "ready", inputs' = HandedOver(d), th'.cur = th.cur
    PROVE  /\ Onward
           /\ Waiting' = (Waiting \ {th.slot}) \cup (IF Promotes(d) THEN {d} ELSE {})
<1> DEFINE R == Resolve({th.slot}, "refused")
           p == IF Promotes(d) THEN "handed" ELSE "done"
           c == IF Promotes(d) THEN th.cur ELSE 0
           r == [inputs[d] EXCEPT !.pc = p, !.on = c]
<1>1. /\ inputs \in Records /\ R \in Records /\ R[d] = inputs[d]
  BY RecordsTyped, ResolveKeeps
<1>2. inputs' = [R EXCEPT ![d] = r]  BY <1>1 DEF HandedOver, Records
<1>3. r.pc = p /\ r.on = c  BY RecordsTyped
<1> HIDE DEF r
<1>4. \A x \in Inputs : inputs'[x] = IF x = d THEN r ELSE R[x]  BY <1>1, <1>2 DEF Records
<1>5. \A x \in Inputs : R[x] = IF x = th.slot /\ Pc(x) = "handed"
                               THEN [inputs[x] EXCEPT !.pc = "refused"] ELSE inputs[x]
  BY DEF Resolve
<1>6. \A x \in Inputs : [inputs[x] EXCEPT !.pc = "refused"].pc = "refused"  BY RecordsTyped
<1>7. th.slot # d  BY ReadyInput
<1> HIDE DEF R
<1>8. Onward  BY <1>4, <1>5 DEF Onward, Pc
<1>9. \A x \in Inputs : x \in Waiting' <=> IF x = d THEN Promotes(d) ELSE x \in Waiting \ {th.slot}
  <2>1. \A x \in Inputs : x \in Waiting' <=> inputs'[x].pc = "handed" /\ inputs'[x].on = th.cur
    BY DEF Waiting, Pc
  <2>2. d \in Waiting' <=> Promotes(d)  BY <1>3, <1>4, <2>1
  <2>3. ASSUME NEW x \in Inputs, x # d, x # th.slot
        PROVE  x \in Waiting' <=> x \in Waiting
    BY <1>4, <1>5, <2>1, <2>3 DEF Waiting, Pc
  <2>4. th.slot \in Inputs => th.slot \notin Waiting'
    <3> SUFFICES ASSUME NEW x \in Inputs, x = th.slot PROVE inputs'[x].pc # "handed"
      BY <2>1
    <3>1. inputs'[x] = R[x]  BY <1>4, <1>7
    <3>2. CASE Pc(x) = "handed"
      <4>1. R[x] = [inputs[x] EXCEPT !.pc = "refused"]  BY <1>5, <3>2
      <4> QED  BY <1>6, <3>1, <4>1
    <3>3. CASE Pc(x) # "handed"
      <4>1. R[x] = inputs[x]  BY <1>5, <3>3
      <4> QED  BY <3>1, <3>3, <4>1 DEF Pc
    <3> QED  BY <3>2, <3>3
  <2>5. ASSUME NEW x \in Inputs
        PROVE  x \in Waiting' <=> IF x = d THEN Promotes(d) ELSE x \in Waiting \ {th.slot}
    <3>1. CASE x = d  BY <2>2, <3>1
    <3>2. CASE x # d /\ x = th.slot  BY <2>4, <3>2
    <3>3. CASE x # d /\ x # th.slot  BY <2>3, <3>3
    <3> QED  BY <3>1, <3>2, <3>3
  <2> QED  BY <2>5
<1>10. Waiting' \subseteq Inputs /\ Waiting \subseteq Inputs  BY DEF Waiting
<1>11. d \notin Waiting  BY ReadyInput
<1> QED  BY <1>8, <1>9, <1>10, <1>11

\* The thread is marked for a direct input; the slot is x afterwards.
MarkedFor(w, interrupted, x) == [MarkStarted(w, interrupted) EXCEPT !.slot = x]

\* What the marking asks for, and what comes of it.
MayMark(w, interrupted, x, X, N, H, n, G) ==
    /\ Core(w, X, N, H, n) /\ w.active.stage # "sent"
    /\ interrupted \in BOOLEAN /\ x \in Inputs \cup {None}
    /\ IF interrupted THEN ~n ELSE x = None \/ ~Up(w)
    /\ n => x = None
    /\ w.res = 0 => G = {}
    /\ w.phase = "setup" /\ w.job \in H => w.job \in G
IsMarked(w, z, x, X, N, n, G) ==
    /\ Core(z, X, N, G, n) /\ Has(z, "direct") /\ z.active.stage \in {"none", "preparing"}
    /\ Stays([w EXCEPT !.slot = x], z) /\ NoDispatch(w, z) /\ Same([w EXCEPT !.slot = x], z)
    /\ \A g \in SessionFlags \cup {"restarting"} : Has(z, g) <=> Has(w, g)

LEMMA MarkedCore ==
    ASSUME NEW w, NEW interrupted, NEW x, NEW X, NEW N, NEW H, NEW n, NEW G,
           MayMark(w, interrupted, x, X, N, H, n, G), NEW z, z = MarkedFor(w, interrupted, x)
    PROVE  IsMarked(w, z, x, X, N, n, G)
<1>0. /\ Core(w, X, N, H, n) /\ w.active.stage # "sent"
      /\ interrupted \in BOOLEAN /\ x \in Inputs \cup {None}
      /\ IF interrupted THEN ~n ELSE x = None \/ ~Up(w)
      /\ n => x = None
      /\ w.res = 0 => G = {}
      /\ w.phase = "setup" /\ w.job \in H => w.job \in G
  BY DEF MayMark
<1> USE <1>0
<1> DEFINE v == MarkStarted(w, interrupted)
<1>1. Good(w) /\ w \in Threads /\ Loss(w, X, N) /\ Believes(w, H, n) /\ Conn(w) /\ w.active.stage \in Stages
  BY DEF Core, Good, Threads, Actives
<1>2. /\ Keeps(w, v) /\ v.items = w.items /\ v.turn = w.turn
      /\ v.active = IF w.active.stage \in {"sent", "admitted"} THEN NoActive ELSE w.active
      /\ \A g : g \notin {"again", "direct", "awaiting", "completed", "done"} =>
                   (Has(v, g) <=> Has(w, g))
      /\ Has(v, "direct") /\ ~Has(v, "completed") /\ ~Has(v, "done")
      /\ Has(v, "awaiting") => interrupted
      /\ interrupted => Has(v, "awaiting")
  BY <1>1, MarkedEffect
<1> HIDE DEF v
<1>3. /\ z \in Threads /\ z.items = v.items /\ z.active = v.active /\ z.turn = v.turn
      /\ z.flags = v.flags /\ z.slot = x /\ z.phase = v.phase /\ z.job = v.job /\ z.late = v.late
      /\ z.restarts = v.restarts /\ z.cur = v.cur /\ z.status = v.status /\ z.res = v.res
  BY <1>2 DEF Keeps, Good, Threads, v, MarkedFor
<1>4. /\ z.phase = w.phase /\ z.job = w.job /\ z.late = w.late /\ z.restarts = w.restarts
      /\ z.cur = w.cur /\ z.status = w.status /\ z.res = w.res
  BY <1>2, <1>3 DEF Keeps, Same
<1>5. NoActive.stage = "none" /\ NoActive.on = 0  BY DEF NoActive
<1>6. z.active = w.active \/ z.active = NoActive  BY <1>2, <1>3
<1>7. z.active.stage \in {"none", "preparing"}  BY <1>1, <1>2, <1>3, <1>5 DEF Stages
<1>8. \A g : Has(z, g) <=> Has(v, g)  BY <1>3 DEF Has
<1>9. \A g \in SessionFlags \cup {"restarting", "asks"} : Has(z, g) <=> Has(w, g)
  BY <1>2, <1>8 DEF SessionFlags
<1>10. Good(z)  BY <1>2, <1>3 DEF Keeps, Good, Once
<1>11. Loss(z, X, N)
  <2>1. ToSet(z.items) = ToSet(w.items) /\ z.turn = w.turn  BY <1>2, <1>3
  <2>2. CASE z.active = w.active  BY <1>1, <1>4, <1>7, <2>1, <2>2 DEF Loss, Safe, Pending
  <2>3. CASE z.active = NoActive /\ w.active.stage # "preparing"
    BY <1>1, <1>4, <1>5, <2>1, <2>3 DEF Loss, Safe, Pending
  <2>4. w.active.stage = "preparing" => z.active = w.active  BY <1>2, <1>3
  <2> QED  BY <1>6, <2>2, <2>3, <2>4
<1>12. Up(z) <=> Up(w)  BY <1>4, <1>9 DEF Up, SessionFlags
<1>13. Believes(z, G, n)
  <2>1. z.flags \cap {"done", "completed"} = {}  BY <1>2, <1>8 DEF Has
  <2>2. z.late # None => z.phase \in {"setup", "live", "tail"} /\ z.late \notin {z.job, z.turn}
    BY <1>1, <1>2, <1>3, <1>4 DEF Believes
  <2>3. z.phase \in {"setup", "live", "tail"} /\ z.active.stage # "none" /\ z.active.on = z.cur
          => z.active.end = "none"
    BY <1>1, <1>4, <1>5, <1>6 DEF Believes
  <2>4. z.phase \in {"live", "tail"} => z.turn = z.job
    BY <1>1, <1>2, <1>3, <1>4 DEF Believes
  <2>5. z.phase = "setup" => z.status = "working" \/ z.job \in G  BY <1>1, <1>4 DEF Believes
  <2>6. n => ~Has(z, "awaiting") /\ z.slot = None  BY <1>2, <1>3, <1>8
  <2>7. z.slot # None /\ Up(z) => {"direct", "awaiting"} \subseteq z.flags
    BY <1>2, <1>3, <1>8, <1>12 DEF Has
  <2>8. (z.res = 0 => G = {}) /\ (z.phase = "none") = (z.job = None)  BY <1>1, <1>4 DEF Believes
  <2> QED  BY <1>2, <1>7, <1>8, <2>1, <2>2, <2>3, <2>4, <2>5, <2>6, <2>7, <2>8 DEF Believes
<1>14. ~Has(w, "restarting")  BY <1>1, NothingRestarts
<1>15. Conn(z)
  <2>1. Restarting(z)  BY <1>1, <1>4, <1>9, <1>14 DEF Conn, Restarting
  <2> QED  BY <1>1, <1>4, <1>7, <1>9, <1>12, <2>1 DEF Conn, Owed, SessionFlags
<1>16. /\ [w EXCEPT !.slot = x].slot = x /\ [w EXCEPT !.slot = x].cur = w.cur
       /\ [w EXCEPT !.slot = x].active = w.active /\ [w EXCEPT !.slot = x].restarts = w.restarts
       /\ [w EXCEPT !.slot = x].flags = w.flags /\ [w EXCEPT !.slot = x].job = w.job
       /\ [w EXCEPT !.slot = x].phase = w.phase /\ [w EXCEPT !.slot = x].late = w.late
       /\ [w EXCEPT !.slot = x].status = w.status /\ [w EXCEPT !.slot = x].res = w.res
  BY <1>1 DEF Threads
<1> DEFINE y == [w EXCEPT !.slot = x]
<1> HIDE DEF y
<1>17. Stays(y, z)
  <2>1. Has(y, "dead") => Has(z, "dead")  BY <1>9, <1>16 DEF Has, SessionFlags, y
  <2>2. z.active.on \in {0, y.active.on}  BY <1>5, <1>6, <1>16 DEF y
  <2> QED  BY <1>3, <1>4, <1>16, <2>1, <2>2 DEF Stays, y
<1>18. Same(y, z)  BY <1>3, <1>4, <1>16 DEF Same, y
<1>19. NoDispatch(w, z)  BY <1>7 DEF NoDispatch
<1> QED
  BY <1>2, <1>7, <1>8, <1>9, <1>10, <1>11, <1>13, <1>15, <1>17, <1>18, <1>19 DEF Core, y, IsMarked

LEMMA SlotKept ==
    ASSUME NEW v \in Threads
    PROVE  [v EXCEPT !.slot = v.slot] = v
  BY DEF Threads

LEMMA Chains ==
    ASSUME NEW u, NEW v, NEW w
    PROVE  /\ NoDispatch(u, v) /\ NoDispatch(v, w) => NoDispatch(u, w)
           /\ Stays(u, v) /\ Stays(v, w) => Stays(u, w)
<1>1. NoDispatch(u, v) /\ NoDispatch(v, w) => NoDispatch(u, w)  BY DEF NoDispatch
<1>2. Stays(u, v) /\ Stays(v, w) => Stays(u, w)  BY DEF Stays
<1> QED  BY <1>1, <1>2

\* The submit that is handed over releases its reservation.
LEMMA HandedCore ==
    ASSUME IInv', NEW d, NEW w, NEW X, NEW N, NEW n, Core(w, X, N, Waiting', n),
           th' = HandOver(w, d)
    PROVE  Core(th', X, N, Waiting', n) /\ NoDispatch(w, th') /\ Stays(w, th')
<1>1. CASE Promotes(d)
  <2>1. th' = w  BY <1>1 DEF HandOver
  <2> QED  BY <2>1 DEF NoDispatch, Stays
<1>2. CASE ~Promotes(d)
  <2>1. th' = Release(w)  BY <1>2 DEF HandOver
  <2> QED  BY <2>1, ReleaseCore
<1> QED  BY <1>1, <1>2

LEMMA HandOverCur ==
    ASSUME NEW w, Good(w), NEW d
    PROVE  HandOver(w, d).cur = w.cur
  BY ReleaseStays DEF HandOver

\* The queue forgets the turn of a session that is gone, and a restart is asked for.
NotedFor(z, d) ==
    [NoteDirectTurn(z) EXCEPT !.restarts = Append(@, [job |-> d, on |-> z.cur])]

LEMMA NotedCore ==
    ASSUME NEW z, NEW X, NEW N, NEW G, NEW n, Core(z, X, N, G, n), ~Up(z), Has(z, "direct"),
           ~Has(z, "restarting"), ~Has(z, "starting"), NEW d \in Inputs,
           NEW v, v = NotedFor(z, d)
    PROVE  /\ Core(v, X, N, G, n) /\ NoDispatch(z, v) /\ v.cur = z.cur
           /\ v.restarts = Append(z.restarts, [job |-> d, on |-> z.cur])
           /\ Stays([z EXCEPT !.restarts = v.restarts], v)
<1> DEFINE a == Off(z, {"awaiting", "completed"})
           t == ResetTurn(a)
           r == Append(z.restarts, [job |-> d, on |-> z.cur])
<1>1. Good(z) /\ z \in Threads /\ Believes(z, G, n) /\ Loss(z, X, N) /\ Conn(z)  BY DEF Core, Good
<1>2. NoteDirectTurn(z) = t
  <2>1. (z.flags \ {"awaiting", "completed"}) \ {"done"} = z.flags \ {"awaiting", "completed", "done"}
    OBVIOUS
  <2> QED  BY <1>1, <2>1 DEF NoteDirectTurn, ResetTurn, Off, Threads
<1>3. z.phase = "none"  BY <1>1 DEF Conn, Believes
<1>4. Serves(z, z, X, N, G, n)  BY <1>1, ServesItself
<1>5. Serves(z, a, X, N, G, n)  BY <1>4, ServesOff DEF SessionFlags
<1>6. a.phase = "none" /\ a \in Threads  BY <1>3, <1>4, <1>5, ServedSame
<1> HIDE DEF a
<1>7. Serves(z, t, X, N, G, n)  BY <1>5, <1>6, ServesReset
<1>8. Core(t, X, N, G, n) /\ NoDispatch(z, t) /\ Stays(z, t)  BY <1>1, <1>7, ServedCore
<1>9. Good(t) /\ t \in Threads /\ Believes(t, G, n) /\ Loss(t, X, N) /\ Conn(t) /\ Same(z, t)
      /\ t.flags \cap SessionFlags = z.flags \cap SessionFlags /\ ~Has(t, "restarting")
  BY <1>7, <1>8 DEF Core, Good, Serves, Tame
<1> HIDE DEF t
<1>10. t.restarts = z.restarts /\ z.cur \in Nat /\ z.restarts \in Seq([job : Jobs, on : Nat])
  BY <1>1, <1>9 DEF Same, Threads
<1>11. v = [t EXCEPT !.restarts = r]  BY <1>2, <1>9, <1>10 DEF Threads, NotedFor
<1>12. [job |-> d, on |-> z.cur] \in [job : Jobs, on : Nat]  BY <1>10 DEF Jobs
<1>13. r \in Seq([job : Jobs, on : Nat])
       /\ \A i \in DOMAIN r : \/ i \in DOMAIN z.restarts /\ r[i] = z.restarts[i]
                              \/ r[i] = [job |-> d, on |-> z.cur]
  <2> DEFINE q == [job |-> d, on |-> z.cur]
  <2> HIDE DEF q
  <2> QED  BY <1>10, <1>12 DEF q
<1> HIDE DEF r
<1>14. /\ v \in Threads /\ v.items = t.items /\ v.active = t.active /\ v.turn = t.turn
       /\ v.flags = t.flags /\ v.job = t.job /\ v.phase = t.phase /\ v.late = t.late /\ v.slot = t.slot
       /\ v.restarts = r /\ v.cur = t.cur /\ v.status = t.status /\ v.res = t.res
  BY <1>9, <1>11, <1>13 DEF Threads
<1>15. Good(v)  BY <1>9, <1>14 DEF Good, Once
<1>16. Loss(v, X, N)  BY <1>9, <1>14 DEF Loss, Safe, Pending
<1>17. Up(v) <=> Up(t)  BY <1>14 DEF Up, Has
<1>18. Believes(v, G, n)  BY <1>9, <1>14, <1>17 DEF Believes, Has
<1>19. ~Has(v, "starting")  BY <1>9, <1>14 DEF Has, SessionFlags
<1>20. Restarting(v)
  <2>1. \A i \in DOMAIN z.restarts : z.restarts[i].job \in Inputs
    BY <1>1 DEF Conn, Restarting
  <2>2. \A i \in DOMAIN r : r[i].job \in Inputs  BY <1>13, <2>1
  <2>3. ~Has(v, "restarting")  BY <1>9, <1>14 DEF Has
  <2> QED  BY <1>14, <2>2, <2>3 DEF Restarting
<1>21. Conn(v)  BY <1>9, <1>14, <1>17, <1>19, <1>20 DEF Conn, Owed, Provider, Has
<1>22. NoDispatch(z, v)  BY <1>8, <1>14 DEF NoDispatch
<1>23. Stays([z EXCEPT !.restarts = v.restarts], v)
  BY <1>1, <1>8, <1>14 DEF Stays, Has, Threads
<1> QED  BY <1>9, <1>14, <1>15, <1>16, <1>18, <1>21, <1>22, <1>23 DEF Core, Same, r

LEMMA SubmitToDeadServed ==
    ASSUME SInv, NEW d \in Inputs, SubmitToDead(d)
    PROVE  /\ Served' /\ NoDispatch(th, th')
           /\ Stays([th EXCEPT !.restarts = th'.restarts], th')
           /\ th'.restarts = IF th.cur # 0 /\ ~Promotes(d)
                             THEN Append(th.restarts, [job |-> d, on |-> th.cur]) ELSE th.restarts
           /\ th.cur # 0 /\ ~Promotes(d) => th'.active.stage \notin {"sent", "admitted"}
<1> DEFINE z == MarkStarted(th, FALSE)
           G == IF th.cur # 0 /\ ~Promotes(d) THEN Waiting \cup {d} ELSE Waiting
<1>1. /\ Core(th, Due, ran, Waiting, native) /\ th \in Threads /\ Believes(th, Waiting, native)
      /\ Good(th) /\ Loss(th, Due, ran) /\ Conn(th)
  BY StartsServing
<1>2. Pc(d) = "ready" /\ ~Up(th) /\ ~Has(th, "starting")  BY DEF SubmitToDead, Live, Up
<1>3. th.res # 0 /\ th.active.stage # "sent" /\ ~Has(th, "restarting")  BY <1>2, ReadyInput
<1>4. Keeps(th, z)  BY <1>1, MarkedEffect
<1>5. z = MarkedFor(th, FALSE, th.slot)
  BY <1>4, SlotKept DEF Keeps, Same, Good, MarkedFor
<1> HIDE DEF z
<1>6. th.slot \in Inputs \cup {None} /\ (native => th.slot = None)  BY <1>1 DEF Threads, Believes
<1>7. /\ Core(z, Due, ran, G, native) /\ Has(z, "direct") /\ z.active.stage \in {"none", "preparing"}
      /\ Stays([th EXCEPT !.slot = th.slot], z) /\ NoDispatch(th, z)
      /\ \A g \in SessionFlags \cup {"restarting"} : Has(z, g) <=> Has(th, g)
  <2>1. (th.res = 0 => G = {}) /\ (th.phase = "setup" /\ th.job \in Waiting => th.job \in G)
    BY <1>3
  <2>2. MayMark(th, FALSE, th.slot, Due, ran, Waiting, native, G)
    BY <1>1, <1>2, <1>3, <1>6, <2>1 DEF MayMark
  <2> HIDE DEF G
  <2>3. IsMarked(th, z, th.slot, Due, ran, native, G)  BY ONLY <1>5, <2>2, MarkedCore
  <2> QED  BY <2>3 DEF IsMarked
<1>8. Stays(th, z)  BY <1>1, <1>7, SlotKept
<1>9. native' = native /\ queued' = queued /\ withdrawn' = withdrawn /\ begun' = begun /\ ran' = ran
  BY DEF SubmitToDead, histories
<1>10. CASE th.cur # 0 /\ ~Promotes(d)
  <2>1. th' = [NoteDirectTurn(z) EXCEPT !.restarts = Append(@, [job |-> d, on |-> th.cur])]
        /\ inputs' = Hand(d, "handed")
    BY <1>10 DEF SubmitToDead, z
  <2>2. z.cur = th.cur /\ z.restarts = th.restarts  BY <1>8 DEF Stays
  <2>3. ~Up(z) /\ ~Has(z, "restarting") /\ ~Has(z, "starting")
    BY <1>2, <1>3, <1>7, <2>2 DEF Up, SessionFlags
  <2>9. th' = NotedFor(z, d)  BY <2>1, <2>2 DEF NotedFor
  <2> HIDE DEF G
  <2>4. /\ Core(th', Due, ran, G, native) /\ NoDispatch(z, th') /\ th'.cur = z.cur
        /\ th'.restarts = Append(z.restarts, [job |-> d, on |-> z.cur])
        /\ Stays([z EXCEPT !.restarts = th'.restarts], th')
    BY <1>7, <2>3, <2>9, NotedCore
  <2>5. NoDispatch(th, th')  BY <1>7, <2>4, Chains
  <2>6. Stays([th EXCEPT !.restarts = th'.restarts], th')
    <3>1. z \in Threads  BY <1>7 DEF Core, Good
    <3> QED  BY <1>1, <1>8, <2>4, <3>1 DEF Stays, Has, Threads
  <2>7. Onward /\ Waiting' = G  BY <1>2, <1>10, <2>1, <2>2, <2>4, HandMoves DEF G
  <2>8. Served'  BY <1>9, <2>4, <2>7, Answers
  <2>10. th'.active.stage \notin {"sent", "admitted"}  BY <1>7, <2>4 DEF NoDispatch
  <2> QED  BY <1>10, <2>2, <2>4, <2>5, <2>6, <2>8, <2>10
<1>11. CASE ~(th.cur # 0 /\ ~Promotes(d))
  <2>1. (th' = th \/ th' = z) /\ inputs' = Hand(d, "refused")  BY <1>11 DEF SubmitToDead, z
  <2>2. Core(th', Due, ran, G, native) /\ NoDispatch(th, th') /\ Stays(th, th')
    BY <1>1, <1>7, <1>8, <1>11, <2>1 DEF NoDispatch, Stays, G
  <2>3. th'.cur = th.cur /\ th'.restarts = th.restarts  BY <2>2 DEF Stays
  <2>4. Onward /\ Waiting' = G  BY <1>2, <1>11, <2>1, <2>3, HandMoves DEF G
  <2>5. Served'  BY <1>9, <2>2, <2>4, Answers
  <2>6. [th EXCEPT !.restarts = th'.restarts] = th  BY <1>1, <2>3 DEF Threads
  <2> QED  BY <1>11, <2>2, <2>3, <2>5, <2>6
<1> QED  BY <1>10, <1>11

LEMMA SubmitToIdleServed ==
    ASSUME SInv, IInv', NEW d \in Inputs, SubmitToIdle(d)
    PROVE  /\ Served' /\ NoDispatch(th, th') /\ Stays([th EXCEPT !.job = d], th')
           /\ th'.slot = None /\ th'.active.stage \notin {"sent", "admitted"}
<1> DEFINE i == FALSE
           z == MarkedFor(th, i, None)
           w == StartDirect(z, d)
           G == (Waiting \ {th.slot}) \cup (IF Promotes(d) THEN {d} ELSE {})
<1>1. /\ Core(th, Due, ran, Waiting, native) /\ th \in Threads /\ Believes(th, Waiting, native)
      /\ Good(th) /\ Loss(th, Due, ran) /\ Conn(th)
  BY StartsServing
<1>2. Pc(d) = "ready" /\ Up(th) /\ ~Has(th, "starting")  BY DEF SubmitToIdle, Live, Up
<1>3. /\ th.res # 0 /\ th.active.stage # "sent" /\ ~Has(th, "restarting")
      /\ th.job # d /\ \A k \in DOMAIN th.restarts : th.restarts[k].job \in Inputs
  BY <1>2, ReadyInput
<1>4. i \in BOOLEAN /\ ~i  OBVIOUS
<1>5. th' = HandOver(w, d) /\ inputs' = HandedOver(d)  BY DEF SubmitToIdle, MarkedFor
<1> HIDE DEF i
<1>6. (th.res = 0 => G = {}) /\ (th.phase = "setup" /\ th.job \in Waiting => th.job \in G)
  <2>1. th.job \in Inputs => th.job # th.slot  BY DEF SInv, Links, Steers
  <2> QED  BY <1>3, <2>1 DEF Waiting
<1> HIDE DEF G, z
<1>7. /\ Core(z, Due, ran, G, native) /\ Has(z, "direct") /\ z.active.stage \in {"none", "preparing"}
      /\ Stays([th EXCEPT !.slot = None], z) /\ NoDispatch(th, z) /\ Same([th EXCEPT !.slot = None], z)
      /\ \A g \in SessionFlags \cup {"restarting"} : Has(z, g) <=> Has(th, g)
  <2>1. MayMark(th, i, None, Due, ran, Waiting, native, G)
    BY <1>1, <1>3, <1>4, <1>6 DEF MayMark
  <2>2. z = MarkedFor(th, i, None)  BY DEF z
  <2>3. IsMarked(th, z, None, Due, ran, native, G)  BY ONLY <2>1, <2>2, MarkedCore
  <2> QED  BY <2>3 DEF IsMarked
<1>8. /\ z.job = th.job /\ z.phase = th.phase /\ z.late = th.late /\ z.slot = None
      /\ z.restarts = th.restarts /\ z.cur = th.cur /\ z.res = th.res
  BY <1>1, <1>7 DEF Same, Threads
<1>9. Up(z) /\ ~Has(z, "restarting") /\ ~Has(z, "starting")
  BY <1>2, <1>3, <1>7, <1>8 DEF Up, SessionFlags
<1>10. z.phase \in {"none", "done"} => z.late = None  BY <1>1, <1>8 DEF Believes
<1>11. z.phase \notin {"none", "done"} => z.job \notin {d, None}
  BY <1>1, <1>3, <1>8 DEF Believes
<1>12. Holds(z, z) /\ Loss(z, Due, ran)  BY <1>7, CoreHolds DEF Core
<1>13. (z.res = 0 => G = {}) /\ \A k \in DOMAIN z.restarts : z.restarts[k].job \in Inputs
  BY <1>3, <1>8
<1>14. Core(w, Due, ran, G, native) /\ NoDispatch(z, w) /\ Stays([z EXCEPT !.job = d], w)
  BY <1>7, <1>8, <1>9, <1>10, <1>11, <1>12, <1>13, StartDirectCore
<1> HIDE DEF w
<1>15. Good(w) /\ z \in Threads /\ w.cur = th.cur
  BY <1>7, <1>8, <1>14 DEF Core, Good, Stays, Threads
<1>16. th'.cur = th.cur  BY <1>5, <1>15, HandOverCur
<1>17. Onward /\ Waiting' = G  BY <1>2, <1>5, <1>16, HandedOverTo DEF G
<1>18. Core(th', Due, ran, Waiting', native) /\ NoDispatch(w, th') /\ Stays(w, th')
  BY <1>5, <1>14, <1>17, HandedCore
<1>19. native' = native /\ queued' = queued /\ withdrawn' = withdrawn /\ begun' = begun /\ ran' = ran
  BY DEF SubmitToIdle, histories
<1>20. NoDispatch(th, th')  BY <1>7, <1>14, <1>18, Chains
<1>21. w.slot = None /\ th'.slot = None
  <2>1. [z EXCEPT !.job = d].slot = None  BY <1>8, <1>15 DEF Threads
  <2> QED  BY <1>14, <1>18, <2>1 DEF Stays
<1>22. Stays([th EXCEPT !.job = d], th')
  <2>1. Stays([th EXCEPT !.job = d], w)
    <3>1. z.active.on \in {0, th.active.on, th.cur} /\ (Has(th, "dead") => Has(z, "dead"))
      BY <1>1, <1>7 DEF Stays, Has, Threads
    <3>2. /\ w.cur = z.cur /\ w.active.on \in {0, z.active.on, z.cur} /\ w.restarts = z.restarts
          /\ Has(z, "dead") => Has(w, "dead")
          /\ w.job \in {d, None}
      BY <1>14, <1>15 DEF Stays, Has, Threads
    <3>3. /\ [th EXCEPT !.job = d].cur = th.cur /\ [th EXCEPT !.job = d].active = th.active
          /\ [th EXCEPT !.job = d].restarts = th.restarts /\ [th EXCEPT !.job = d].job = d
          /\ [th EXCEPT !.job = d].flags = th.flags
      BY <1>1 DEF Threads
    <3> QED  BY <1>8, <1>21, <3>1, <3>2, <3>3 DEF Stays, Has
  <2> QED  BY <1>18, <2>1, Chains
<1>23. th'.active.stage \notin {"sent", "admitted"}  BY <1>7, <1>14, <1>18 DEF NoDispatch
<1> QED  BY <1>17, <1>18, <1>19, <1>20, <1>21, <1>22, <1>23, Answers

LEMMA SteerNativelyServed ==
    ASSUME SInv, NEW d \in Inputs, SteerNatively(d)
    PROVE  /\ Served' /\ NoDispatch(th, th') /\ Stays(th, th')
           /\ th'.active.stage \notin {"sent", "admitted"}
<1> DEFINE i == FALSE
           z == MarkedFor(th, i, None)
           G == Waiting \cup {d}
<1>1. /\ Core(th, Due, ran, Waiting, native) /\ th \in Threads /\ Believes(th, Waiting, native)
      /\ Good(th) /\ Loss(th, Due, ran) /\ Conn(th)
  BY StartsServing
<1>2. Pc(d) = "ready" /\ native /\ inputs' = Hand(d, "handed")  BY DEF SteerNatively
<1>3. th.res # 0 /\ th.active.stage # "sent"  BY <1>2, ReadyInput
<1>4. i \in BOOLEAN /\ ~i /\ th.slot = None  BY <1>1, <1>2 DEF Believes
<1>5. th' = Off(z, {"awaiting", "completed"})
  <2>1. Keeps(th, MarkStarted(th, FALSE))  BY <1>1, MarkedEffect
  <2>2. MarkStarted(th, FALSE) \in Threads /\ MarkStarted(th, FALSE).slot = None
    BY <1>4, <2>1 DEF Keeps, Good, Same
  <2>3. z = MarkStarted(th, FALSE)  BY <2>2, SlotKept DEF MarkedFor
  <2> QED  BY <2>3 DEF SteerNatively
<1> HIDE DEF i
<1>6. (th.res = 0 => G = {}) /\ (th.phase = "setup" /\ th.job \in Waiting => th.job \in G)
  BY <1>3
<1> HIDE DEF G, z
<1>7. /\ Core(z, Due, ran, G, native) /\ Stays([th EXCEPT !.slot = None], z) /\ NoDispatch(th, z)
      /\ Same([th EXCEPT !.slot = None], z) /\ z.active.stage \in {"none", "preparing"}
  <2>1. MayMark(th, i, None, Due, ran, Waiting, native, G)
    BY <1>1, <1>3, <1>4, <1>6 DEF MayMark
  <2>2. z = MarkedFor(th, i, None)  BY DEF z
  <2>3. IsMarked(th, z, None, Due, ran, native, G)  BY ONLY <2>1, <2>2, MarkedCore
  <2> QED  BY <2>3 DEF IsMarked
<1>8. z.slot = None /\ Stays(th, z) /\ z.cur = th.cur
  BY <1>1, <1>4, <1>7, SlotKept DEF Same, Stays
<1>9. Serves(z, z, Due, ran, G, native) /\ Conn(z)  BY <1>7, ServesItself DEF Core
<1>10. Serves(z, th', Due, ran, G, native)  BY <1>5, <1>8, <1>9, ServesOff DEF SessionFlags
<1>11. Core(th', Due, ran, G, native) /\ NoDispatch(z, th') /\ Stays(z, th')
  BY <1>9, <1>10, ServedCore
<1>12. NoDispatch(th, th') /\ Stays(th, th')  BY <1>7, <1>8, <1>11, Chains
<1>13. th'.cur = th.cur  BY <1>12 DEF Stays
<1>14. Onward /\ Waiting' = G  BY <1>2, <1>13, HandMoves DEF G
<1>15. native' = native /\ queued' = queued /\ withdrawn' = withdrawn /\ begun' = begun /\ ran' = ran
  BY DEF SteerNatively, histories
<1>16. th'.active.stage \notin {"sent", "admitted"}  BY <1>7, <1>11 DEF NoDispatch
<1> QED  BY <1>11, <1>12, <1>14, <1>15, <1>16, Answers

LEMMA StageSteerServed ==
    ASSUME SInv, IInv', Races = {}, NEW d \in Inputs, StageSteer(d)
    PROVE  /\ Served' /\ NoDispatch(th, th') /\ Stays([th EXCEPT !.slot = d], th')
           /\ th'.active.stage \notin {"sent", "admitted"}
<1> DEFINE i == TRUE
           z == MarkedFor(th, i, d)
           w == Interrupt(z)
           G == (Waiting \ {th.slot}) \cup (IF Promotes(d) THEN {d} ELSE {})
<1>1. /\ Core(th, Due, ran, Waiting, native) /\ th \in Threads /\ Believes(th, Waiting, native)
      /\ Good(th) /\ Loss(th, Due, ran) /\ Conn(th)
  BY StartsServing
<1>2. Pc(d) = "ready" /\ Up(th) /\ ~Has(th, "quiet") /\ ~native
  BY DEF StageSteer, Live, Up
<1>3. th.res # 0 /\ th.active.stage # "sent"  BY <1>2, ReadyInput
<1>4. i \in BOOLEAN /\ i  OBVIOUS
<1>5. th' = HandOver(w, d) /\ inputs' = HandedOver(d)  BY DEF StageSteer, MarkedFor
<1> HIDE DEF i
<1>6. (th.res = 0 => G = {}) /\ (th.phase = "setup" /\ th.job \in Waiting => th.job \in G)
  <2>1. th.job \in Inputs => th.job # th.slot  BY DEF SInv, Links, Steers
  <2> QED  BY <1>3, <2>1 DEF Waiting
<1> HIDE DEF G, z
<1>7. /\ Core(z, Due, ran, G, native) /\ Stays([th EXCEPT !.slot = d], z) /\ NoDispatch(th, z)
      /\ Same([th EXCEPT !.slot = d], z) /\ z.active.stage \in {"none", "preparing"}
      /\ \A g \in SessionFlags \cup {"restarting"} : Has(z, g) <=> Has(th, g)
  <2>1. /\ IF i THEN ~native ELSE d = None \/ ~Up(th)
        /\ (native => d = None) /\ d \in Inputs \cup {None}
    BY <1>2, <1>4
  <2>2. z = MarkedFor(th, i, d)  BY DEF z
  <2>3. MayMark(th, i, d, Due, ran, Waiting, native, G)
    BY <1>1, <1>3, <1>4, <1>6, <2>1 DEF MayMark
  <2>4. IsMarked(th, z, d, Due, ran, native, G)  BY ONLY <2>2, <2>3, MarkedCore
  <2> QED  BY <2>4 DEF IsMarked
<1>8. z.cur = th.cur  BY <1>1, <1>7 DEF Same, Threads
<1>9. Up(z) /\ ~Has(z, "quiet")  BY <1>2, <1>7, <1>8 DEF Up, SessionFlags
<1>10. Core(w, Due, ran, G, native) /\ NoDispatch(z, w) /\ Stays(z, w)
  BY <1>7, <1>9, InterruptCore
<1> HIDE DEF w
<1>11. Good(w) /\ w.cur = th.cur  BY <1>8, <1>10 DEF Core, Stays
<1>12. th'.cur = th.cur  BY <1>5, <1>11, HandOverCur
<1>13. Onward /\ Waiting' = G  BY <1>2, <1>5, <1>12, HandedOverTo DEF G
<1>14. Core(th', Due, ran, Waiting', native) /\ NoDispatch(w, th') /\ Stays(w, th')
  BY <1>5, <1>10, <1>13, HandedCore
<1>15. native' = native /\ queued' = queued /\ withdrawn' = withdrawn /\ begun' = begun /\ ran' = ran
  BY DEF StageSteer, histories
<1>16. NoDispatch(th, th')  BY <1>7, <1>10, <1>14, Chains
<1>17. Stays([th EXCEPT !.slot = d], th')
  <2> DEFINE y == [th EXCEPT !.slot = d]
  <2> HIDE DEF y
  <2>1. Stays(y, z)  BY <1>7 DEF y
  <2>2. Stays(y, th')  BY <1>10, <1>14, <2>1, Chains
  <2> QED  BY <2>2 DEF y
<1>18. th'.active.stage \notin {"sent", "admitted"}  BY <1>7, <1>10, <1>14 DEF NoDispatch
<1> QED  BY <1>13, <1>14, <1>15, <1>16, <1>17, <1>18, Answers

-----------------------------------------------------------------------------
(* The pump.                                                               *)

LEMMA PumpEndsServed ==
    ASSUME SInv, PumpEnds
    PROVE  Served' /\ NoDispatch(th, th') /\ Stays(th, th')
<1> DEFINE w == [th EXCEPT !.pump = "off"]
<1>1. th' = IF Has(w, "again") THEN Schedule(Off(w, {"again"})) ELSE EmitState(w)  BY DEF PumpEnds
<1>2. Serves(th, w, Due, ran, Waiting, native)  BY StartsServing, ServesPump
<1> HIDE DEF w
<1>3. Serves(th, Off(w, {"again"}), Due, ran, Waiting, native)
  BY <1>2, ServesOff DEF SessionFlags
<1>4. Serves(th, th', Due, ran, Waiting, native)
  BY <1>1, <1>2, <1>3, ServesSchedule, ServesEmit
<1>5. Unheard  BY DEF PumpEnds, Unheard, histories
<1> QED  BY <1>4, <1>5, Resumes

\* The preparation fails only while nothing else has begun.
LEMMA PrepareFailsServed ==
    ASSUME SInv, Races = {}, PrepareFails
    PROVE  Served' /\ NoDispatch(th, th') /\ Stays(th, th')
<1> DEFINE w == [th EXCEPT !.pump = "ending"]
<1>1. th' = IF w.active.stage # "preparing" THEN w ELSE AdmissionFailed(w)  BY DEF PrepareFails
<1>2. /\ th \in Threads /\ Believes(th, Waiting, native)
      /\ Serves(th, w, Due, ran, Waiting, native)
  BY StartsServing, ServesPump
<1>3. w.phase = th.phase /\ w.active = th.active /\ w.flags = th.flags  BY <1>2 DEF Threads
<1> HIDE DEF w
<1>4. ~Has(th, "direct")  BY DEF PrepareFails
<1>5. w.active.stage = "preparing" => Serves(th, AdmissionFailed(w), Due, ran, Waiting, native)
  <2> SUFFICES ASSUME w.active.stage = "preparing"
               PROVE  Serves(th, AdmissionFailed(w), Due, ran, Waiting, native)
    OBVIOUS
  <2>1. w.phase \in {"none", "done"}  BY <1>2, <1>3, <1>4 DEF Believes
  <2>2. ~Has(w, "direct")  BY <1>3, <1>4 DEF Has
  <2> QED  BY <1>2, <2>1, <2>2, ServesAdmissionFailed
<1>6. Serves(th, th', Due, ran, Waiting, native)  BY <1>1, <1>2, <1>5
<1>7. Unheard  BY DEF PrepareFails, Unheard, histories
<1> QED  BY <1>6, <1>7, Resumes

\* While nobody reserves, no direct input is with a provider or a restart.
LEMMA NobodyRestarts ==
    ASSUME SInv, th.res = 0, th.active.stage # "sent"
    PROVE  th.restarts = <<>> /\ \A d \in Inputs : Pc(d) # "handed"
<1>1. Conn(th) /\ th \in Threads  BY StartsServing
<1>2. \A i \in DOMAIN th.restarts : th.restarts[i].job \in Inputs
  BY <1>1, NothingRestarts DEF Conn, Restarting
<1>3. \A d \in Inputs : Pc(d) \notin Reserved
  <2>1. SInv => IInv  BY DEF SInv
  <2> QED  BY <2>1, NobodyWaits
<1>4. \A d \in Inputs : Pc(d) # "handed"  BY <1>3 DEF Reserved
<1>5. DOMAIN th.restarts = {}  BY <1>2, <1>4 DEF SInv, Links, Restarts, Linked
<1>6. th.restarts \in Seq([job : Jobs, on : Nat])  BY <1>1 DEF Threads
<1>7. Len(th.restarts) = 0
  <2> DEFINE r == th.restarts
  <2> HIDE DEF r
  <2>1. DOMAIN r = {} /\ r \in Seq([job : Jobs, on : Nat])  BY <1>5, <1>6 DEF r
  <2>2. Len(r) \in Nat /\ DOMAIN r = 1 .. Len(r)  BY <2>1, LenProperties
  <2>3. Len(r) = 0  BY <2>1, <2>2
  <2> QED  BY <2>3 DEF r
<1> QED  BY <1>4, <1>6, <1>7, EmptySeq

LEMMA PreparedDispatches ==
    ASSUME SInv, Prepared, th.active.stage = "preparing",
           StillDeliverable([th EXCEPT !.pump = "ending"])
    PROVE  /\ Served'
           /\ th.phase \in {"none", "done"} /\ ~Has(th, "asks")
           /\ th.res = 0 /\ th.restarts = <<>> /\ \A d \in Inputs : Pc(d) # "handed"
           /\ th' = Dispatch([th EXCEPT !.pump = "ending"])
<1> DEFINE w == [th EXCEPT !.pump = "ending"]
<1>1. /\ th \in Threads /\ Conn(th) /\ Serves(th, w, Due, ran, Waiting, native)
  BY StartsServing, ServesPump
<1>2. /\ w.phase = th.phase /\ w.active = th.active /\ w.flags = th.flags /\ w.restarts = th.restarts
      /\ w.cur = th.cur /\ w.res = th.res
  BY <1>1 DEF Threads
<1>3. th' = Dispatch(w)  BY <1>2 DEF Prepared
<1>4. StillDeliverable(w)  OBVIOUS
<1> HIDE DEF w
<1>5. Core(w, Due, ran, Waiting, native)  BY <1>1, ServedCore
<1>6. w.res = 0
  <2>1. Drop(w).res = w.res  BY <1>1 DEF Drop, Serves, Good, Threads
  <2> QED  BY <1>4, <2>1 DEF StillDeliverable, CanDeliver, Ready
<1>7. th.restarts = <<>> /\ \A d \in Inputs : Pc(d) # "handed"
  BY <1>2, <1>6, NobodyRestarts
<1>8. Core(th', Due, ran, Waiting, native) /\ w.phase \in {"none", "done"} /\ ~Has(w, "asks")
  BY <1>2, <1>3, <1>4, <1>5, <1>7, DispatchCore
<1>9. th'.cur = th.cur
  BY <1>1, <1>2, <1>3, <1>5 DEF Dispatch, Start, On, Off, Has, Core, Good, Threads
<1>10. Unheard  BY DEF Prepared, Unheard, histories
<1>11. Served'  BY <1>8, <1>9, <1>10, Settles
<1> QED  BY <1>2, <1>3, <1>6, <1>7, <1>8, <1>11 DEF Has, w

LEMMA PreparedServed ==
    ASSUME SInv, Prepared,
           ~(th.active.stage = "preparing" /\ StillDeliverable([th EXCEPT !.pump = "ending"]))
    PROVE  Served' /\ NoDispatch(th, th') /\ Stays(th, th')
<1> DEFINE w == [th EXCEPT !.pump = "ending"]
<1>1. th \in Threads /\ Serves(th, w, Due, ran, Waiting, native)  BY StartsServing, ServesPump
<1>2. w.active = th.active  BY <1>1 DEF Threads
<1>3. th' = IF w.active.stage # "preparing" THEN w
            ELSE IF CanDeliver(Drop(w)) THEN AdmissionFailed(w)
            ELSE EmitState(Restore(w))
  BY <1>2 DEF Prepared
<1> HIDE DEF w
<1>4. ASSUME w.active.stage = "preparing", CanDeliver(Drop(w))
      PROVE  Serves(th, AdmissionFailed(w), Due, ran, Waiting, native)
  <2>1. Serves(th, Drop(w), Due, ran, Waiting, native)  BY <1>1, <1>4, ServesDrop
  <2>2. Good(Drop(w)) /\ Believes(Drop(w), Waiting, native) /\ w \in Threads
    BY <1>1, <2>1 DEF Serves, Good
  <2>3. Drop(w).phase \in {"none", "done"} /\ ~Has(Drop(w), "direct")
    BY <1>4, <2>2, ReadyIsQuiet
  <2>4. w.phase \in {"none", "done"} /\ ~Has(w, "direct")
    BY <2>2, <2>3 DEF Drop, Threads, Has
  <2> QED  BY <1>1, <1>4, <2>4, ServesAdmissionFailed
<1>5. w.active.stage = "preparing" => Serves(th, EmitState(Restore(w)), Due, ran, Waiting, native)
  BY <1>1, ServesRestore, ServesEmit
<1>6. Serves(th, th', Due, ran, Waiting, native)  BY <1>1, <1>3, <1>4, <1>5
<1>7. Unheard  BY DEF Prepared, Unheard, histories
<1> QED  BY <1>6, <1>7, Resumes

-----------------------------------------------------------------------------
(* What the provider says of its turn.                                     *)

\* v is u once the supervisor has noted what the provider says, before the queue hears it.
Hears(u, v) ==
    /\ v \in Threads /\ v.items = u.items /\ v.active = u.active /\ v.turn = u.turn
    /\ v.restarts = u.restarts /\ v.cur = u.cur /\ v.res = u.res /\ v.slot = u.slot
    /\ v.job \in {u.job, None}
    /\ \A f \in Flags \ {"quiet", "stop", "launch", "asks"} : Has(v, f) <=> Has(u, f)

LEMMA HeardLoss ==
    ASSUME NEW u, NEW v, Hears(u, v), Good(u), NEW X, NEW N, Loss(u, X, N), NEW Y, Y \subseteq X
    PROVE  Good(v) /\ Loss(v, Y, N)
<1>1. Good(v)  BY DEF Hears, Good, Once
<1>2. Safe(v) = Safe(u) /\ Pending(v) = Pending(u)  BY DEF Hears, Safe, Pending
<1>3. None \notin Pending(v) /\ (v.active.stage # "none" => v.active.entry # None)
  <2>1. v.items \in Seq(Entries)  BY <1>1 DEF Good, Threads
  <2>2. v.active.stage # "none" => v.active.entry \in Entries  BY <1>1 DEF Good, Once
  <2>3. ToSet(v.items) \subseteq Entries  BY <2>1 DEF ToSet
  <2> QED  BY <2>2, <2>3, NamesAssumption DEF Pending
<1>4. v.job \notin Pending(v)  BY <1>2, <1>3 DEF Hears, Loss
<1>5. v.active = u.active /\ v.cur = u.cur /\ v.job \in {u.job, None}  BY DEF Hears
<1> QED  BY <1>1, <1>2, <1>3, <1>4, <1>5 DEF Loss

LEMMA HeardOut ==
    ASSUME NEW u, Conn(u), Up(u), NEW v, Hears(u, v),
           v.job \in Entries /\ v.phase = "setup" => ~Has(v, "asks"),
           NEW w, NEW X, NEW N, NEW H, NEW n, Serves(v, w, X, N, H, n),
           w.active.stage # "sent"
    PROVE  Core(w, X, N, H, n) /\ NoDispatch(u, w) /\ Stays(u, w)
<1>1. Good(w) /\ Loss(w, X, N) /\ Believes(w, H, n) /\ Tame(v, w)  BY DEF Serves
<1>2. ~Has(u, "restarting")  BY NothingRestarts
<1>3. /\ v.restarts = u.restarts /\ v.cur = u.cur /\ v.slot = u.slot /\ v.job \in {u.job, None}
      /\ v.active = u.active
      /\ \A f \in {"dead", "starting", "restarting"} : Has(v, f) <=> Has(u, f)
  BY DEF Hears, Flags
<1>4. Same(v, w) /\ (Has(w, "restarting") => Has(v, "restarting"))
      /\ (Has(w, "asks") => Has(v, "asks"))
      /\ \A f \in {"dead", "starting"} : Has(w, f) <=> Has(v, f)
  BY <1>1 DEF Tame, Has, SessionFlags
<1>5. Conn(w)
  <2>1. Up(w)  BY <1>3, <1>4 DEF Up, Same
  <2>2. ~Has(w, "restarting")  BY <1>2, <1>3, <1>4
  <2>3. \A i \in DOMAIN w.restarts : w.restarts[i].job \in Inputs
    BY <1>2, <1>3, <1>4 DEF Conn, Restarting, Same
  <2>4. Has(w, "starting") => w.cur = 0  BY <1>3, <1>4 DEF Conn, Same
  <2>5. w.job \in Entries /\ w.phase = "setup" => ~Has(w, "asks")  BY <1>4 DEF Same
  <2> QED  BY <2>1, <2>2, <2>3, <2>4, <2>5 DEF Conn, Owed, Restarting, Up
<1>6. NoDispatch(u, w)  BY <1>1, <1>3 DEF Tame, NoDispatch
<1>7. Stays(u, w)  BY <1>1, <1>3, <1>4 DEF Tame, Stays, Same
<1> QED  BY <1>1, <1>5, <1>6, <1>7 DEF Core

LEMMA NotSent ==
    ASSUME NEW u, Conn(u), Up(u), u.phase # "setup"
    PROVE  u.active.stage # "sent"
<1>1. ~Has(u, "restarting")  BY NothingRestarts
<1> QED  BY <1>1 DEF Conn, Owed, Provider

LEMMA StillNotSent ==
    ASSUME NEW v, NEW w, NEW X, NEW N, NEW H, NEW n, Serves(v, w, X, N, H, n),
           v.active.stage # "sent"
    PROVE  w.active.stage # "sent"
  BY DEF Serves, Tame

\* The common case: the queue does w with what it hears, and no caller is answered.
LEMMA HeardServed ==
    ASSUME SInv, Live, NEW v, Hears(th, v),
           v.job \in Entries /\ v.phase = "setup" => ~Has(v, "asks"),
           Serves(v, th', Due, ran, Waiting, native), v.active.stage # "sent", Unheard
    PROVE  Served' /\ NoDispatch(th, th') /\ Stays(th, th')
<1>1. Conn(th) /\ Up(th)  BY StartsServing DEF Live, Up
<1>2. th'.active.stage # "sent"  BY StillNotSent
<1>3. Core(th', Due, ran, Waiting, native) /\ NoDispatch(th, th') /\ Stays(th, th')
  BY <1>1, <1>2, HeardOut
<1>4. th'.cur = th.cur  BY <1>3 DEF Stays
<1> QED  BY <1>3, <1>4, Settles

LEMMA AnsweredServed ==
    ASSUME SInv, Answered
    PROVE  Served' /\ NoDispatch(th, th') /\ Stays(th, th')
<1>1. Serves(th, Off(th, {"asks"}), Due, ran, Waiting, native)
  BY StartsServing, ServesOff DEF SessionFlags
<1>2. Serves(th, th', Due, ran, Waiting, native)  BY <1>1, ServesFinish DEF Answered
<1>3. Unheard  BY DEF Answered, Unheard, histories
<1> QED  BY <1>2, <1>3, Resumes

LEMMA AsksServed ==
    ASSUME SInv, Asks
    PROVE  Served' /\ NoDispatch(th, th') /\ Stays(th, th')
<1>1. /\ Good(th) /\ th \in Threads /\ Loss(th, Due, ran) /\ Believes(th, Waiting, native) /\ Conn(th)
  BY StartsServing
<1>2. /\ th' = On(Off(th, {"quiet"}), {"asks"}) /\ th.phase = "live" /\ Live  BY DEF Asks
<1>3. /\ th' \in Threads /\ th'.items = th.items /\ th'.active = th.active /\ th'.turn = th.turn
      /\ th'.restarts = th.restarts /\ th'.cur = th.cur /\ th'.res = th.res /\ th'.slot = th.slot
      /\ th'.job = th.job /\ th'.phase = th.phase /\ th'.late = th.late /\ th'.status = th.status
      /\ th'.flags = (th.flags \ {"quiet"}) \cup {"asks"}
  BY <1>1, <1>2 DEF Threads, On, Off, Flags
<1> DEFINE v == th'
<1>4. Hears(th, v)  BY <1>3 DEF Hears, Has
<1>5. Good(v) /\ Loss(v, Due, ran)  BY <1>1, <1>4, HeardLoss
<1>6. Believes(v, Waiting, native)  BY <1>1, <1>3 DEF Believes, Up, Has
<1>7. v.active.stage # "sent"  BY <1>1, <1>2, <1>3, NotSent DEF Live, Up
<1>8. Serves(v, v, Due, ran, Waiting, native) /\ v.phase = "live"
  BY <1>2, <1>3, <1>5, <1>6, ServesItself
<1>9. Unheard  BY DEF Asks, Unheard, histories
<1> QED  BY <1>2, <1>4, <1>7, <1>8, <1>9, HeardServed

LEMMA SaysCompletedServed ==
    ASSUME SInv, NEW end \in {"completed", "failed"}, SaysCompleted(end)
    PROVE  Served' /\ NoDispatch(th, th') /\ Stays(th, th')
<1> DEFINE v == IF th.phase = "live" THEN [Off(th, {"quiet"}) EXCEPT !.phase = "done"]
                ELSE [Off(th, {"quiet"}) EXCEPT !.phase = "none", !.job = None]
<1>1. /\ Good(th) /\ th \in Threads /\ Loss(th, Due, ran) /\ Believes(th, Waiting, native) /\ Conn(th)
  BY StartsServing
<1>2. th' = OnTurnCompleted(v, th.job, end) /\ th.phase \in {"live", "tail"} /\ th.late = None /\ Live
  BY DEF SaysCompleted
<1>3. /\ v \in Threads /\ v.items = th.items /\ v.active = th.active /\ v.turn = th.turn
      /\ v.restarts = th.restarts /\ v.cur = th.cur /\ v.res = th.res /\ v.slot = th.slot
      /\ v.late = th.late /\ v.status = th.status /\ v.flags = th.flags \ {"quiet"}
  <2>1. v \in Threads  BY <1>1 DEF Threads, Off
  <2> QED  BY <1>1, <2>1 DEF Threads, Off
<1>4. (v.phase = "done" /\ v.job = th.job) \/ (v.phase = "none" /\ v.job = None)
  <2>1. Off(th, {"quiet"}) \in Threads /\ Off(th, {"quiet"}).job = th.job  BY <1>1 DEF Threads, Off
  <2>2. CASE th.phase = "live"
    <3>1. v = [Off(th, {"quiet"}) EXCEPT !.phase = "done"]  BY <2>2
    <3> QED  BY <2>1, <3>1 DEF Threads
  <2>3. CASE th.phase # "live"
    <3>1. v = [Off(th, {"quiet"}) EXCEPT !.phase = "none", !.job = None]  BY <2>3
    <3> QED  BY <2>1, <3>1 DEF Threads
  <2> QED  BY <2>2, <2>3
<1> HIDE DEF v
<1>5. Hears(th, v)  BY <1>3, <1>4 DEF Hears, Has
<1>6. Good(v) /\ Loss(v, Due, ran)  BY <1>1, <1>5, HeardLoss
<1>7. th.job \in Jobs /\ th.job # None
  BY <1>1, <1>2, NamesAssumption DEF Believes, Threads, Jobs
<1>8. Believes(v, Waiting, native)  BY <1>1, <1>2, <1>3, <1>4, <1>7 DEF Believes, Up, Has
<1>9. Serves(v, v, Due, ran, Waiting, native)  BY <1>6, <1>8, ServesItself
<1>10. Serves(v, th', Due, ran, Waiting, native)
  BY <1>2, <1>4, <1>7, <1>9, ServesCompleted
<1>11. v.active.stage # "sent"  BY <1>1, <1>2, <1>3, NotSent DEF Live, Up
<1>12. Unheard  BY DEF SaysCompleted, Unheard, histories
<1> QED  BY <1>2, <1>4, <1>5, <1>10, <1>11, <1>12, HeardServed

\* A completion that comes after the next turn began is of no turn the queue knows.
LEMMA SaysLateServed ==
    ASSUME SInv, SaysLateCompletion
    PROVE  Served' /\ NoDispatch(th, th') /\ Stays(th, th')
<1> DEFINE v == [Off(th, {"quiet"}) EXCEPT !.late = None]
<1>1. /\ Good(th) /\ th \in Threads /\ Loss(th, Due, ran) /\ Believes(th, Waiting, native) /\ Conn(th)
  BY StartsServing
<1>2. th' = OnTurnCompleted(v, th.late, "completed") /\ th.late # None /\ Live
  BY DEF SaysLateCompletion
<1>3. /\ v \in Threads /\ v.items = th.items /\ v.active = th.active /\ v.turn = th.turn
      /\ v.restarts = th.restarts /\ v.cur = th.cur /\ v.res = th.res /\ v.slot = th.slot
      /\ v.job = th.job /\ v.phase = th.phase /\ v.late = None /\ v.status = th.status
      /\ v.flags = th.flags \ {"quiet"}
  BY <1>1 DEF Threads, Off
<1> HIDE DEF v
<1>4. Hears(th, v)  BY <1>3 DEF Hears, Has
<1>5. Good(v) /\ Loss(v, Due, ran)  BY <1>1, <1>4, HeardLoss
<1>6. Believes(v, Waiting, native)  BY <1>1, <1>3 DEF Believes, Up, Has
<1>7. th.late # th.turn /\ th.active.stage \in {"none", "preparing"}  BY <1>1, <1>2 DEF Believes
<1>8. th' = v
  <2>1. v.active.stage # "none" => v.active.turn # th.late
    BY <1>1, <1>2, <1>3, <1>7 DEF Good, Once
  <2> QED  BY <1>2, <1>3, <1>7, <2>1 DEF OnTurnCompleted
<1>9. Serves(v, th', Due, ran, Waiting, native)  BY <1>5, <1>6, <1>8, ServesItself
<1>10. v.job \in Entries /\ v.phase = "setup" => ~Has(v, "asks")  BY <1>1, <1>3 DEF Conn, Has
<1>11. Unheard  BY DEF SaysLateCompletion, Unheard, histories
<1> QED  BY <1>2, <1>3, <1>4, <1>7, <1>9, <1>10, <1>11, HeardServed

LEMMA FailsServed ==
    ASSUME SInv, Races = {}, Fails
    PROVE  Served' /\ NoDispatch(th, th') /\ Stays(th, th')
<1> DEFINE v == [Silent(th) EXCEPT !.status = "error"]
           G == Waiting \ {th.job}
<1>1. /\ Good(th) /\ th \in Threads /\ Loss(th, Due, ran) /\ Believes(th, Waiting, native) /\ Conn(th)
  BY StartsServing
<1>2. th' = PauseForFailure(v) /\ th.slot = None /\ Live /\ inputs' = Resolve({th.job}, "refused")
  BY DEF Fails
<1>3. /\ v \in Threads /\ v.items = th.items /\ v.active = th.active /\ v.turn = th.turn
      /\ v.restarts = th.restarts /\ v.cur = th.cur /\ v.res = th.res /\ v.slot = th.slot
      /\ v.job = None /\ v.phase = "none" /\ v.late = None /\ v.flags = th.flags
      /\ v.status = "error"
  BY <1>1 DEF Threads, Silent
<1> HIDE DEF v
<1>4. Hears(th, v)  BY <1>3 DEF Hears, Has
<1>5. Good(v) /\ Loss(v, Due, ran)  BY <1>1, <1>4, HeardLoss
<1>6. Believes(v, G, native)  BY <1>1, <1>2, <1>3 DEF Believes, Up, Has
<1> HIDE DEF G
<1>7. Serves(v, v, Due, ran, G, native)  BY <1>5, <1>6, ServesItself
<1>8. Conn(th) /\ Up(th) /\ ~Has(v, "restarting")
  BY <1>1, <1>2, <1>3, NothingRestarts DEF Live, Up, Has
<1>9. v.active.stage # "none" => v.active.entry # v.job
  BY <1>3, <1>5, NamesAssumption DEF Good, Once
<1>10. Serves(v, th', Due, ran, G, native) /\ th'.active.stage = "none"
  BY <1>2, <1>3, <1>7, <1>8, <1>9, ServesFailure
<1>11. Core(th', Due, ran, G, native) /\ NoDispatch(th, th') /\ Stays(th, th')
  BY <1>3, <1>4, <1>8, <1>10, HeardOut
<1>12. Waiting' = G  BY <1>2, <1>11, WaitingResolved DEF Stays, G
<1>13. Onward  BY <1>2, OnwardByOutcome
<1>14. native' = native /\ queued' = queued /\ withdrawn' = withdrawn /\ begun' = begun /\ ran' = ran
  BY DEF Fails, histories
<1> QED  BY <1>11, <1>12, <1>13, <1>14, Answers

LEMMA SaysWorkingServed ==
    ASSUME SInv, SaysWorking
    PROVE  Served' /\ NoDispatch(th, th') /\ Stays(th, th')
<1> DEFINE v == [Off(th, {"quiet"}) EXCEPT !.status = "working"]
           Y == Due \ {th.job}
<1>1. /\ Good(th) /\ th \in Threads /\ Loss(th, Due, ran) /\ Believes(th, Waiting, native) /\ Conn(th)
  BY StartsServing
<1>2. th' = Admit(v) /\ Live  BY DEF SaysWorking, OnUpdate
<1>3. /\ v \in Threads /\ v.items = th.items /\ v.active = th.active /\ v.turn = th.turn
      /\ v.restarts = th.restarts /\ v.cur = th.cur /\ v.res = th.res /\ v.slot = th.slot
      /\ v.job = th.job /\ v.phase = th.phase /\ v.late = th.late /\ v.status = "working"
      /\ v.flags = th.flags \ {"quiet"}
  BY <1>1 DEF Threads, Off
<1> HIDE DEF v
<1>4. Hears(th, v)  BY <1>3 DEF Hears, Has
<1>5. Good(v) /\ Loss(v, Y, ran)  BY <1>1, <1>4, HeardLoss
<1>6. Believes(v, Waiting, native)  BY <1>1, <1>3 DEF Believes, Up, Has
<1>7. Serves(v, v, Y, ran, Waiting, native)  BY <1>5, <1>6, ServesItself
<1>8. Conn(th) /\ Up(th) /\ ~Has(th, "restarting")
  BY <1>1, <1>2, NothingRestarts DEF Live, Up
<1>9. v.active.stage = "sent" => v.active.entry \notin Y /\ ~Has(v, "restarting")
                                 /\ v.active.on = v.cur
  BY <1>1, <1>3, <1>8 DEF Conn, Owed, Provider, Has
<1>10. Serves(v, th', Y, ran, Waiting, native) /\ th'.active.stage # "sent"
  BY <1>2, <1>7, <1>9, ServesAdmit
<1>11. v.job \in Entries /\ v.phase = "setup" => ~Has(v, "asks")  BY <1>1, <1>3 DEF Conn, Has
<1>12. Core(th', Y, ran, Waiting, native) /\ NoDispatch(th, th') /\ Stays(th, th')
  BY <1>4, <1>8, <1>10, <1>11, HeardOut
<1>13. Waiting' = Waiting /\ native' = native /\ ran' = ran
  BY <1>12 DEF Stays, SaysWorking, Waiting, Pc
<1>14. Due' \subseteq Y
  <2>1. queued \subseteq Entries  BY DEF SInv, IInv, TypeOK
  <2> QED  BY <2>1 DEF Due, Steered, Pc, SaysWorking
<1>15. Served'
  <2>1. (th'.phase = "setup" /\ th'.job \in Waiting => th'.job \in Waiting)
        /\ (th'.res = 0 => Waiting = {})
        /\ (th'.active.stage = "preparing" /\ Waiting # {} => Has(th', "direct"))
    BY <1>12 DEF Core, Believes
  <2> QED  BY <1>12, <1>13, <1>14, <2>1, CoreGives DEF Served
<1> QED  BY <1>12, <1>15

LEMMA SaysStartedServed ==
    ASSUME SInv, IInv', SaysStarted
    PROVE  Served' /\ NoDispatch(th, th') /\ Stays(th, th')
<1> DEFINE Y == Due \ {th.job}
           G == Waiting \ {th.job}
<1>1. Core(th, Due, ran, Waiting, native) /\ Good(th')
  <2>1. IInv' => Good(th')  BY DEF IInv, Sound
  <2> QED  BY <2>1, StartsServing
<1>2. /\ th' = TurnStarts(th)
      /\ th.phase = "setup" /\ Up(th) /\ inputs' = Resolve({th.job}, "accepted")
  BY DEF SaysStarted, Live, Up, TurnStarts
<1>3. Due' \subseteq Y
  <2>1. queued \subseteq Entries  BY DEF SInv, IInv, TypeOK
  <2>2. Due' \subseteq Due \ ({th.job} \cap Entries)
    <3>1. Steered \subseteq Steered'  BY <1>2, OnwardByOutcome DEF Onward, Steered, Pc
    <3> QED  BY <3>1 DEF Due, SaysStarted
  <2> QED  BY <2>1, <2>2 DEF Due
<1>4. Due' \subseteq Due \ {th.job} /\ ran' \subseteq ran \cup {th.job}  BY <1>3 DEF SaysStarted
<1>5. Core(th', Due', ran', G, native) /\ NoDispatch(th, th') /\ Stays(th, th')
  <2>1. G \subseteq Waiting  OBVIOUS
  <2> HIDE DEF G
  <2> QED  BY ONLY <1>1, <1>2, <1>4, <2>1, StartedCore
<1>6. Waiting' = G  BY <1>2, <1>5, WaitingResolved DEF Stays, G
<1>7. native' = native  BY DEF SaysStarted
<1> QED  BY <1>5, <1>6, <1>7 DEF Served

LEMMA SaysIdleServed ==
    ASSUME SInv, SaysIdle
    PROVE  /\ Served' /\ NoDispatch(th, th')
           /\ IF th.slot = None THEN Stays(th, th')
              ELSE Stays([th EXCEPT !.job = th.slot], th') /\ th'.slot = None
<1> DEFINE w == [Off(th, {"stop"}) EXCEPT !.status = "idle",
                                          !.phase = IF @ = "live" THEN "tail" ELSE "none",
                                          !.job = IF th.phase = "live" THEN @ ELSE None]
           d == th.slot
           z == [w EXCEPT !.slot = None]
           s == StartDirect(z, d)
<1>1. /\ Good(th) /\ th \in Threads /\ Loss(th, Due, ran) /\ Believes(th, Waiting, native) /\ Conn(th)
      /\ Core(th, Due, ran, Waiting, native)
  BY StartsServing
<1>2. /\ th' = OnUpdate(IF w.slot = None THEN w ELSE StartDirect(z, w.slot), "idle")
      /\ th.phase \in {"live", "done"} /\ Live
  BY DEF SaysIdle
<1>3. /\ w \in Threads /\ w.items = th.items /\ w.active = th.active /\ w.turn = th.turn
      /\ w.restarts = th.restarts /\ w.cur = th.cur /\ w.res = th.res /\ w.slot = th.slot
      /\ w.late = th.late /\ w.status = "idle" /\ w.flags = th.flags \ {"stop"}
      /\ w.phase = (IF th.phase = "live" THEN "tail" ELSE "none")
      /\ w.job = (IF th.phase = "live" THEN th.job ELSE None)
  <2> DEFINE o == Off(th, {"stop"})
             p == IF th.phase = "live" THEN "tail" ELSE "none"
             j == IF th.phase = "live" THEN th.job ELSE None
  <2>1. /\ o \in Threads /\ o.items = th.items /\ o.active = th.active /\ o.turn = th.turn
        /\ o.restarts = th.restarts /\ o.cur = th.cur /\ o.res = th.res /\ o.slot = th.slot
        /\ o.late = th.late /\ o.flags = th.flags \ {"stop"} /\ o.phase = th.phase
    BY <1>1 DEF Threads, Off
  <2>2. p \in {"none", "tail"} /\ j \in Jobs \cup {None}  BY <1>1 DEF Threads
  <2>3. w = [o EXCEPT !.status = "idle", !.phase = p, !.job = j]
    <3>1. o.job = th.job  BY <1>1 DEF Threads, Off
    <3> QED  BY <2>1, <3>1 DEF Threads
  <2> HIDE DEF o, p, j, w
  <2>4. /\ w \in Threads /\ w.items = o.items /\ w.active = o.active /\ w.turn = o.turn
        /\ w.restarts = o.restarts /\ w.cur = o.cur /\ w.res = o.res /\ w.slot = o.slot
        /\ w.late = o.late /\ w.status = "idle" /\ w.flags = o.flags /\ w.phase = p /\ w.job = j
    BY <2>1, <2>2, <2>3 DEF Threads
  <2> QED  BY <2>1, <2>4 DEF p, j
<1> HIDE DEF w
<1>4. Hears(th, w)  BY <1>3 DEF Hears, Has
<1>5. Good(w) /\ Loss(w, Due, ran)  BY <1>1, <1>4, HeardLoss
<1>6. Believes(w, Waiting, native)
  <2>1. Up(w) => Up(th)  BY <1>3 DEF Up, Has
  <2>2. th.phase = "live" => th.job # None  BY <1>1 DEF Believes
  <2>3. th.phase = "done" => th.late = None  BY <1>1 DEF Believes
  <2>4. CASE th.phase = "live"  BY <1>1, <1>3, <2>1, <2>2, <2>4 DEF Believes, Has
  <2>5. CASE th.phase = "done"  BY <1>1, <1>3, <2>1, <2>3, <2>5 DEF Believes, Has
  <2> QED  BY <1>2, <2>4, <2>5
<1>7. Serves(w, w, Due, ran, Waiting, native)  BY <1>5, <1>6, ServesItself
<1>8. Conn(th) /\ Up(th) /\ th.active.stage # "sent" /\ ~Has(th, "restarting")
  BY <1>1, <1>2, NotSent, NothingRestarts DEF Live, Up
<1>9. Unheard  BY DEF SaysIdle, Unheard, histories
<1>10. CASE th.slot = None
  <2>1. Serves(w, th', Due, ran, Waiting, native)
    BY <1>2, <1>3, <1>7, <1>10, ServesFinish DEF OnUpdate
  <2> QED  BY <1>2, <1>3, <1>4, <1>8, <1>9, <1>10, <2>1, HeardServed
<1>11. CASE th.slot # None
  <2>1. d \in Inputs /\ th.job # d  
    <3>1. d \in Inputs  BY <1>1, <1>11 DEF Threads
    <3> QED  BY <3>1 DEF SInv, Links, Steers
  <2>2. th' = FinishOrSchedule(s)  BY <1>2, <1>3, <1>11 DEF OnUpdate
  <2>3. /\ z \in Threads /\ z.items = w.items /\ z.active = w.active /\ z.turn = w.turn
        /\ z.restarts = w.restarts /\ z.cur = w.cur /\ z.res = w.res /\ z.slot = None
        /\ z.job = w.job /\ z.late = w.late /\ z.status = w.status /\ z.flags = w.flags
        /\ z.phase = w.phase
    BY <1>3 DEF Threads
  <2> HIDE DEF z, d
  <2>4. Up(z) /\ ~Has(z, "restarting") /\ ~Has(z, "starting")
    BY <1>1, <1>3, <1>8, <2>3 DEF Up, Has, Conn
  <2>5. Has(z, "direct") /\ z.active.stage \in {"none", "preparing"}
    BY <1>1, <1>3, <1>8, <1>11, <2>3 DEF Believes, Has
  <2>6. z.phase \in {"tail", "none"} /\ (z.phase = "none" => z.late = None)
    BY <1>3, <1>6, <2>3 DEF Believes
  <2>7. z.phase \notin {"none", "done"} => z.job \notin {d, None}
    BY <1>1, <1>3, <2>1, <2>3 DEF Believes
  <2>8. Good(z) /\ Loss(z, Due, ran)  BY <1>5, <2>3 DEF Good, Once, Loss, Safe, Pending
  <2>9. Holds(z, z)
    <3>1. z.phase # "none" => z.job \in Jobs
      BY <1>1, <1>3, <2>3, NamesAssumption DEF Threads, Believes, Jobs
    <3> QED  BY <2>8, <3>1, HoldsItself DEF Sound
  <2>10. \A k \in DOMAIN z.restarts : z.restarts[k].job \in Inputs
    BY <1>1, <1>3, <1>8, <2>3 DEF Conn, Restarting
  <2>11. z.res = 0 => Waiting = {}  BY <1>1, <1>3, <2>3 DEF Believes
  <2>12. /\ Core(s, Due, ran, Waiting, native) /\ NoDispatch(z, s) /\ Stays([z EXCEPT !.job = d], s)
    BY <2>1, <2>3, <2>4, <2>5, <2>6, <2>7, <2>8, <2>9, <2>10, <2>11, StartDirectCore
  <2> HIDE DEF s
  <2>13. Serves(s, s, Due, ran, Waiting, native) /\ Conn(s)  BY <2>12, ServesItself DEF Core
  <2>14. Serves(s, th', Due, ran, Waiting, native)  BY <2>2, <2>13, ServesFinish
  <2>15. Core(th', Due, ran, Waiting, native) /\ NoDispatch(s, th') /\ Stays(s, th')
    BY <2>13, <2>14, ServedCore
  <2>16. NoDispatch(th, th')  BY <1>3, <2>3, <2>12, <2>15 DEF NoDispatch
  <2>17. /\ s.cur = z.cur /\ s.active.on \in {0, z.active.on, z.cur} /\ s.restarts = z.restarts
         /\ Has(z, "dead") => Has(s, "dead")
         /\ s.job \in {d, None} /\ s.slot = None
    BY <2>3, <2>12 DEF Stays, Has, Threads
  <2>18. /\ [th EXCEPT !.job = d].cur = th.cur /\ [th EXCEPT !.job = d].active = th.active
         /\ [th EXCEPT !.job = d].restarts = th.restarts /\ [th EXCEPT !.job = d].job = d
         /\ [th EXCEPT !.job = d].flags = th.flags
    BY <1>1 DEF Threads
  <2>19. Stays([th EXCEPT !.job = d], s)
    BY <1>3, <2>3, <2>17, <2>18 DEF Stays, Has
  <2>20. Stays([th EXCEPT !.job = d], th') /\ th'.slot = None /\ th'.cur = th.cur
    <3>1. Stays([th EXCEPT !.job = d], th')  BY <2>15, <2>19, Chains
    <3> QED  BY <1>3, <2>3, <2>15, <2>17, <3>1 DEF Stays
  <2>21. Served'  BY <1>9, <2>15, <2>20, Settles
  <2> QED  BY <1>11, <2>16, <2>20, <2>21 DEF d
<1> QED  BY <1>10, <1>11

-----------------------------------------------------------------------------
(* A prompt that needs no turn, and what the callers of direct inputs hear. *)

LEMMA FinishDirectStays ==
    ASSUME NEW w \in Threads, w.active.stage # "none"
    PROVE  FinishDirect(w).active = w.active
<1> DEFINE a == Off(w, {"direct", "completed"})
           r == ResetTurn(a)
<1>1. a \in Threads /\ a.active = w.active  BY FlagsOff DEF Off, Threads
<1> HIDE DEF a
<1>2. r \in Threads /\ r.active = w.active  BY <1>1 DEF ResetTurn, Off, Threads
<1> HIDE DEF r
<1>3. Schedule(r).active = w.active  BY <1>2, ScheduleStays
<1> QED  BY <1>3 DEF FinishDirect, r, a

LEMMA WithoutTurnStays ==
    ASSUME NEW w \in Threads, w.active.stage # "none", FinishDirect(On(w, {"done", "completed"})) \in Threads
    PROVE  OnDirectWithoutTurn(w).active = w.active
<1> DEFINE a == On(w, {"done", "completed"})
           r == FinishDirect(a)
<1>1. a \in Threads /\ a.active = w.active  BY FlagsOn DEF On, Threads, Flags
<1> HIDE DEF a
<1>2. r.active = w.active  BY <1>1, FinishDirectStays
<1>3. r \in Threads  BY DEF a
<1> HIDE DEF r
<1>4. Schedule(r).active = w.active  BY <1>2, <1>3, ScheduleStays
<1> QED  BY <1>4 DEF OnDirectWithoutTurn, r, a

\* A delivery that has not ended is not finished by a change of the status.
LEMMA FinishStays ==
    ASSUME NEW w \in Threads, w.active.stage # "none", w.active.on = w.cur, w.active.end = "none"
    PROVE  FinishOrSchedule(w).active = w.active
<1>1. FinishOrSchedule(w) = Schedule(w)  BY DEF FinishOrSchedule, FinishActive
<1> QED  BY <1>1, ScheduleStays

\* The same after the completion of the queue's own message.
LEMMA FinishCompleted ==
    ASSUME NEW v \in Threads, v.active.stage # "none", v.active.on = v.cur, v.status = "idle",
           ~Has(v, "asks")
    PROVE  FinishOrSchedule([v EXCEPT !.active.end = "completed"])
               = Schedule(EmitState(ResetTurn(Drop(v))))
<1> DEFINE y == [v EXCEPT !.active.end = "completed"]
<1>1. /\ y.active.stage = v.active.stage /\ y.active.on = v.active.on /\ y.active.end = "completed"
      /\ y.cur = v.cur /\ y.status = v.status /\ y.flags = v.flags
  BY DEF Threads, Actives
<1>2. Drop(y) = Drop(v)  BY DEF Drop, Threads, Actives
<1> HIDE DEF y
<1>3. FinishActive(y) = EmitState(ResetTurn(Drop(y)))  BY <1>1 DEF FinishActive, Has
<1>4. FinishOrSchedule(y) = Schedule(FinishActive(y))  BY <1>1 DEF FinishOrSchedule
<1> QED  BY <1>2, <1>3, <1>4 DEF y

LEMMA WithoutTurnServed ==
    ASSUME SInv, CompletesWithoutTurn
    PROVE  Served' /\ NoDispatch(th, th') /\ Stays(th, th')
<1> DEFINE w == [Off(th, {"quiet", "launch"}) EXCEPT !.status = "idle", !.phase = "none",
                                                    !.job = None]
           v == IF Has(th, "launch") THEN FinishOrSchedule(OnDirectWithoutTurn(w))
                ELSE IF th.job \in Inputs THEN OnDirectWithoutTurn(w) ELSE w
           y == [v EXCEPT !.active.end = "completed"]
           Y == Due \ {th.job}
           G == Waiting \ {th.job}
           M == ran \cup ({th.job} \cap Entries)
<1>1. /\ Good(th) /\ th \in Threads /\ Loss(th, Due, ran) /\ Believes(th, Waiting, native) /\ Conn(th)
  BY StartsServing
<1>2. /\ th.phase = "setup" /\ th.late = None /\ Live /\ inputs' = Resolve({th.job}, "accepted")
      /\ th' = IF th.job \in Inputs THEN v
               ELSE FinishOrSchedule(IF v.active.stage # "none" /\ v.active.entry = th.job
                                     THEN y ELSE v)
  BY DEF CompletesWithoutTurn
<1>3. /\ w \in Threads /\ w.items = th.items /\ w.active = th.active /\ w.turn = th.turn
      /\ w.restarts = th.restarts /\ w.cur = th.cur /\ w.res = th.res /\ w.slot = th.slot
      /\ w.late = th.late /\ w.status = "idle" /\ w.flags = th.flags \ {"quiet", "launch"}
      /\ w.phase = "none" /\ w.job = None
  BY <1>1 DEF Threads, Off
<1> HIDE DEF w, Y, G, M
<1>4. Hears(th, w)  BY <1>3 DEF Hears, Has
<1>5. Good(w) /\ Loss(w, Y, ran)  BY <1>1, <1>4, HeardLoss DEF Y
<1>6. Believes(w, G, native)  BY <1>1, <1>2, <1>3 DEF Believes, Up, Has, G
<1>7. Serves(w, w, Y, ran, G, native)  BY <1>5, <1>6, ServesItself
<1>8. Conn(th) /\ Up(th) /\ ~Has(th, "restarting")
  BY <1>1, <1>2, NothingRestarts DEF Live, Up
<1>9. th.active.stage = "sent" => th.job = th.active.entry /\ th.active.on = th.cur
  BY <1>1, <1>8 DEF Conn, Owed, Provider
<1>10. ASSUME NEW N, Loss(w, Y, N)
       PROVE  Serves(w, v, Y, N, G, native)
  <2>1. Serves(w, w, Y, N, G, native)  BY <1>5, <1>6, <1>10, ServesItself
  <2>2. Serves(w, OnDirectWithoutTurn(w), Y, N, G, native)  BY <1>3, <2>1, ServesWithoutTurn
  <2>3. Serves(w, FinishOrSchedule(OnDirectWithoutTurn(w)), Y, N, G, native)
    BY <2>2, ServesFinish
  <2> QED  BY <2>1, <2>2, <2>3
<1>11. v \in Threads /\ Serves(w, v, Y, ran, G, native)  BY <1>5, <1>10 DEF Serves, Good
<1>12. native' = native /\ Onward /\ Due' \subseteq Y /\ ran' = M
  <2>1. Onward  BY <1>2, OnwardByOutcome
  <2>2. queued \subseteq Entries  BY DEF SInv, IInv, TypeOK
  <2>3. Steered \subseteq Steered'  BY <2>1 DEF Onward, Steered, Pc
  <2>4. Due' \subseteq Due \ ({th.job} \cap Entries)
    BY <2>3 DEF Due, CompletesWithoutTurn
  <2> QED  BY <2>1, <2>2, <2>4 DEF Due, Y, M, CompletesWithoutTurn
<1>13. SUFFICES Core(th', Y, M, G, native) /\ NoDispatch(th, th') /\ Stays(th, th')
  <2>1. ASSUME Core(th', Y, M, G, native), Stays(th, th') PROVE Served'
    <3>1. Waiting' = G  BY <1>2, <2>1, WaitingResolved DEF Stays, G
    <3>2. th'.res = 0 => G = {}  BY <2>1 DEF Core, Believes
    <3>3. th'.active.stage = "preparing" /\ G # {} => Has(th', "direct")
      BY <2>1 DEF Core, Believes
    <3> QED  BY <1>12, <2>1, <3>1, <3>2, <3>3, CoreGives DEF Served
  <2> QED  BY <2>1
<1>14. v.cur = th.cur /\ v.status = "idle" /\ v.phase = "none" /\ v.job = None
  BY <1>3, <1>11 DEF Serves, Tame, Same
<1>15. CASE th.job \in Inputs
  <2>1. M = ran  BY <1>15, NamesAssumption DEF M
  <2>2. Serves(w, th', Y, M, G, native)  BY <1>2, <1>11, <1>15, <2>1
  <2>3. w.active.stage # "sent"
    BY <1>1, <1>3, <1>9, <1>15, NamesAssumption DEF Good, Once
  <2>4. th'.active.stage # "sent"  BY <2>2, <2>3, StillNotSent
  <2>5. w.job \notin Entries  BY <1>3, NamesAssumption
  <2> QED  BY <1>4, <1>8, <2>2, <2>4, <2>5, HeardOut
<1>16. CASE th.job \in Entries /\ th.active.stage # "none" /\ th.active.entry = th.job
  <2>1. th.active.on = th.cur /\ th.active.end = "none"
    BY <1>1, <1>2, <1>16 DEF Loss, Believes
  <2>2. v.active = th.active
    <3>1. w.active = th.active /\ w.active.stage # "none" /\ w.active.on = w.cur
          /\ w.active.end = "none"
      BY <1>3, <1>16, <2>1
    <3> DEFINE o == OnDirectWithoutTurn(w)
    <3>2. Serves(w, o, Y, ran, G, native)  BY <1>3, <1>7, ServesWithoutTurn
    <3>3. o \in Threads /\ o.cur = w.cur  BY <3>2 DEF Serves, Good, Tame, Same
    <3>4. o.active = w.active
      <4>1. CASE ~Has(w, "direct")  BY <4>1 DEF OnDirectWithoutTurn
      <4>2. CASE Has(w, "direct")
        <5>1. Serves(w, On(w, {"done", "completed"}), Y, ran, G, native)
          BY <1>3, <1>7, <4>2, ServesOn
        <5>2. Serves(w, FinishDirect(On(w, {"done", "completed"})), Y, ran, G, native)
          BY <5>1, ServesFinishDirect
        <5>3. FinishDirect(On(w, {"done", "completed"})) \in Threads  BY <5>2 DEF Serves, Good
        <5> QED  BY <1>3, <3>1, <5>3, WithoutTurnStays
      <4> QED  BY <4>1, <4>2
    <3> HIDE DEF o
    <3>5. FinishOrSchedule(o).active = w.active  BY <3>1, <3>3, <3>4, FinishStays
    <3>6. v = FinishOrSchedule(o) \/ v = o \/ v = w  BY DEF o
    <3> HIDE DEF v
    <3> QED  BY <3>1, <3>4, <3>5, <3>6
  <2>3. ~Has(v, "asks")
    <3>1. ~Has(th, "asks")  BY <1>1, <1>2, <1>16 DEF Conn
    <3>2. ~Has(w, "asks")  BY <1>3, <3>1 DEF Has
    <3> HIDE DEF v
    <3> QED  BY <1>11, <3>2 DEF Serves, Tame
  <2>4. th.job \notin Inputs  BY <1>16, NamesAssumption
  <2>5. th' = FinishOrSchedule(y)
    <3> HIDE DEF v
    <3> QED  BY <1>2, <1>16, <2>2, <2>4
  <2> HIDE DEF v
  <2>6. th' = Schedule(EmitState(ResetTurn(Drop(v))))
    BY <1>11, <1>14, <1>16, <2>1, <2>2, <2>3, <2>5, FinishCompleted
  <2> DEFINE x == Drop(v)
  <2>7. Serves(w, x, Y, ran, G, native) /\ x.active = NoActive /\ x.items = v.items
    <3>1. v.active.stage = "sent" => v.active.entry \notin Y /\ ~Has(v, "restarting")
      <4>1. th.job \notin Y  BY DEF Y
      <4>2. ~Has(w, "restarting")  BY <1>3, <1>8 DEF Has
      <4>3. ~Has(v, "restarting")  BY <1>11, <4>2 DEF Serves, Tame
      <4> QED  BY <1>16, <2>2, <4>1, <4>3
    <3>2. x.items = v.items  BY <1>11 DEF Drop, Threads
    <3> QED  BY <1>11, <3>1, <3>2, ServesDrop
  <2> HIDE DEF x
  <2>8. th.job \notin ToSet(v.items)
    <3>1. v.active.stage \in {"sent", "admitted", "preparing"}
      BY <1>11, <1>16, <2>2 DEF Threads, Actives, Stages
    <3>2. v.active.stage = "preparing" => FALSE
      BY <1>1, <1>16, <2>2 DEF Loss, Pending
    <3>3. Good(v)  BY <1>11 DEF Serves
    <3> QED  BY <1>16, <2>2, <3>1, <3>2, <3>3 DEF Good, Once
  <2>9. Loss(x, Y, M)
    <3>1. NoActive.stage = "none"  BY DEF NoActive
    <3>2. Loss(x, Y, ran)  BY <2>7 DEF Serves
    <3> QED  BY <2>7, <2>8, <3>1, <3>2 DEF Loss, Safe, Pending, M
  <2>10. Good(x) /\ Believes(x, G, native) /\ Tame(w, x) /\ x \in Threads /\ x.phase = "none"
    BY <1>3, <2>7 DEF Serves, Good, Tame, Same
  <2>11. Serves(w, x, Y, M, G, native)  BY <2>9, <2>10 DEF Serves
  <2>12. Serves(w, ResetTurn(x), Y, M, G, native)  BY <2>10, <2>11, ServesReset
  <2>13. Serves(w, th', Y, M, G, native)
    BY <2>6, <2>12, ServesEmit, ServesSchedule DEF x
  <2>14. th'.active.stage # "sent"
    <3>1. NoActive.stage = "none"  BY DEF NoActive
    <3>2. Serves(x, x, Y, M, G, native)  BY <2>9, <2>10, ServesItself
    <3>3. Serves(x, ResetTurn(x), Y, M, G, native)  BY <2>10, <3>2, ServesReset
    <3>4. Serves(x, th', Y, M, G, native)  BY <2>6, <3>3, ServesEmit, ServesSchedule DEF x
    <3> QED  BY <2>7, <3>1, <3>4, StillNotSent
  <2>15. w.job \notin Entries  BY <1>3, NamesAssumption
  <2> QED  BY <1>4, <1>8, <2>13, <2>14, <2>15, HeardOut
<1>17. CASE th.job \in Entries /\ ~(th.active.stage # "none" /\ th.active.entry = th.job)
  <2>1. M = ran \cup {th.job}  BY <1>17 DEF M
  <2>2. Loss(w, Y, M)
    <3>1. th.job \notin Pending(w)  BY <1>1, <1>3 DEF Loss, Pending
    <3>2. w.active.stage # "none" => w.active.entry # th.job  BY <1>3, <1>17
    <3> QED  BY <1>5, <2>1, <3>1, <3>2 DEF Loss
  <2>3. Serves(w, v, Y, M, G, native)  BY <1>10, <2>2
  <2>4. v.active.stage # "none" => v.active.entry # th.job
    <3> HIDE DEF v
    <3>1. v.active.stage \in Stages  BY <1>11 DEF Threads, Actives
    <3>2. CASE v.active.stage = "preparing"  BY <2>1, <2>3, <3>2 DEF Serves, Loss, Pending
    <3>3. CASE v.active.stage = "sent"  BY <1>3, <1>17, <2>3, <3>3 DEF Serves, Tame
    <3>4. CASE v.active.stage = "admitted"  BY <1>3, <1>17, <2>3, <3>4 DEF Serves, Tame
    <3> QED  BY <3>1, <3>2, <3>3, <3>4 DEF Stages
  <2>5. th' = FinishOrSchedule(v)
    <3> HIDE DEF v
    <3> QED  BY <1>2, <1>17, <2>4, NamesAssumption
  <2> HIDE DEF v
  <2>6. Serves(w, th', Y, M, G, native)  BY <2>3, <2>5, ServesFinish
  <2>7. w.active.stage # "sent"  BY <1>3, <1>9, <1>17
  <2>8. th'.active.stage # "sent"  BY <2>6, <2>7, StillNotSent
  <2>9. w.job \notin Entries  BY <1>3, NamesAssumption
  <2> QED  BY <1>4, <1>8, <2>6, <2>8, <2>9, HeardOut
<1>18. th.job \in Jobs  BY <1>1, <1>2 DEF Believes, Threads
<1> QED  BY <1>15, <1>16, <1>17, <1>18 DEF Jobs

\* Callers are answered and the thread stays as it is.
LEMMA AnsweredOnly ==
    ASSUME SInv, NEW j, NEW o \in {"accepted", "refused"}, inputs' = Resolve({j}, o), th' = th,
           th.phase = "setup" /\ th.job = j => j \notin Waiting,
           native' = native, queued' = queued, withdrawn' = withdrawn, begun' = begun, ran' = ran
    PROVE  Served' /\ NoDispatch(th, th') /\ Stays(th, th')
<1> DEFINE G == Waiting \ {j}
<1>1. Core(th, Due, ran, Waiting, native) /\ Believes(th, Waiting, native)  BY StartsServing
<1>2. Waiting' = G  BY WaitingResolved DEF G
<1>3. th.phase = "setup" /\ th.job \in Waiting => th.job \in G  OBVIOUS
<1>4. th.res = 0 => G = {}  BY <1>1 DEF Believes
<1>5. th.active.stage = "preparing" /\ G # {} => Has(th, "direct")  BY <1>1 DEF Believes
<1> HIDE DEF G
<1>6. Core(th, Due, ran, G, native)  BY <1>1, <1>3, <1>4, <1>5, CoreGives
<1>7. Onward  BY OnwardByOutcome
<1>8. Served'  BY <1>2, <1>6, <1>7, Answers
<1> QED  BY <1>8 DEF NoDispatch, Stays

LEMMA SteerJoinsServed ==
    ASSUME SInv, NEW d \in Inputs, SteerJoins(d)
    PROVE  Served' /\ NoDispatch(th, th') /\ Stays(th, th')
<1>1. inputs' = Resolve({d}, "accepted") /\ th' = th /\ th.phase = "live" /\ native' = native
      /\ queued' = queued /\ withdrawn' = withdrawn /\ begun' = begun /\ ran' = ran
  BY DEF SteerJoins
<1> QED  BY <1>1, AnsweredOnly

LEMMA StartRejectedServed ==
    ASSUME SInv, NEW d \in Inputs, StartRejected(d)
    PROVE  Served' /\ NoDispatch(th, th') /\ Stays(th, th')
<1>1. inputs' = Resolve({d}, "refused") /\ th' = th /\ th.job # d /\ native' = native
      /\ queued' = queued /\ withdrawn' = withdrawn /\ begun' = begun /\ ran' = ran
  BY DEF StartRejected, histories
<1> QED  BY <1>1, AnsweredOnly

LEMMA PromptSubmittedServed ==
    ASSUME SInv, NEW d \in Inputs, PromptSubmitted(d)
    PROVE  Served' /\ NoDispatch(th, th') /\ Stays(th, th')
<1>1. inputs' = Resolve({d}, "accepted") /\ th' = th /\ inputs[d].on # th.cur /\ native' = native
      /\ queued' = queued /\ withdrawn' = withdrawn /\ begun' = begun /\ ran' = ran
  BY DEF PromptSubmitted, histories
<1>2. d \notin Waiting  BY <1>1 DEF Waiting
<1> QED  BY <1>1, <1>2, AnsweredOnly

LEMMA SteerFallsBackServed ==
    ASSUME SInv, NEW d \in Inputs, SteerFallsBack(d)
    PROVE  Served' /\ NoDispatch(th, th') /\ Stays([th EXCEPT !.job = d], th')
<1>1. /\ Good(th) /\ th \in Threads /\ Loss(th, Due, ran) /\ Believes(th, Waiting, native) /\ Conn(th)
  BY StartsServing
<1>2. /\ th' = [th EXCEPT !.job = d, !.phase = "setup"] /\ th.job = None /\ native /\ Live
      /\ d \in Waiting
  BY DEF SteerFallsBack, Waiting
<1>3. /\ th' \in Threads /\ th'.items = th.items /\ th'.active = th.active /\ th'.turn = th.turn
      /\ th'.restarts = th.restarts /\ th'.cur = th.cur /\ th'.res = th.res /\ th'.slot = th.slot
      /\ th'.job = d /\ th'.phase = "setup" /\ th'.late = th.late /\ th'.status = th.status
      /\ th'.flags = th.flags
  <2>1. ASSUME NEW w \in Threads, NEW j \in Jobs
        PROVE  [w EXCEPT !.job = j, !.phase = "setup"] \in Threads
    BY DEF Threads
  <2>2. th' \in Threads  BY <1>1, <1>2, <2>1 DEF Jobs
  <2> QED  BY <1>1, <1>2, <2>2 DEF Threads
<1>4. th.active.stage \in {"none", "preparing"}
  <2>1. Pc(d) = "handed"  BY DEF SteerFallsBack
  <2>2. th.active.stage \in Stages  BY <1>1 DEF Threads, Actives
  <2> QED  BY <2>1, <2>2 DEF SInv, Links, Callers, Stages
<1>5. d \notin Entries /\ d # None  BY NamesAssumption
<1> DEFINE v == th'
<1>6. Good(v)  BY <1>1, <1>3 DEF Good, Once
<1>7. Loss(v, Due, ran)
  <2>1. v.active.stage # "none" => v.active.entry \in Entries  BY <1>6 DEF Good, Once
  <2>2. ToSet(v.items) \subseteq Entries
    <3>1. th.items \in Seq(Entries)  BY <1>1 DEF Threads
    <3>2. ToSet(th.items) \subseteq Entries  BY <3>1 DEF ToSet
    <3> QED  BY <1>3, <3>2
  <2>3. d \notin Pending(v)  BY <1>5, <2>1, <2>2 DEF Pending
  <2>4. Safe(v) = Safe(th) /\ Pending(v) = Pending(th)  BY <1>3 DEF Safe, Pending
  <2> QED  BY <1>1, <1>3, <1>4, <1>5, <2>1, <2>3, <2>4 DEF Loss
<1>8. th.phase = "none" /\ th.late = None /\ th.slot = None  BY <1>1, <1>2 DEF Believes
<1>9. th.active.stage # "none" => th.active.end = "none"  BY <1>1, <1>4 DEF Loss
<1>10. Believes(v, Waiting, native)
  <2>1. Up(v) <=> Up(th)  BY <1>3 DEF Up, Has
  <2> QED  BY <1>1, <1>2, <1>3, <1>4, <1>5, <1>8, <1>9, <2>1 DEF Believes, Has
<1>11. Conn(v)
  <2>1. Up(v) /\ Up(th)  BY <1>2, <1>3 DEF Up, Has, Live
  <2> QED  BY <1>1, <1>3, <1>4, <1>5, <2>1 DEF Conn, Owed, Restarting, Has
<1>12. Core(v, Due, ran, Waiting, native)  BY <1>6, <1>7, <1>10, <1>11 DEF Core
<1>13. Unheard  BY DEF SteerFallsBack, Unheard
<1>14. Served'  BY <1>3, <1>12, <1>13, Settles
<1>15. NoDispatch(th, th')  BY <1>3 DEF NoDispatch
<1>16. Stays([th EXCEPT !.job = d], th')  BY <1>1, <1>3 DEF Stays, Has, Threads
<1> QED  BY <1>14, <1>15, <1>16

LEMMA SteerRefusedServed ==
    ASSUME SInv, NEW d \in Inputs, SteerRefused(d)
    PROVE  Served' /\ NoDispatch(th, th') /\ Stays(th, th')
<1>1. /\ Good(th) /\ th \in Threads /\ Loss(th, Due, ran) /\ Believes(th, Waiting, native) /\ Conn(th)
  BY StartsServing
<1>2. /\ inputs' = Resolve({d}, "refused") /\ Pc(d) = "handed" /\ native /\ d \notin given
      /\ inputs[d].on # th.cur \/ ~Live \/ th.job = None
      /\ native' = native /\ queued' = queued /\ withdrawn' = withdrawn /\ begun' = begun /\ ran' = ran
      /\ th' = IF inputs[d].on = th.cur THEN PauseForFailure([th EXCEPT !.status = "error"]) ELSE th
  BY DEF SteerRefused, histories
<1>3. CASE inputs[d].on # th.cur
  <2>1. d \notin Waiting /\ th' = th  BY <1>2, <1>3 DEF Waiting
  <2> QED  BY <1>2, <2>1, AnsweredOnly
<1>4. CASE inputs[d].on = th.cur
  <2> DEFINE v == [th EXCEPT !.status = "error"]
             G == Waiting \ {d}
  <2>1. th' = PauseForFailure(v)  BY <1>2, <1>4
  <2>2. /\ v \in Threads /\ v.items = th.items /\ v.active = th.active /\ v.turn = th.turn
        /\ v.restarts = th.restarts /\ v.cur = th.cur /\ v.res = th.res /\ v.slot = th.slot
        /\ v.job = th.job /\ v.phase = th.phase /\ v.late = th.late /\ v.status = "error"
        /\ v.flags = th.flags
    BY <1>1 DEF Threads
  <2> HIDE DEF v
  <2>3. th.job = None
    <3>1. ~Live => ~Up(th)  BY DEF Live, Up
    <3> QED  BY <1>1, <1>2, <1>4, <3>1 DEF Conn
  <2>4. th.phase = "none" /\ th.slot = None  BY <1>1, <1>2, <2>3 DEF Believes
  <2>5. th.active.stage \in {"none", "preparing"}
    <3>1. th.active.stage \in Stages  BY <1>1 DEF Threads, Actives
    <3> QED  BY <1>2, <3>1 DEF SInv, Links, Callers, Stages
  <2>6. Good(v) /\ Loss(v, Due, ran)  BY <1>1, <2>2 DEF Good, Once, Loss, Safe, Pending
  <2>7. Up(v) <=> Up(th)  BY <2>2 DEF Up, Has
  <2>8. Believes(v, G, native)  BY <1>1, <2>2, <2>4, <2>7 DEF Believes, Has
  <2>9. Conn(v)  BY <1>1, <2>2, <2>5, <2>7 DEF Conn, Owed, Restarting, Has
  <2> HIDE DEF G
  <2>10. Serves(v, v, Due, ran, G, native)  BY <2>6, <2>8, ServesItself
  <2>11. Serves(v, th', Due, ran, G, native)
    BY <2>1, <2>2, <2>4, <2>5, <2>10, ServesFailure
  <2>12. Core(th', Due, ran, G, native) /\ NoDispatch(v, th') /\ Stays(v, th')
    BY <2>9, <2>11, ServedCore
  <2>13. NoDispatch(th, th') /\ Stays(th, th')  BY <2>2, <2>12 DEF NoDispatch, Stays, Has
  <2>14. Waiting' = G  BY <1>2, <2>13, WaitingResolved DEF Stays, G
  <2>15. Onward  BY <1>2, OnwardByOutcome
  <2> QED  BY <1>2, <2>12, <2>13, <2>14, <2>15, Answers
<1> QED  BY <1>3, <1>4
-----------------------------------------------------------------------------
(* Sessions that close, are replaced, started and restarted.               *)

LEMMA Silenced ==
    ASSUME NEW w \in Threads, NEW F
    PROVE  /\ Silent(Off(w, F)) \in Threads
           /\ Silent(Off(w, F)).items = w.items /\ Silent(Off(w, F)).active = w.active
           /\ Silent(Off(w, F)).restarts = w.restarts /\ Silent(Off(w, F)).slot = w.slot
           /\ Silent(Off(w, F)).cur = w.cur /\ Silent(Off(w, F)).status = w.status
           /\ Silent(Off(w, F)).res = w.res /\ Silent(Off(w, F)).flags = w.flags \ F
           /\ Silent(Off(w, F)).phase = "none" /\ Silent(Off(w, F)).job = None
           /\ Silent(Off(w, F)).late = None /\ Silent(Off(w, F)).turn = w.turn
<1> DEFINE v == Off(w, F)
<1>1. v \in Threads  BY DEF Off, Threads
<1>2. /\ v.items = w.items /\ v.active = w.active /\ v.restarts = w.restarts /\ v.slot = w.slot
      /\ v.cur = w.cur /\ v.status = w.status /\ v.res = w.res /\ v.flags = w.flags \ F
      /\ v.turn = w.turn
  BY DEF Off, Threads
<1> HIDE DEF v
<1>3. /\ Silent(v) \in Threads
      /\ Silent(v).items = v.items /\ Silent(v).active = v.active
      /\ Silent(v).restarts = v.restarts /\ Silent(v).slot = v.slot
      /\ Silent(v).cur = v.cur /\ Silent(v).status = v.status
      /\ Silent(v).res = v.res /\ Silent(v).flags = v.flags
      /\ Silent(v).phase = "none" /\ Silent(v).job = None
      /\ Silent(v).late = None /\ Silent(v).turn = v.turn
  BY <1>1 DEF Silent, Threads
<1> QED  BY <1>2, <1>3 DEF v

LEMMA ClosedAlike ==
    ASSUME NEW u, NEW v, Closed(u, v), NEW w, u.items = w.items, u.active = w.active,
           u.restarts = w.restarts, u.slot = w.slot, u.flags \subseteq w.flags,
           Has(u, "restarting") <=> Has(w, "restarting")
    PROVE  Closed(w, v)
  BY DEF Closed

LEMMA ClosesServed ==
    ASSUME SInv, Closes
    PROVE  Served' /\ NoDispatch(th, th') /\ Stays(th, th')
<1> DEFINE u == Silent(Off(th, {"quiet", "stop"}))
           a == OnSessionClosing(u)
           s == IF a.status = "error" THEN "error" ELSE "inactive"
           z == On([a EXCEPT !.status = s], {"dead"})
<1>1. /\ Good(th) /\ th \in Threads /\ Conn(th) /\ Holds(th, th) /\ Believes(th, Waiting, native)
      /\ Core(th, Due, ran, Waiting, native)
  BY StartsServing
<1>2. /\ u \in Threads /\ u.items = th.items /\ u.active = th.active /\ u.restarts = th.restarts
      /\ u.slot = th.slot /\ u.cur = th.cur /\ u.status = th.status /\ u.res = th.res
      /\ u.flags = th.flags \ {"quiet", "stop"} /\ u.phase = "none" /\ u.job = None /\ u.late = None
  BY <1>1, Silenced
<1> HIDE DEF u
<1>3. Good(u)  BY <1>1, <1>2 DEF Good, Once
<1>4. Closed(u, a) /\ Same(u, a)  BY <1>3, KeepsItself, ClosingKeeps, ClosingCloses DEF Keeps
<1> HIDE DEF a
<1>5. Closed(th, a)  BY <1>2, <1>4, ClosedAlike DEF Has
<1>6. a \in Threads  BY <1>5 DEF Closed, Good
<1>7. th' = z  BY <1>6 DEF Closes, Threads, a, u
<1>8. s \in {"idle", "working", "error", "inactive"} /\ s # "working"  OBVIOUS
<1> HIDE DEF s
<1>9. /\ z \in Threads /\ z.items = a.items /\ z.active = a.active /\ z.restarts = a.restarts
      /\ z.phase = a.phase /\ z.job = a.job /\ z.late = a.late /\ z.slot = a.slot /\ z.cur = a.cur
      /\ z.status = s /\ z.res = a.res /\ z.flags = a.flags \cup {"dead"}
  <2> DEFINE b == [a EXCEPT !.status = s]
  <2>1. b \in Threads  BY <1>6, <1>8 DEF Threads
  <2>2. /\ b.items = a.items /\ b.active = a.active /\ b.restarts = a.restarts
        /\ b.phase = a.phase /\ b.job = a.job /\ b.late = a.late /\ b.slot = a.slot /\ b.cur = a.cur
        /\ b.status = s /\ b.res = a.res /\ b.flags = a.flags
    BY <1>6 DEF Threads
  <2> HIDE DEF b
  <2>3. /\ On(b, {"dead"}) \in Threads
        /\ On(b, {"dead"}).items = b.items /\ On(b, {"dead"}).active = b.active
        /\ On(b, {"dead"}).restarts = b.restarts /\ On(b, {"dead"}).phase = b.phase
        /\ On(b, {"dead"}).job = b.job /\ On(b, {"dead"}).late = b.late
        /\ On(b, {"dead"}).slot = b.slot /\ On(b, {"dead"}).cur = b.cur
        /\ On(b, {"dead"}).status = b.status /\ On(b, {"dead"}).res = b.res
        /\ On(b, {"dead"}).flags = b.flags \cup {"dead"}
    BY <2>1 DEF On, Threads, Flags
  <2> QED  BY <2>2, <2>3 DEF b
<1> HIDE DEF z
<1>10. Live /\ th.cur # 0 /\ ~Has(th, "starting")  BY <1>1 DEF Closes, Live, Conn
<1>11. ~Has(z, "starting")
  <2>1. "starting" \notin a.flags  BY <1>5, <1>10 DEF Closed, Has
  <2> QED  BY <1>9, <2>1 DEF Has
<1>12. \A f \in {"direct", "awaiting", "completed", "done", "asks", "restarting"} :
           Has(z, f) <=> Has(a, f)
  BY <1>9 DEF Has
<1>13. z.res = 0 => Waiting = {}  BY <1>1, <1>2, <1>4, <1>9 DEF Same, Believes
<1>14. ~Up(z)  BY <1>9 DEF Up, Has
<1>15. Core(z, Due, ran, Waiting, native) /\ NoDispatch(th, z)
  <2> DEFINE G == Waiting
  <2> HIDE DEF G
  <2>1. z.phase = "none" /\ z.job = None /\ z.late = None
    BY <1>2, <1>4, <1>9 DEF Same
  <2>2. Core(th, Due, ran, G, native) /\ (z.res = 0 => G = {})  BY <1>1, <1>13 DEF G
  <2>3. Core(z, Due, ran, G, native) /\ NoDispatch(th, z)
    BY <1>5, <1>8, <1>9, <1>11, <1>12, <1>14, <2>1, <2>2, EndedCore
  <2> QED  BY <2>3 DEF G
<1>16. Stays(th, z)
  <2>1. z.active.on \in {0, th.active.on}  BY <1>5, <1>9 DEF Closed
  <2> QED  BY <1>2, <1>4, <1>9, <2>1 DEF Stays, Same, Has
<1>17. Unheard  BY DEF Closes, Unheard, histories
<1>18. th'.cur = th.cur  BY <1>2, <1>4, <1>7, <1>9 DEF Same
<1>19. Core(th', Due, ran, Waiting, native)  BY <1>7, <1>15
<1> QED  BY <1>7, <1>15, <1>16, <1>17, <1>18, <1>19, Settles
\* The thread has no session.
Ends(u, w) ==
    /\ w.cur = 0 /\ w.active.on \in {0, u.active.on} /\ w.restarts = u.restarts
    /\ w.slot = None /\ w.job = None

LEMMA GoneCore ==
    ASSUME SInv, IInv', Unheard, NEW a, Closed(th, a), Same(th, a),
           NEW F, F \in {{}, {"starting"}}, th' = On(Gone(a), F),
           Has(th, "starting") \/ "starting" \in F => th.restarts = <<>>
    PROVE  Served' /\ NoDispatch(th, th') /\ Ends(th, th')
<1> DEFINE E == {"dead", "quiet", "stop", "launch"}
           y == Silent(Off(a, E))
           g == Gone(a)
           z == On(g, F)
<1>1. Core(th, Due, ran, Waiting, native)  BY StartsServing
<1>2. a \in Threads  BY DEF Closed, Good
<1>3. /\ y \in Threads /\ y.items = a.items /\ y.active = a.active /\ y.restarts = a.restarts
      /\ y.res = a.res /\ y.flags = a.flags \ E /\ y.phase = "none" /\ y.job = None /\ y.late = None
  BY <1>2, Silenced
<1>4. g = [y EXCEPT !.cur = 0, !.status = "inactive", !.slot = None]  BY DEF Gone
<1> HIDE DEF y, g
<1>5. /\ g \in Threads /\ g.items = y.items /\ g.active = y.active /\ g.restarts = y.restarts
      /\ g.res = y.res /\ g.flags = y.flags /\ g.phase = y.phase /\ g.job = y.job /\ g.late = y.late
      /\ g.cur = 0 /\ g.status = "inactive" /\ g.slot = None
  BY <1>3, <1>4 DEF Threads
<1>6. F \subseteq Flags  BY DEF Flags
<1>7. /\ z \in Threads /\ z.items = g.items /\ z.active = g.active /\ z.restarts = g.restarts
      /\ z.res = g.res /\ z.flags = g.flags \cup F /\ z.phase = g.phase /\ z.job = g.job
      /\ z.late = g.late /\ z.cur = g.cur /\ z.status = g.status /\ z.slot = g.slot
  BY <1>5, <1>6 DEF On, Threads
<1>8. th' = z  BY DEF g
<1> HIDE DEF z
<1>9. \A f \in {"direct", "awaiting", "completed", "done", "asks", "restarting"} :
          Has(z, f) <=> Has(a, f)
  BY <1>3, <1>5, <1>7 DEF Has
<1>10. Has(z, "starting") => z.cur = 0 /\ z.restarts = <<>>
  <2>1. Has(z, "starting") => "starting" \in a.flags \/ "starting" \in F
    BY <1>3, <1>5, <1>7 DEF Has
  <2>2. "starting" \in a.flags => Has(th, "starting")  BY DEF Closed, Has
  <2> QED  BY <1>3, <1>5, <1>7, <2>1, <2>2 DEF Closed
<1>11. z.res = 0 => Waiting' = {}  BY <1>8, NobodyWaitsNext
<1>12. Core(z, Due, ran, Waiting', native) /\ NoDispatch(th, z)
  <2> DEFINE G == Waiting'
  <2>1. ~Up(z)  BY <1>5, <1>7 DEF Up
  <2>2. z.res = 0 => G = {}  BY <1>11
  <2> HIDE DEF G
  <2>4. /\ z \in Threads /\ z.items = a.items /\ z.active = a.active /\ z.restarts = a.restarts
        /\ z.phase = "none" /\ z.job = None /\ z.late = None /\ z.slot \in {None, a.slot}
        /\ z.status # "working"
    BY <1>3, <1>5, <1>7
  <2>3. Core(z, Due, ran, G, native) /\ NoDispatch(th, z)
    BY <1>1, <1>9, <1>10, <2>1, <2>2, <2>4, EndedCore
  <2> QED  BY <2>3 DEF G
<1>13. Ends(th, z)  BY <1>3, <1>5, <1>7 DEF Ends, Closed
<1>14. Due' = Due  BY DEF Unheard, Due, Steered, Pc
<1>15. ran' = ran /\ native' = native  BY DEF Unheard
<1>16. Core(th', Due', ran', Waiting', native')  BY <1>8, <1>12, <1>14, <1>15
<1>17. Served'  BY <1>16 DEF Served
<1> QED  BY <1>8, <1>12, <1>13, <1>17

LEMMA CloseThreadServed ==
    ASSUME SInv, IInv', CloseThread
    PROVE  Served' /\ NoDispatch(th, th') /\ Ends(th, th')
<1> DEFINE a == OnSessionClosing(th)
<1>1. Good(th) /\ Conn(th)  BY StartsServing
<1>2. Closed(th, a) /\ Same(th, a)  BY <1>1, KeepsItself, ClosingKeeps, ClosingCloses DEF Keeps
<1>3. th' = Gone(a) /\ th.cur # 0  BY DEF CloseThread
<1>4. ~Has(th, "starting")  BY <1>1, <1>3 DEF Conn
<1>5. th' = On(Gone(a), {})
  <2> HIDE DEF a
  <2>1. Holds(a, a)
    <3>1. a \in Threads /\ Good(a)  BY <1>2 DEF Closed, Good
    <3>2. Holds(th, th)  BY StartsServing
    <3>3. Sound(a)  BY <1>2, <3>1, <3>2 DEF Holds, Sound, Same
    <3> QED  BY <3>3, HoldsItself
  <2>2. Gone(a) \in Threads  BY <2>1, GoneHolds, SoundTyped
  <2> QED  BY <1>3, <2>2 DEF On, Threads
<1> HIDE DEF a
<1>6. Unheard  BY DEF CloseThread, Unheard, histories
<1> QED  BY <1>2, <1>4, <1>5, <1>6, GoneCore

LEMMA StartThreadServed ==
    ASSUME SInv, IInv', StartThread
    PROVE  /\ Served' /\ NoDispatch(th, th')
           /\ th.restarts = <<>> /\ (Stays(th, th') \/ Ends(th, th'))
<1>1. Good(th) /\ Conn(th) /\ th \in Threads /\ Believes(th, Waiting, native)
      /\ Loss(th, Due, ran)
  BY StartsServing
<1>2. Unheard  BY DEF StartThread, Unheard, histories
<1>3. CASE th.cur = 0
  <2> DEFINE v == On(th, {"starting"})
  <2>1. th' = v  BY <1>3 DEF StartThread
  <2>2. /\ v \in Threads /\ v.items = th.items /\ v.active = th.active /\ v.turn = th.turn
        /\ v.restarts = th.restarts /\ v.cur = th.cur /\ v.res = th.res /\ v.slot = th.slot
        /\ v.job = th.job /\ v.phase = th.phase /\ v.late = th.late /\ v.status = th.status
        /\ v.flags = th.flags \cup {"starting"}
    BY <1>1 DEF On, Threads, Flags
  <2> HIDE DEF v
  <2>3. Good(v) /\ Loss(v, Due, ran)  BY <1>1, <2>2 DEF Good, Once, Loss, Safe, Pending
  <2>4. ~Up(v) /\ ~Up(th)  BY <1>3, <2>2 DEF Up
  <2>5. \A f \in Flags \ {"starting"} : Has(v, f) <=> Has(th, f)  BY <2>2 DEF Has
  <2>6. Believes(v, Waiting, native)
    <3>1. v.flags \cap {"done", "completed"} = th.flags \cap {"done", "completed"}
          /\ v.flags \cap {"awaiting", "completed"} = th.flags \cap {"awaiting", "completed"}
      BY <2>2
    <3> QED  BY <1>1, <2>2, <2>4, <2>5, <3>1 DEF Believes, Flags
  <2>7. Conn(v)
    <3>1. v.flags \cap {"direct", "asks"} = th.flags \cap {"direct", "asks"}  BY <2>2
    <3>2. th.restarts = <<>>  BY DEF StartThread
    <3> QED  BY <1>1, <1>3, <2>2, <2>4, <2>5, <3>1, <3>2
             DEF Conn, Owed, Provider, Restarting, Flags
  <2>8. Core(th', Due, ran, Waiting, native) /\ th'.cur = th.cur
    BY <2>1, <2>2, <2>3, <2>6, <2>7 DEF Core
  <2>9. Served'  BY <1>2, <2>8, Settles
  <2>10. NoDispatch(th, th') /\ Stays(th, th')
    BY <2>1, <2>2 DEF NoDispatch, Stays, Has
  <2> QED  BY <2>9, <2>10 DEF StartThread
<1>4. CASE th.cur # 0
  <2> DEFINE a == OnSessionClosing(BeginReplacement(th))
  <2>1. Closed(th, a) /\ Same(th, a)
    BY <1>1, KeepsItself, ReplacementKeeps, ClosingKeeps, ReplacedCloses DEF Keeps
  <2>2. th' = On(Gone(a), {"starting"}) /\ th.restarts = <<>>  BY <1>4 DEF StartThread
  <2> HIDE DEF a
  <2> QED  BY <1>2, <2>1, <2>2, GoneCore
<1> QED  BY <1>3, <1>4
\* The thread's session is a new one.
Begins(u, w) ==
    /\ w.cur = sessions + 1 /\ sessions' = sessions + 1
    /\ w.active.on \in {0, u.active.on, w.cur} /\ w.slot = None

\* Nobody waits for an answer of a session that has just begun.
LEMMA NobodyYet ==
    ASSUME Links, TypeOK, th'.cur = sessions + 1, inputs' = inputs
    PROVE  Waiting' = {}
<1>1. \A d \in Inputs : inputs[d].on <= sessions /\ inputs[d].on \in Nat /\ sessions \in Nat
  BY DEF Links, Dated, TypeOK
<1>2. \A d \in Inputs : inputs'[d].on # th'.cur  BY <1>1
<1> QED  BY <1>2 DEF Waiting

LEMMA StartedServed ==
    ASSUME SInv, Started
    PROVE  /\ Served' /\ NoDispatch(th, th') /\ Begins(th, th')
           /\ th'.restarts = th.restarts /\ th'.job = None
<1>1. /\ Good(th) /\ Conn(th) /\ th \in Threads /\ Believes(th, Waiting, native)
      /\ Loss(th, Due, ran) /\ Holds(th, th)
  BY StartsServing
<1>2. Has(th, "starting") /\ th' = Attach(th, "idle") /\ sessions' = sessions + 1 /\ Unheard
  BY DEF Started, Unheard, histories
<1>3. th.cur = 0 /\ th.restarts = <<>> /\ ~Up(th)  BY <1>1, <1>2 DEF Conn, Up
<1>4. ~Has(th, "restarting")
  <2>1. <<>> # <<[job |-> th.active.entry, on |-> th.active.on]>>  OBVIOUS
  <2> QED  BY <1>1, <1>3, <2>1 DEF Conn, Restarting
<1>5. th.active.stage # "sent"  BY <1>1, <1>3, <1>4, NothingSent DEF Provider
<1>6. TypeOK /\ Links /\ sessions \in Nat /\ (th.active.stage # "none" => th.active.on <= sessions)
  BY DEF SInv, IInv, TypeOK, Links, Dated
<1> DEFINE v == th'
           s == "idle"
<1>7. /\ Good(v) /\ Loss(v, Due, ran) /\ Believes(v, {}, native)
      /\ v.phase = "none" /\ v.job = None /\ v.late = None /\ v.slot = None
      /\ v.cur = sessions + 1 /\ v.status = s /\ v.restarts = th.restarts /\ v.res = th.res
      /\ v.flags \cap {"awaiting", "completed", "asks", "done", "dead", "quiet", "starting",
                       "restarting"} = {}
      /\ v.active.stage \in {"none", "preparing"} /\ v.active.on \in {0, th.active.on, v.cur}
  <2>1. s \in {"idle", "working"} /\ v = Attach(th, s)  BY <1>2
  <2> HIDE DEF v, s
  <2> DEFINE X == Due
             H == Waiting
  <2>2. Loss(th, X, ran) /\ Believes(th, H, native)  BY <1>1
  <2> HIDE DEF X, H
  <2>3. Attaches(th, s, v, X, ran, native)
    <3>1. Has(th, "restarting") <=> th.active.stage = "sent"  BY <1>4, <1>5
    <3>2. sessions \in Nat /\ (th.active.stage # "none" => th.active.on <= sessions)
          /\ Holds(th, th)
      BY <1>1, <1>6
    <3> QED  BY ONLY <3>1, <3>2, <2>1, <2>2, AttachCore
  <2> QED  BY <1>5, <2>3 DEF Attaches, X
<1>8. Waiting' = {}  BY <1>2, <1>6, <1>7, NobodyYet DEF Unheard
<1>9. Up(v)
  <2>1. v.cur # 0  BY <1>6, <1>7
  <2> QED  BY <1>7, <2>1 DEF Up, Has
<1>10. Conn(v)
  <2>1. ~Has(v, "restarting") /\ ~Has(v, "starting") /\ v.restarts = <<>>
    BY <1>3, <1>7 DEF Has
  <2> QED  BY <1>7, <1>9, <2>1, NamesAssumption DEF Conn, Owed, Restarting
<1>11. Due' = Due /\ ran' = ran /\ native' = native  BY <1>2 DEF Unheard, Due, Steered, Pc
<1>12. Served'  BY <1>7, <1>8, <1>10, <1>11 DEF Served, Core
<1>13. NoDispatch(th, th')  BY <1>7 DEF NoDispatch
<1>14. Begins(th, th')  BY <1>2, <1>7 DEF Begins
<1> QED  BY <1>7, <1>12, <1>13, <1>14

LEMMA StartFailsServed ==
    ASSUME SInv, StartFails
    PROVE  Served' /\ NoDispatch(th, th') /\ Stays(th, th')
<1> DEFINE v == Off(th, {"starting"})
<1>1. /\ Good(th) /\ Conn(th) /\ th \in Threads /\ Believes(th, Waiting, native)
      /\ Loss(th, Due, ran)
  BY StartsServing
<1>2. /\ Has(th, "starting") /\ Unheard
      /\ th' = IF Has(v, "replacing") THEN ReplacementFailed(v) ELSE v
  BY DEF StartFails, Unheard, histories
<1>3. th.cur = 0 /\ th.restarts = <<>> /\ ~Up(th) /\ th.job = None
  BY <1>1, <1>2 DEF Conn, Up
<1>4. ~Has(th, "restarting")
  <2>1. <<>> # <<[job |-> th.active.entry, on |-> th.active.on]>>  OBVIOUS
  <2> QED  BY <1>1, <1>3, <2>1 DEF Conn, Restarting
<1>5. th.active.stage # "sent"  BY <1>1, <1>3, <1>4, NothingSent DEF Provider
<1>6. /\ v \in Threads /\ v.items = th.items /\ v.active = th.active /\ v.turn = th.turn
      /\ v.restarts = th.restarts /\ v.cur = th.cur /\ v.res = th.res /\ v.slot = th.slot
      /\ v.job = th.job /\ v.phase = th.phase /\ v.late = th.late /\ v.status = th.status
      /\ v.flags = th.flags \ {"starting"}
  BY <1>1 DEF Off, Threads
<1> HIDE DEF v
<1>7. Good(v) /\ Loss(v, Due, ran)  BY <1>1, <1>6 DEF Good, Once, Loss, Safe, Pending
<1>8. ~Up(v)  BY <1>3, <1>6 DEF Up
<1>9. \A f \in Flags \ {"starting"} : Has(v, f) <=> Has(th, f)  BY <1>6 DEF Has
<1>10. Believes(v, Waiting, native)
  <2>1. v.flags \cap {"done", "completed"} = th.flags \cap {"done", "completed"}
        /\ v.flags \cap {"awaiting", "completed"} = th.flags \cap {"awaiting", "completed"}
    BY <1>6
  <2> QED  BY <1>1, <1>3, <1>6, <1>8, <1>9, <2>1 DEF Believes, Flags
<1>11. Conn(v)
  <2>1. v.flags \cap {"direct", "asks"} = th.flags \cap {"direct", "asks"}  BY <1>6
  <2> QED  BY <1>1, <1>3, <1>5, <1>6, <1>8, <1>9, <2>1
           DEF Conn, Owed, Provider, Restarting, Flags
<1> DEFINE X == Due
           H == Waiting
<1>12. Serves(v, v, X, ran, H, native)  BY <1>7, <1>10, ServesItself
<1> HIDE DEF X, H
<1>13. Serves(v, th', X, ran, H, native)
  <2>1. Serves(v, ReplacementFailed(v), X, ran, H, native)
    BY <1>3, <1>5, <1>6, <1>12, ServesReplacementFailed
  <2> QED  BY <1>2, <1>12, <2>1
<1>14. Core(th', X, ran, H, native) /\ NoDispatch(v, th') /\ Stays(v, th')
  BY <1>11, <1>13, ServedCore
<1>15. NoDispatch(th, th') /\ Stays(th, th')
  BY <1>6, <1>9, <1>14 DEF NoDispatch, Stays, Flags
<1>16. Served'
  <2>1. th'.cur = th.cur  BY <1>15 DEF Stays
  <2> QED  BY <1>2, <1>14, <2>1, Settles DEF X, H
<1> QED  BY <1>15, <1>16
\* The first restart, and those after it.
LEMMA FirstRestart ==
    ASSUME NEW R \in Seq([job : Jobs, on : Nat]), R # <<>>
    PROVE  /\ Head(R) = R[1] /\ 1 \in DOMAIN R /\ Tail(R) \in Seq([job : Jobs, on : Nat])
           /\ \A k \in DOMAIN Tail(R) : k + 1 \in DOMAIN R /\ k + 1 # 1 /\ Tail(R)[k] = R[k + 1]
<1> DEFINE S == [job : Jobs, on : Nat]
           T == Tail(R)
<1> HIDE DEF S
<1>1. R \in Seq(S)  BY DEF S
<1>2. /\ Head(R) = R[1] /\ T \in Seq(S) /\ Len(T) = Len(R) - 1
      /\ \A k \in 1 .. Len(T) : T[k] = R[k + 1]
  BY <1>1, HeadTailProperties
<1>3. DOMAIN R = 1 .. Len(R) /\ DOMAIN T = 1 .. Len(T) /\ Len(R) \in Nat /\ Len(R) # 0
  BY <1>1, <1>2, LenProperties, EmptySeq
<1> QED  BY <1>2, <1>3 DEF S

LEMMA RestartAttachesServed ==
    ASSUME SInv, RestartAttaches
    PROVE  /\ Served' /\ NoDispatch(th, th') /\ Begins(th, th')
           /\ th'.restarts = Tail(th.restarts) /\ th'.job = Head(th.restarts).job
           /\ th'.job \in Entries => th.active.stage = "sent" /\ th'.job = th.active.entry
<1> DEFINE R == Tail(th.restarts)
           j == Head(th.restarts).job
           w == [th EXCEPT !.restarts = R]
           a == Attach(w, "working")
           v == [a EXCEPT !.job = j, !.phase = "setup", !.flags = @ \cup {"quiet", "launch"}]
<1>1. /\ Good(th) /\ Conn(th) /\ th \in Threads /\ Believes(th, Waiting, native)
      /\ Loss(th, Due, ran) /\ Holds(th, th) /\ th.restarts \in Seq([job : Jobs, on : Nat])
  BY StartsServing DEF Threads
<1>2. /\ th.restarts # <<>> /\ Head(th.restarts).on = th.cur /\ Has(th, "dead")
      /\ sessions' = sessions + 1 /\ th' = v /\ Unheard
  BY DEF RestartAttaches, Unheard
<1>3. ~Up(th) /\ ~Has(th, "starting")  BY <1>1, <1>2 DEF Conn, Up
<1>4. /\ Head(th.restarts) = th.restarts[1] /\ R \in Seq([job : Jobs, on : Nat])
      /\ \A k \in DOMAIN R : k + 1 \in DOMAIN th.restarts /\ R[k] = th.restarts[k + 1]
      /\ th.restarts[1] \in [job : Jobs, on : Nat] /\ 1 \in DOMAIN th.restarts
  BY <1>1, <1>2, FirstRestart, RestartRemoved
<1>5. j \in Jobs  BY <1>4
<1>6. Has(th, "restarting") <=> th.active.stage = "sent"
  BY <1>1, <1>3 DEF Conn, Owed, Restarting, Provider
<1>7. TypeOK /\ Links /\ sessions \in Nat /\ (th.active.stage # "none" => th.active.on <= sessions)
  BY DEF SInv, IInv, TypeOK, Links, Dated
<1> HIDE DEF j, R
<1>8. Holds(w, w)
  <2>1. Holds(th, w)  BY <1>1, <1>4, RestartsHolds
  <2> QED  BY <2>1, HoldsItself DEF Holds
<1>9. /\ w \in Threads /\ w.items = th.items /\ w.active = th.active /\ w.turn = th.turn
      /\ w.restarts = R /\ w.cur = th.cur /\ w.res = th.res /\ w.slot = th.slot
      /\ w.job = th.job /\ w.phase = th.phase /\ w.late = th.late /\ w.status = th.status
      /\ w.flags = th.flags
  <2>1. w \in Threads  BY <1>8, SoundTyped
  <2> QED  BY <1>1, <2>1 DEF Threads
<1> HIDE DEF w
<1>10. Loss(w, Due, ran)  BY <1>1, <1>9 DEF Loss, Safe, Pending
<1>11. Believes(w, Waiting, native)
  <2>1. Up(w) <=> Up(th)  BY <1>9 DEF Up, Has
  <2> QED  BY <1>1, <1>9, <2>1 DEF Believes, Has
<1>12. /\ Good(a) /\ Loss(a, Due, ran) /\ Believes(a, {}, native)
       /\ a.phase = "none" /\ a.job = None /\ a.late = None /\ a.slot = None
       /\ a.cur = sessions + 1 /\ a.status = "working" /\ a.restarts = R /\ a.res = th.res
       /\ a.flags \cap {"awaiting", "completed", "asks", "done", "dead", "quiet", "starting",
                        "restarting"} = {}
       /\ Has(a, "direct") => Has(th, "direct")
       /\ th.active.stage = "sent"
            => /\ a.active.stage = "sent" /\ a.active.entry = th.active.entry
               /\ a.active.on = a.cur /\ a.active.turn = None /\ a.active.end = "none"
       /\ th.active.stage # "sent" => a.active.stage = "none"
       /\ a.active.on \in {0, th.active.on, a.cur}
  <2> DEFINE X == Due
             H == Waiting
             s == "working"
  <2>1. s \in {"idle", "working"} /\ a = Attach(w, s)  OBVIOUS
  <2>6. s = "working"  OBVIOUS
  <2>2. Loss(w, X, ran) /\ Believes(w, H, native)  BY <1>10, <1>11
  <2>3. Has(w, "restarting") <=> w.active.stage = "sent"  BY <1>6, <1>9 DEF Has
  <2>4. w.active.stage # "none" => w.active.on <= sessions  BY <1>7, <1>9
  <2> HIDE DEF X, H, s, a
  <2>5. Attaches(w, s, a, X, ran, native)
    <3>1. sessions \in Nat  BY <1>7
    <3> QED  BY ONLY <1>8, <2>1, <2>2, <2>3, <2>4, <3>1, AttachCore
  <2> QED  BY <1>9, <2>5, <2>6 DEF Attaches, X, Has
<1> HIDE DEF a
<1>13. a \in Threads  BY <1>12 DEF Good
<1>14. /\ v \in Threads /\ v.items = a.items /\ v.active = a.active /\ v.turn = a.turn
       /\ v.restarts = a.restarts /\ v.cur = a.cur /\ v.res = a.res /\ v.slot = a.slot
       /\ v.job = j /\ v.phase = "setup" /\ v.late = a.late /\ v.status = a.status
       /\ v.flags = a.flags \cup {"quiet", "launch"}
  BY <1>5, <1>13 DEF Threads, Flags
<1> HIDE DEF v
<1>15. Good(v)  BY <1>12, <1>14 DEF Good, Once
<1>16. IF Has(th, "restarting")
       THEN th.active.stage = "sent" /\ j = th.active.entry /\ R = <<>> /\ j \in Entries
       ELSE /\ th.active.stage # "sent" /\ j \in Inputs
            /\ \A k \in DOMAIN R : R[k].job \in Inputs
  <2>1. CASE Has(th, "restarting")
    <3>1. th.restarts = <<[job |-> th.active.entry, on |-> th.active.on]>>
      BY <1>1, <2>1 DEF Conn, Restarting
    <3>2. Head(th.restarts).job = th.active.entry /\ Tail(th.restarts) = <<>>  BY <3>1
    <3>3. th.active.entry \in Entries  BY <1>1, <1>6, <2>1 DEF Good, Once
    <3> QED  BY <1>6, <2>1, <3>2, <3>3 DEF j, R
  <2>2. CASE ~Has(th, "restarting")
    <3>1. \A k \in DOMAIN th.restarts : th.restarts[k].job \in Inputs
      BY <1>1, <2>2 DEF Conn, Restarting
    <3>2. j \in Inputs  BY <1>4, <3>1 DEF j
    <3>3. \A k \in DOMAIN R : R[k].job \in Inputs  BY <1>4, <3>1
    <3> QED  BY <1>6, <2>2, <3>2, <3>3
  <2> QED  BY <2>1, <2>2
<1>17. Loss(v, Due, ran)
  <2>1. Safe(v) = Safe(a) /\ Pending(v) = Pending(a)  BY <1>14 DEF Safe, Pending
  <2>2. a.items \in Seq(Entries) /\ ToSet(a.items) \subseteq Entries
    BY <1>13, ElementOfSeq DEF Threads, ToSet
  <2>3. j \notin Pending(a)
    <3>1. Pending(a) = ToSet(a.items)  BY <1>12 DEF Pending
    <3>2. CASE Has(th, "restarting")  BY <1>12, <1>16, <3>1, <3>2 DEF Good, Once
    <3>3. CASE ~Has(th, "restarting")  BY <1>16, <2>2, <3>1, <3>3, NamesAssumption
    <3> QED  BY <3>2, <3>3
  <2>4. v.active.stage # "none" => v.active.on = v.cur  BY <1>12, <1>14, <1>16
  <2> QED  BY <1>12, <1>14, <2>1, <2>3, <2>4 DEF Loss
<1>18. j # None  BY <1>5, NamesAssumption DEF Jobs
<1>19. Believes(v, {}, native)
  <2>1. v.flags \cap {"awaiting", "completed", "done"} = {}  BY <1>12, <1>14
  <2>2. v.active.stage # "none" => v.active.end = "none" /\ v.active.stage = "sent"
    BY <1>12, <1>14, <1>16
  <2> QED  BY <1>12, <1>14, <1>18, <2>1, <2>2 DEF Believes, Has
<1>20. Conn(v)
  <2>1. a.cur # 0  BY <1>7, <1>12
  <2>2. Up(v) /\ Has(v, "quiet")  BY <1>12, <1>14, <2>1 DEF Up, Has
  <2>3. v.flags \cap {"starting", "restarting", "asks"} = {}  BY <1>12, <1>14
  <2>4. v.active.stage = "sent" => Provider(v) /\ v.flags \cap {"direct", "asks"} = {}
    <3> SUFFICES ASSUME v.active.stage = "sent"  PROVE Provider(v) /\ v.flags \cap {"direct", "asks"} = {}
      OBVIOUS
    <3>1. th.active.stage = "sent" /\ j = v.active.entry /\ v.active.on = v.cur
      BY <1>12, <1>14, <1>16
    <3>2. th.flags \cap {"direct", "asks"} = {}  BY <1>1, <3>1 DEF Conn, Owed
    <3>3. v.flags \cap {"direct", "asks"} = {}  BY <1>12, <1>14, <2>3, <3>2 DEF Has
    <3> QED  BY <1>12, <1>14, <2>2, <3>1, <3>3 DEF Provider
  <2>5. Restarting(v)
    <3>1. \A k \in DOMAIN R : R[k].job \in Inputs
      <4>1. DOMAIN <<>> = {}  OBVIOUS
      <4> QED  BY <1>16, <4>1
    <3> QED  BY <1>12, <1>14, <2>3, <3>1 DEF Restarting, Has
  <2> QED  BY <2>2, <2>3, <2>4, <2>5 DEF Conn, Owed, Has
<1>21. Waiting' = {}  BY <1>2, <1>7, <1>12, <1>14, NobodyYet DEF Unheard
<1>22. Due' = Due /\ ran' = ran /\ native' = native  BY <1>2 DEF Unheard, Due, Steered, Pc
<1>23. Served'  BY <1>2, <1>15, <1>17, <1>19, <1>20, <1>21, <1>22 DEF Served, Core
<1>24. NoDispatch(th, th')  BY <1>2, <1>12, <1>14, <1>16 DEF NoDispatch
<1>25. Begins(th, th')  BY <1>2, <1>12, <1>14 DEF Begins
<1>26. th'.restarts = Tail(th.restarts) /\ th'.job = Head(th.restarts).job
  BY <1>2, <1>12, <1>14 DEF j, R
<1>27. th'.job \in Entries => th.active.stage = "sent" /\ th'.job = th.active.entry
  BY <1>2, <1>14, <1>16, NamesAssumption
<1> QED  BY <1>23, <1>24, <1>25, <1>26, <1>27
\* The restarts that are left when the one at i has ended.
Past(i, k) == IF k < i THEN k ELSE k + 1

LEMMA RestartsLeft ==
    ASSUME NEW R \in Seq([job : Jobs, on : Nat]), NEW i \in DOMAIN R
    PROVE  /\ RemoveAt(R, i) \in Seq([job : Jobs, on : Nat])
           /\ \A k \in DOMAIN RemoveAt(R, i) :
                  /\ Past(i, k) \in DOMAIN R \ {i} /\ RemoveAt(R, i)[k] = R[Past(i, k)]
                  /\ k \in Nat
           /\ Len(R) = 1 => RemoveAt(R, i) = <<>>
<1> DEFINE S == [job : Jobs, on : Nat]
           p == SubSeq(R, 1, i - 1)
           q == SubSeq(R, i + 1, Len(R))
<1>1. Len(R) \in Nat /\ DOMAIN R = 1 .. Len(R) /\ \A k \in 1 .. Len(R) : R[k] \in S
  BY LenProperties, ElementOfSeq
<1>2. i \in 1 .. Len(R)  BY <1>1
<1>3. (\A k \in 1 .. i - 1 : R[k] \in S) /\ (\A k \in i + 1 .. Len(R) : R[k] \in S)  BY <1>1, <1>2
<1> HIDE DEF S
<1>12. i \in Nat \ {0} /\ i <= Len(R)  BY <1>1, <1>2
<1>4. p \in Seq(S) /\ Len(p) = i - 1 /\ \A k \in 1 .. i - 1 : p[k] = R[k]
  <2> DEFINE n == i - 1
  <2>1. n \in Int /\ \A k \in 1 .. n : R[k] \in S  BY <1>3, <1>12
  <2>4. n + 1 = i  BY <1>12
  <2> HIDE DEF n
  <2>2. /\ SubSeq(R, 1, n) \in Seq(S) /\ Len(SubSeq(R, 1, n)) = IF 1 <= n THEN n - 1 + 1 ELSE 0
        /\ \A k \in 1 .. n - 1 + 1 : SubSeq(R, 1, n)[k] = R[1 + k - 1]
    BY ONLY <2>1, 1 \in Int, SubSeqProperties
  <2>5. \A k \in 1 .. n : SubSeq(R, 1, n)[k] = R[k]
    <3>1. \A k \in 1 .. n : k \in 1 .. n - 1 + 1 /\ 1 + k - 1 = k  BY <2>1
    <3> QED  BY <2>2, <3>1
  <2>6. Len(SubSeq(R, 1, n)) = n  BY <1>12, <2>1, <2>2, <2>4
  <2> QED  BY <2>2, <2>5, <2>6 DEF n, p
<1>5. q \in Seq(S) /\ Len(q) = Len(R) - i /\ \A k \in 1 .. Len(R) - i : q[k] = R[i + k]
  <2> DEFINE m == i + 1
             n == Len(R)
  <2>1. m \in Int /\ n \in Int /\ (\A k \in m .. n : R[k] \in S)  BY <1>1, <1>3, <1>12
  <2>4. m = i + 1 /\ n = Len(R) /\ n \in Nat  BY <1>1
  <2> HIDE DEF m, n
  <2>2. /\ SubSeq(R, m, n) \in Seq(S) /\ Len(SubSeq(R, m, n)) = IF m <= n THEN n - m + 1 ELSE 0
        /\ \A k \in 1 .. n - m + 1 : SubSeq(R, m, n)[k] = R[m + k - 1]
    BY ONLY <2>1, SubSeqProperties
  <2>5. \A k \in 1 .. n - i : SubSeq(R, m, n)[k] = R[i + k]
    <3>2. i \in Int /\ m \in Int /\ n \in Int  BY <1>12, <2>1
    <3>3. n - m + 1 = n - i  BY <2>4, <3>2
    <3>1. \A k \in 1 .. n - i : k \in 1 .. n - m + 1 /\ m + k - 1 = i + k
      <4> TAKE k \in 1 .. n - i
      <4>1. k \in Int  BY <3>2
      <4>2. m + k - 1 = i + k  BY <2>4, <3>2, <4>1
      <4> QED  BY <3>3, <4>2
    <3> QED  BY <2>2, <3>1
  <2>6. Len(SubSeq(R, m, n)) = n - i  BY <1>12, <2>2, <2>4
  <2> QED  BY <2>2, <2>5, <2>6 DEF m, n, q
<1> HIDE DEF p, q
<1> DEFINE v == p \o q
<1>6. v \in Seq(S) /\ Len(v) = (i - 1) + (Len(R) - i)
      /\ \A k \in 1 .. Len(R) - 1 : v[k] = IF k <= i - 1 THEN p[k] ELSE q[k - (i - 1)]
  <2>1. v \in Seq(S) /\ Len(v) = Len(p) + Len(q)
        /\ \A k \in 1 .. Len(p) + Len(q) : v[k] = IF k <= Len(p) THEN p[k] ELSE q[k - Len(p)]
    <3>1. p \in Seq(S) /\ q \in Seq(S)  BY <1>4, <1>5
    <3> QED  BY ONLY <3>1, ConcatProperties
  <2>2. Len(p) = i - 1 /\ Len(q) = Len(R) - i  BY <1>4, <1>5
  <2>3. Len(p) + Len(q) = Len(R) - 1  BY <1>1, <1>12, <2>2
  <2>4. Len(v) = (i - 1) + (Len(R) - i)  BY <2>1, <2>2
  <2>5. ASSUME NEW k \in 1 .. Len(R) - 1  PROVE v[k] = IF k <= i - 1 THEN p[k] ELSE q[k - (i - 1)]
    <3>1. k \in 1 .. Len(p) + Len(q)  BY <2>3
    <3>2. v[k] = IF k <= Len(p) THEN p[k] ELSE q[k - Len(p)]  BY <2>1, <3>1
    <3> HIDE DEF v
    <3> QED  BY <2>2, <3>2
  <2>6. v \in Seq(S)  BY <2>1
  <2> HIDE DEF v
  <2> QED  BY <2>4, <2>5, <2>6
<1>8. v = RemoveAt(R, i)  BY DEF RemoveAt, p, q
<1> HIDE DEF v
<1>7. DOMAIN v = 1 .. Len(R) - 1  BY <1>1, <1>2, <1>6, LenProperties
<1>9. ASSUME NEW k \in DOMAIN v
      PROVE  Past(i, k) \in DOMAIN R \ {i} /\ v[k] = R[Past(i, k)] /\ k \in Nat
  <2>0. k \in 1 .. Len(R) - 1 /\ k \in Nat  BY <1>7, <1>9
  <2>1. CASE k < i
    <3>1. k \in 1 .. i - 1 /\ k <= i - 1 /\ k \in 1 .. Len(R)  BY <1>1, <1>12, <2>0, <2>1
    <3>2. v[k] = p[k] /\ p[k] = R[k]  BY <1>4, <1>6, <2>0, <3>1
    <3> QED  BY <1>1, <2>0, <2>1, <3>1, <3>2 DEF Past
  <2>2. CASE ~(k < i)
    <3> DEFINE m == k - (i - 1)
    <3>1. m \in 1 .. Len(R) - i /\ ~(k <= i - 1) /\ i + m = k + 1  BY <1>1, <1>12, <2>0, <2>2
    <3>2. v[k] = q[m]  BY <1>6, <2>0, <3>1
    <3> HIDE DEF m
    <3>3. q[m] = R[k + 1]  BY <1>5, <3>1
    <3>4. k + 1 \in 1 .. Len(R) /\ k + 1 # i  BY <1>1, <1>12, <2>0, <2>2
    <3> QED  BY <1>1, <2>0, <2>2, <3>2, <3>3, <3>4 DEF Past
  <2> QED  BY <2>1, <2>2
<1>10. Len(R) = 1 => v = <<>>
  <2>1. Len(R) = 1 => Len(v) = 0  BY <1>2, <1>6
  <2> QED  BY <1>6, <2>1, EmptySeq
<1> QED  BY <1>6, <1>8, <1>9, <1>10 DEF S

\* The caller of a restart that the queue itself runs gives its message up.
LEMMA RestartGivenUp ==
    ASSUME SInv, Has(th, "restarting"), NEW w \in Threads,
           w.items = th.items, w.active = th.active, w.turn = th.turn, w.restarts = <<>>,
           w.cur = th.cur, w.res = th.res, w.slot = th.slot, w.job = th.job, w.phase = th.phase,
           w.late = th.late, w.flags = th.flags, w.status # "working",
           NEW v, v = RestartRejected(w, th.active.entry)
    PROVE  /\ Core(v, Due, ran, Waiting, native) /\ NoDispatch(th, v)
           /\ Stays([th EXCEPT !.restarts = <<>>], v) /\ v.restarts = <<>>
<1> DEFINE a == Off(w, {"restarting", "replacing"})
           X == Due
           H == Waiting
<1>1. /\ Good(th) /\ Conn(th) /\ th \in Threads /\ Believes(th, H, native) /\ Loss(th, X, ran)
  BY StartsServing
<1>2. /\ th.active.stage = "sent" /\ ~Up(th) /\ th.active.entry \in Entries
      /\ th.restarts = <<[job |-> th.active.entry, on |-> th.active.on]>>
  BY <1>1 DEF Conn, Restarting, Good, Once
<1>3. th.restarts # <<>>  BY <1>2
<1>4. ~Has(th, "starting") /\ th.job = None /\ th.late = None  BY <1>1, <1>2, <1>3 DEF Conn
<1>5. th.phase = "none" /\ th.flags \cap {"direct", "asks"} = {}
  BY <1>1, <1>2, <1>4 DEF Believes, Conn, Owed
<1>6. /\ a \in Threads /\ a.items = th.items /\ a.active = th.active /\ a.turn = th.turn
      /\ a.restarts = <<>> /\ a.cur = th.cur /\ a.res = th.res /\ a.slot = th.slot
      /\ a.job = None /\ a.phase = "none" /\ a.late = None /\ a.status # "working"
      /\ a.flags = th.flags \ {"restarting", "replacing"}
  <2>1. /\ a \in Threads /\ a.items = w.items /\ a.active = w.active /\ a.turn = w.turn
        /\ a.restarts = w.restarts /\ a.cur = w.cur /\ a.res = w.res /\ a.slot = w.slot
        /\ a.job = w.job /\ a.phase = w.phase /\ a.late = w.late /\ a.status = w.status
        /\ a.flags = w.flags \ {"restarting", "replacing"}
    BY DEF Off, Threads
  <2> QED  BY <1>4, <1>5, <2>1
<1>7. v = AdmissionFailed(a)
  <2> HIDE DEF a
  <2> QED  BY <1>2, <1>6 DEF RestartRejected, a
<1> HIDE DEF a, X, H
<1>8. Good(a) /\ Loss(a, X, ran)
  <2>1. Safe(a) = Safe(th) /\ Pending(a) = Pending(th)  BY <1>6 DEF Safe, Pending
  <2> QED  BY <1>1, <1>4, <1>6, <2>1 DEF Good, Once, Loss
<1>9. ~Up(a) /\ ~Has(a, "restarting") /\ ~Has(a, "direct") /\ ~Has(a, "starting")
  BY <1>2, <1>4, <1>5, <1>6 DEF Up, Has
<1>10. Believes(a, H, native)
  <2>1. /\ a.flags \cap {"awaiting", "completed"} = {} /\ (native => a.slot = None)
        /\ (a.res = 0 => H = {})
    BY <1>1, <1>5, <1>6 DEF Believes, Has
  <2> QED  BY <1>2, <1>6, <1>9, <2>1 DEF Believes, Has
<1>11. Serves(a, a, X, ran, H, native)  BY <1>8, <1>10, ServesItself
<1>12. Serves(a, v, X, ran, H, native) /\ v.active.stage = "none"
  <2>1. a.active.stage = "sent" => a.active.entry # a.job
    BY <1>2, <1>6, NamesAssumption
  <2> QED  BY <1>2, <1>6, <1>7, <1>9, <1>11, <2>1, ServesAdmissionFailed
<1>13. /\ Good(v) /\ Loss(v, X, ran) /\ Believes(v, H, native) /\ Same(a, v)
       /\ \A f \in {"dead", "starting"} : Has(v, f) <=> Has(a, f)
       /\ Has(v, "restarting") => Has(a, "restarting")
       /\ v.active.on \in {0, a.active.on, a.cur}
  BY <1>12 DEF Serves, Tame, Has, SessionFlags
<1>14. Conn(v)
  <2>1. ~Has(v, "restarting") /\ ~Has(v, "starting")  BY <1>9, <1>13
  <2> QED  BY <1>6, <1>12, <1>13, <2>1, NamesAssumption DEF Conn, Owed, Restarting, Same
<1>15. Core(v, X, ran, H, native)  BY <1>13, <1>14 DEF Core
<1>16. NoDispatch(th, v)  BY <1>12 DEF NoDispatch
<1>17. Stays([th EXCEPT !.restarts = <<>>], v) /\ v.restarts = <<>>
  <2>1. Has(th, "dead") => Has(v, "dead")  BY <1>6, <1>13 DEF Has
  <2> QED  BY <1>1, <1>6, <1>13, <2>1 DEF Stays, Same, Has, Threads
<1> QED  BY <1>15, <1>16, <1>17 DEF X, H
\* A restart is over, with one or another outcome.
RestartOver(u, w, i) ==
    /\ w.restarts = RemoveAt(u.restarts, i) /\ Stays([u EXCEPT !.restarts = w.restarts], w)

\* The restarts of direct inputs leave the queue as it is.
LEMMA RestartsOfInputs ==
    ASSUME SInv, NEW i \in DOMAIN th.restarts, th.restarts[i].job \in Inputs
    PROVE  /\ ~Has(th, "restarting")
           /\ \A k \in DOMAIN RemoveAt(th.restarts, i) : RemoveAt(th.restarts, i)[k].job \in Inputs
<1> DEFINE R == th.restarts
           P == RemoveAt(R, i)
<1>1. Good(th) /\ Conn(th) /\ th \in Threads /\ R \in Seq([job : Jobs, on : Nat])
  BY StartsServing DEF Threads
<1>2. ~Has(th, "restarting")
  <2> SUFFICES ASSUME Has(th, "restarting")  PROVE FALSE  OBVIOUS
  <2>1. R = <<[job |-> th.active.entry, on |-> th.active.on]>> /\ th.active.entry \in Entries
    BY <1>1 DEF Conn, Restarting, Good, Once
  <2>2. DOMAIN R = {1}  BY <2>1
  <2>3. R[i].job = th.active.entry  BY <2>1, <2>2
  <2> QED  BY <2>1, <2>3, NamesAssumption
<1>3. \A k \in DOMAIN R : R[k].job \in Inputs  BY <1>1, <1>2 DEF Conn, Restarting
<1>4. i \in DOMAIN R  OBVIOUS
<1> HIDE DEF R
<1>5. \A k \in DOMAIN P : Past(i, k) \in DOMAIN R /\ P[k] = R[Past(i, k)]
  BY <1>1, <1>4, RestartsLeft
<1> HIDE DEF P
<1>6. \A k \in DOMAIN P : P[k].job \in Inputs  BY <1>3, <1>5
<1> QED  BY <1>2, <1>6 DEF P, R

\* A restart of the queue's own message is the only one.
LEMMA RestartOfMessage ==
    ASSUME SInv, NEW i \in DOMAIN th.restarts, th.restarts[i].job \in Entries
    PROVE  /\ Has(th, "restarting") /\ th.restarts[i].job = th.active.entry
           /\ RemoveAt(th.restarts, i) = <<>>
<1> DEFINE R == th.restarts
<1>1. Good(th) /\ Conn(th) /\ th \in Threads /\ R \in Seq([job : Jobs, on : Nat])
  BY StartsServing DEF Threads
<1>2. Has(th, "restarting")  BY <1>1, NamesAssumption DEF Conn, Restarting
<1>3. R = <<[job |-> th.active.entry, on |-> th.active.on]>>  BY <1>1, <1>2 DEF Conn, Restarting
<1>4. DOMAIN R = {1} /\ Len(R) = 1 /\ R[1].job = th.active.entry  BY <1>3
<1>5. i \in DOMAIN R  OBVIOUS
<1>6. R[i].job = th.active.entry  BY <1>4, <1>5
<1> HIDE DEF R
<1>7. RemoveAt(R, i) = <<>>  BY <1>1, <1>4, <1>5, RestartsLeft
<1> QED  BY <1>2, <1>6, <1>7 DEF R

LEMMA RestartFailsServed ==
    ASSUME SInv, NEW i \in DOMAIN th.restarts, RestartFails(i)
    PROVE  Served' /\ NoDispatch(th, th') /\ RestartOver(th, th', i)
<1> DEFINE R == RemoveAt(th.restarts, i)
           j == th.restarts[i].job
           v == [th EXCEPT !.restarts = R, !.status = "error"]
           w == [th EXCEPT !.restarts = RemoveAt(@, i), !.status = "error"]
<1>1. /\ Good(th) /\ Conn(th) /\ th \in Threads /\ Believes(th, Waiting, native)
      /\ Loss(th, Due, ran)
  BY StartsServing
<1>2. R \in Seq([job : Jobs, on : Nat]) /\ j \in Jobs  BY <1>1, RestartRemoved DEF Threads
<1>3. w = v  BY <1>1 DEF Threads
<1>4. /\ th.restarts[i].on = th.cur /\ inputs' = Resolve({j}, "refused")
      /\ th' = IF j \in Inputs /\ (Promotes(j) \/ Pc(j) # "handed") THEN PauseForFailure(v)
               ELSE RestartRejected(v, j)
      /\ native' = native /\ queued' = queued /\ withdrawn' = withdrawn /\ begun' = begun /\ ran' = ran
  BY <1>3 DEF RestartFails, histories
<1>5. /\ Has(th, "dead")
      /\ j \in Inputs => Pc(j) = "handed" /\ j \notin given /\ inputs[j].on = th.cur
  BY <1>4 DEF SInv, Links, Restarts, Linked
<1>6. Onward  BY <1>4, OnwardByOutcome
<1>7. ~Up(th) /\ th.job = None /\ th.late = None /\ th.phase = "none"
  <2>1. ~Up(th)  BY <1>5 DEF Up
  <2> QED  BY <1>1, <2>1 DEF Conn, Believes
<1>8. CASE j \in Entries
  <2>1. Has(th, "restarting") /\ j = th.active.entry /\ R = <<>>  BY <1>8, RestartOfMessage
  <2>2. th' = RestartRejected(v, th.active.entry)  BY <1>4, <1>8, <2>1, NamesAssumption
  <2>3. /\ v \in Threads /\ v.items = th.items /\ v.active = th.active /\ v.turn = th.turn
        /\ v.restarts = <<>> /\ v.cur = th.cur /\ v.res = th.res /\ v.slot = th.slot
        /\ v.job = th.job /\ v.phase = th.phase /\ v.late = th.late /\ v.status # "working"
        /\ v.flags = th.flags
    BY <1>1, <1>2, <2>1 DEF Threads
  <2> HIDE DEF v, w, j, R
  <2>4. /\ Core(th', Due, ran, Waiting, native) /\ NoDispatch(th, th')
        /\ Stays([th EXCEPT !.restarts = <<>>], th') /\ th'.restarts = <<>>
    <3>1. th' \in {th'}  OBVIOUS
    <3> QED  BY <2>1, <2>2, <2>3, RestartGivenUp
  <2>5. Waiting' = Waiting
    <3>1. th'.cur = th.cur  BY <1>1, <2>4 DEF Stays, Threads
    <3>2. j \notin Waiting  BY <1>8, NamesAssumption DEF Waiting
    <3>3. Waiting' = Waiting \ {j}  BY <1>4, <3>1, WaitingResolved
    <3> QED  BY <3>2, <3>3
  <2>6. Served'  BY <1>4, <1>6, <2>4, <2>5, Answers
  <2>7. RestartOver(th, th', i)  BY <2>1, <2>4 DEF RestartOver, R
  <2> QED  BY <2>4, <2>6, <2>7
<1>9. CASE j \in Inputs
  <2> DEFINE G == Waiting \ {j}
  <2>1. ~Has(th, "restarting") /\ \A k \in DOMAIN R : R[k].job \in Inputs
    BY <1>9, RestartsOfInputs
  <2>2. th.active.stage # "sent"  BY <1>1, <1>7, <2>1, NothingSent DEF Provider
  <2>3. /\ v \in Threads /\ v.items = th.items /\ v.active = th.active /\ v.turn = th.turn
        /\ v.restarts = R /\ v.cur = th.cur /\ v.res = th.res /\ v.slot = th.slot
        /\ v.job = th.job /\ v.phase = th.phase /\ v.late = th.late /\ v.status = "error"
        /\ v.flags = th.flags
    BY <1>1, <1>2 DEF Threads
  <2>4. j \notin Entries  BY <1>9, NamesAssumption
  <2> HIDE DEF v, w, R
  <2>5. Good(v) /\ Loss(v, Due, ran)  BY <1>1, <2>3 DEF Good, Once, Loss, Safe, Pending
  <2>6. Up(v) <=> Up(th)  BY <2>3 DEF Up, Has
  <2>7. Believes(v, G, native)  BY <1>1, <1>7, <2>3, <2>6 DEF Believes, Has
  <2>8. Conn(v)
    <3>1. ~Has(v, "restarting") /\ ~Up(v)  BY <1>7, <2>1, <2>3, <2>6 DEF Has
    <3>2. ~Has(v, "starting")
      <4>1. th.restarts # <<>>
        <5> SUFFICES ASSUME th.restarts = <<>>  PROVE FALSE  OBVIOUS
        <5>1. DOMAIN th.restarts = {}  OBVIOUS
        <5> QED  BY <5>1
      <4> QED  BY <1>1, <2>3, <4>1 DEF Conn, Has
    <3> QED  BY <1>7, <2>1, <2>2, <2>3, <3>1, <3>2, NamesAssumption DEF Conn, Owed, Restarting
  <2> HIDE DEF G, j
  <2>9. Serves(v, v, Due, ran, G, native)  BY <2>5, <2>7, ServesItself
  <2>10. Serves(v, th', Due, ran, G, native)
    <3>1. v.active.stage = "admitted" => v.active.entry # v.job
      BY <1>7, <2>3, <2>5, NamesAssumption DEF Good, Once
    <3>2. Serves(v, PauseForFailure(v), Due, ran, G, native)
      BY <1>7, <2>2, <2>3, <2>6, <2>9, <3>1, ServesFailure
    <3>3. RestartRejected(v, j) = v  BY <2>4 DEF RestartRejected
    <3> QED  BY <1>4, <2>9, <3>2, <3>3
  <2>11. Core(th', Due, ran, G, native) /\ NoDispatch(v, th') /\ Stays(v, th')
    BY <2>8, <2>10, ServedCore
  <2>12. NoDispatch(th, th') /\ RestartOver(th, th', i)
    <3>1. th'.restarts = R  BY <2>3, <2>11 DEF Stays
    <3>2. Stays([th EXCEPT !.restarts = R], th')
      <4> DEFINE x == [th EXCEPT !.restarts = R]
      <4>1. /\ x.cur = th.cur /\ x.active = th.active /\ x.restarts = R /\ x.flags = th.flags
            /\ x.slot = th.slot /\ x.job = th.job
        BY <1>1 DEF Threads
      <4> HIDE DEF x
      <4>2. Stays(x, th')  BY <2>3, <2>11, <4>1 DEF Stays, Has
      <4> QED  BY <4>2 DEF x
    <3> QED  BY <2>3, <2>11, <3>1, <3>2 DEF NoDispatch, RestartOver, R
  <2>13. Waiting' = G
    <3>1. th'.cur = th.cur  BY <2>3, <2>11 DEF Stays
    <3> QED  BY <1>4, <3>1, WaitingResolved DEF G
  <2> QED  BY <1>4, <1>6, <2>11, <2>12, <2>13, Answers
<1> QED  BY <1>2, <1>8, <1>9 DEF Jobs

LEMMA RestartAbandonedServed ==
    ASSUME SInv, NEW i \in DOMAIN th.restarts, RestartAbandoned(i)
    PROVE  Served' /\ NoDispatch(th, th') /\ RestartOver(th, th', i)
<1> DEFINE R == RemoveAt(th.restarts, i)
           j == th.restarts[i].job
           v == [th EXCEPT !.restarts = R]
           w == [th EXCEPT !.restarts = RemoveAt(@, i)]
<1>1. /\ Good(th) /\ Conn(th) /\ th \in Threads /\ Believes(th, Waiting, native)
      /\ Loss(th, Due, ran)
  BY StartsServing
<1>2. R \in Seq([job : Jobs, on : Nat]) /\ j \in Jobs  BY <1>1, RestartRemoved DEF Threads
<1>3. w = v  BY <1>1 DEF Threads
<1>4. /\ th.restarts[i].on # th.cur /\ inputs' = Resolve({j}, "accepted")
      /\ th' = IF j \in Entries /\ Has(v, "restarting") THEN RestartRejected(v, j) ELSE v
      /\ native' = native /\ queued' = queued /\ withdrawn' = withdrawn /\ begun' = begun /\ ran' = ran
  BY <1>3 DEF RestartAbandoned, histories
<1>5. j \in Inputs => Pc(j) = "handed" /\ j \notin given /\ inputs[j].on # th.cur
  BY <1>4 DEF SInv, Links, Restarts, Linked
<1>6. Onward  BY <1>4, OnwardByOutcome
<1>7. /\ v \in Threads /\ v.items = th.items /\ v.active = th.active /\ v.turn = th.turn
      /\ v.restarts = R /\ v.cur = th.cur /\ v.res = th.res /\ v.slot = th.slot
      /\ v.job = th.job /\ v.phase = th.phase /\ v.late = th.late /\ v.status = th.status
      /\ v.flags = th.flags
  BY <1>1, <1>2 DEF Threads
<1>10. j \notin Waiting
  BY <1>5 DEF Waiting
<1>8. CASE j \in Entries
  <2>1. Has(th, "restarting") /\ j = th.active.entry /\ R = <<>>  BY <1>8, RestartOfMessage
  <2>2. v.status # "working"  BY <1>1, <1>7, <2>1 DEF Conn, Restarting
  <2>3. th' = RestartRejected(v, th.active.entry)  BY <1>4, <1>7, <1>8, <2>1 DEF Has
  <2> HIDE DEF v, w, j, R
  <2>4. /\ Core(th', Due, ran, Waiting, native) /\ NoDispatch(th, th')
        /\ Stays([th EXCEPT !.restarts = <<>>], th') /\ th'.restarts = <<>>
    BY <1>7, <2>1, <2>2, <2>3, RestartGivenUp
  <2>5. Waiting' = Waiting
    <3>1. th'.cur = th.cur  BY <1>1, <2>4 DEF Stays, Threads
    <3>3. Waiting' = Waiting \ {j}  BY <1>4, <3>1, WaitingResolved
    <3> QED  BY <1>10, <3>3
  <2>6. Served'  BY <1>4, <1>6, <2>4, <2>5, Answers
  <2>7. RestartOver(th, th', i)  BY <2>1, <2>4 DEF RestartOver, R
  <2> QED  BY <2>4, <2>6, <2>7
<1>9. CASE j \in Inputs
  <2>1. ~Has(th, "restarting") /\ \A k \in DOMAIN R : R[k].job \in Inputs
    BY <1>9, RestartsOfInputs
  <2>2. th' = v  BY <1>4, <1>9, NamesAssumption
  <2> HIDE DEF v, w, R, j
  <2>3. Good(v) /\ Loss(v, Due, ran)  BY <1>1, <1>7 DEF Good, Once, Loss, Safe, Pending
  <2>4. Up(v) <=> Up(th)  BY <1>7 DEF Up, Has
  <2>5. Believes(v, Waiting, native)  BY <1>1, <1>7, <2>4 DEF Believes, Has
  <2>6. Conn(v)
    <3>2. ~Has(v, "starting")
      <4>1. th.restarts # <<>>
        <5> SUFFICES ASSUME th.restarts = <<>>  PROVE FALSE  OBVIOUS
        <5>1. DOMAIN th.restarts = {}  OBVIOUS
        <5> QED  BY <5>1
      <4> QED  BY <1>1, <1>7, <4>1 DEF Conn, Has
    <3> QED  BY <1>1, <1>7, <2>1, <2>4, <3>2 DEF Conn, Owed, Restarting, Provider, Has
  <2>7. Core(th', Due, ran, Waiting, native)  BY <2>2, <2>3, <2>5, <2>6 DEF Core
  <2>8. NoDispatch(th, th') /\ RestartOver(th, th', i)
    <3>1. [th EXCEPT !.restarts = th'.restarts] = th'  BY <1>7, <2>2 DEF v
    <3> QED  BY <1>7, <2>2, <3>1 DEF NoDispatch, RestartOver, Stays, R
  <2>9. Waiting' = Waiting
    <3>1. th'.cur = th.cur  BY <1>7, <2>2
    <3>3. Waiting' = Waiting \ {j}  BY <1>4, <3>1, WaitingResolved
    <3> QED  BY <1>10, <3>3
  <2> QED  BY <1>4, <1>6, <2>7, <2>8, <2>9, Answers
<1> QED  BY <1>2, <1>8, <1>9 DEF Jobs

-----------------------------------------------------------------------------
(* What callers, restarts and the provider know of each other.             *)

\* The callers of the direct inputs in D move on, the others wait as they did.
Moves(D) ==
    /\ \A d \in Inputs \ D : inputs'[d] = inputs[d]
    /\ \A d \in D : /\ inputs'[d].on \in {0, inputs[d].on, th.cur}
                    /\ inputs'[d].pc = "ready" => Pc(d) = "ready" \/ th'.active.stage # "sent"
                    /\ inputs'[d].pc = "handed"
                         => Pc(d) = "handed" \/ th'.active.stage \notin {"sent", "admitted"}
                    /\ d \in given' => inputs'[d].pc \notin {"new", "begun", "waiting", "ready"}

\* The restarts that were there before, but for at most one that is over.
Fewer(R, P) ==
    \E i \in Nat : \A k \in DOMAIN P : /\ k \in Nat /\ Past(i, k) \in DOMAIN R
                                       /\ P[k] = R[Past(i, k)]

Typed ==
    /\ th \in Threads /\ th' \in Threads /\ inputs \in Records /\ sessions \in Nat
    /\ inputs' \in Records /\ given \subseteq given' /\ given' \subseteq Inputs

LEMMA DatedKept ==
    ASSUME Typed, Dated, NEW D \in SUBSET Inputs, Moves(D),
           sessions' \in {sessions, sessions + 1},
           th'.cur \in {0, th.cur, sessions'},
           th'.active.on \in {0, th.active.on, th.cur, th'.cur}
    PROVE  Dated'
<1>1. /\ th.cur \in Nat /\ th.active.on \in Nat /\ th'.cur \in Nat /\ th'.active.on \in Nat
      /\ sessions \in Nat
      /\ \A d \in Inputs : inputs[d].on \in Nat
  BY DEF Typed, Threads, Actives, Records
<1>2. /\ th.cur <= sessions /\ th.active.on <= sessions
      /\ \A d \in Inputs : inputs[d].on <= sessions
  BY DEF Dated
<1>3. sessions <= sessions' /\ sessions' \in Nat  BY <1>1
<1>4. th'.cur <= sessions'  BY <1>1, <1>2, <1>3
<1>5. th'.active.on <= sessions'  BY <1>1, <1>2, <1>3, <1>4
<1>6. ASSUME NEW d \in Inputs  PROVE inputs'[d].on <= sessions'
  <2>1. inputs'[d].on \in {0, inputs[d].on, th.cur}  BY DEF Moves
  <2> QED  BY <1>1, <1>2, <1>3, <2>1
<1> QED  BY <1>4, <1>5, <1>6 DEF Dated

LEMMA SameRestarts ==
    ASSUME NEW R \in Seq([job : Jobs, on : Nat])
    PROVE  Fewer(R, R)
<1>1. Len(R) \in Nat /\ DOMAIN R = 1 .. Len(R)  BY LenProperties
<1>2. \A k \in DOMAIN R : k \in Nat /\ Past(Len(R) + 1, k) = k  BY <1>1 DEF Past
<1>3. Len(R) + 1 \in Nat  BY <1>1
<1> QED  BY <1>2, <1>3 DEF Fewer

LEMMA NoRestarts ==
    ASSUME NEW R
    PROVE  Fewer(R, <<>>)
<1>1. DOMAIN <<>> = {} /\ 0 \in Nat  OBVIOUS
<1> QED  BY <1>1 DEF Fewer

LEMMA LaterRestarts ==
    ASSUME NEW R \in Seq([job : Jobs, on : Nat]), R # <<>>
    PROVE  Fewer(R, Tail(R))
<1>1. Len(R) \in Nat \ {0} /\ DOMAIN R = 1 .. Len(R)  BY EmptySeq, LenProperties
<1>2. /\ Len(Tail(R)) = Len(R) - 1 /\ DOMAIN Tail(R) = 1 .. Len(R) - 1
      /\ \A k \in 1 .. Len(R) - 1 : Tail(R)[k] = R[k + 1]
  OBVIOUS
<1>3. \A k \in 1 .. Len(R) - 1 : k \in Nat /\ Past(1, k) = k + 1 /\ k + 1 \in 1 .. Len(R)
  BY <1>1 DEF Past
<1> DEFINE P == Tail(R)
<1>4. \A k \in DOMAIN P : k \in Nat /\ Past(1, k) \in DOMAIN R /\ P[k] = R[Past(1, k)]
  BY <1>1, <1>2, <1>3
<1> HIDE DEF P
<1>5. Fewer(R, P)  BY <1>4 DEF Fewer
<1> QED  BY <1>5 DEF P

LEMMA OtherRestarts ==
    ASSUME NEW R \in Seq([job : Jobs, on : Nat]), NEW i \in DOMAIN R
    PROVE  Fewer(R, RemoveAt(R, i))
<1>1. i \in Nat  BY LenProperties
<1> DEFINE P == RemoveAt(R, i)
<1>2. \A k \in DOMAIN P : k \in Nat /\ Past(i, k) \in DOMAIN R /\ P[k] = R[Past(i, k)]
  BY RestartsLeft
<1> HIDE DEF P
<1>3. Fewer(R, P)  BY <1>1, <1>2 DEF Fewer
<1> QED  BY <1>3 DEF P

LEMMA FewerOfThose ==
    ASSUME NEW R, NEW P, Fewer(R, P),
           \A i, k \in DOMAIN R : R[i].job = R[k].job => i = k
    PROVE  /\ \A k \in DOMAIN P : \E x \in DOMAIN R : P[k] = R[x]
           /\ \A i, k \in DOMAIN P : P[i].job = P[k].job => i = k
<1> PICK n \in Nat : \A k \in DOMAIN P : k \in Nat /\ Past(n, k) \in DOMAIN R
                                         /\ P[k] = R[Past(n, k)]
  BY DEF Fewer
<1>1. ASSUME NEW i \in DOMAIN P, NEW k \in DOMAIN P, P[i].job = P[k].job  PROVE i = k
  <2>1. Past(n, i) = Past(n, k)  BY <1>1
  <2> QED  BY <2>1 DEF Past
<1> QED  BY <1>1

LEMMA RestartsKept ==
    ASSUME Typed, Dated, Restarts, NEW D \in SUBSET Inputs, Moves(D),
           sessions' \in {sessions, sessions + 1},
           \/ th'.cur = th.cur /\ (Has(th, "dead") => Has(th', "dead"))
           \/ th'.cur \in {0, sessions + 1},
           Fewer(th.restarts, th'.restarts),
           \A k \in DOMAIN th'.restarts : th'.restarts[k].job \notin D \cup (given' \ given)
    PROVE  Restarts'
<1>1. /\ \A i \in DOMAIN th.restarts :
            /\ th.restarts[i].on \in 1 .. sessions
            /\ th.restarts[i].on = th.cur => Has(th, "dead")
            /\ th.restarts[i].job \in Inputs =>
                 /\ Pc(th.restarts[i].job) = "handed" /\ th.restarts[i].job \notin given
                 /\ inputs[th.restarts[i].job].on = th.restarts[i].on
      /\ \A i, k \in DOMAIN th.restarts : th.restarts[i].job = th.restarts[k].job => i = k
  BY DEF Restarts, Linked
<1>2. /\ \A k \in DOMAIN th'.restarts : \E x \in DOMAIN th.restarts : th'.restarts[k] = th.restarts[x]
      /\ \A i, k \in DOMAIN th'.restarts : th'.restarts[i].job = th'.restarts[k].job => i = k
  BY <1>1, FewerOfThose
<1>3. sessions \in Nat /\ sessions' \in Nat /\ sessions <= sessions'  BY DEF Typed
<1>4. ASSUME NEW k \in DOMAIN th'.restarts
      PROVE  /\ th'.restarts[k].on \in 1 .. sessions'
             /\ th'.restarts[k].on = th'.cur => Has(th', "dead")
             /\ th'.restarts[k].job \in Inputs =>
                  /\ inputs'[th'.restarts[k].job].pc = "handed" /\ th'.restarts[k].job \notin given'
                  /\ inputs'[th'.restarts[k].job].on = th'.restarts[k].on
  <2> PICK x \in DOMAIN th.restarts : th'.restarts[k] = th.restarts[x]  BY <1>2, <1>4
  <2> DEFINE r == th.restarts[x]
  <2>1. /\ r.on \in 1 .. sessions /\ (r.on = th.cur => Has(th, "dead"))
        /\ r.job \in Inputs => Pc(r.job) = "handed" /\ r.job \notin given /\ inputs[r.job].on = r.on
    BY <1>1
  <2>2. th'.restarts[k] = r /\ r.job \notin D \cup (given' \ given)  BY <1>4
  <2> HIDE DEF r
  <2>3. r.on \in 1 .. sessions'  BY <1>3, <2>1
  <2>4. r.on = th'.cur => Has(th', "dead")
    <3>1. r.on # 0 /\ r.on # sessions + 1  BY <1>3, <2>1
    <3> QED  BY <2>1, <3>1
  <2>5. r.job \in Inputs => inputs'[r.job] = inputs[r.job]  BY <2>2 DEF Moves
  <2> QED  BY <2>1, <2>2, <2>3, <2>4, <2>5 DEF Pc
<1> QED  BY <1>2, <1>4 DEF Restarts, Linked, Pc

LEMMA SteersKept ==
    ASSUME Typed, Restarts, Steers, NEW D \in SUBSET Inputs, Moves(D),
           th'.job \in Inputs => th'.job \in given',
           th'.slot \in {th.slot, None}, th'.slot \notin D \cup (given' \ given),
           Fewer(th.restarts, th'.restarts)
    PROVE  Steers'
<1>1. ASSUME th'.slot \in Inputs
      PROVE  /\ th'.slot \notin given' /\ inputs'[th'.slot].pc \in {"handed", "done"}
             /\ \A i \in DOMAIN th'.restarts : th'.restarts[i].job # th'.slot
  <2>1. th'.slot = th.slot  BY <1>1, NamesAssumption
  <2>2. /\ th.slot \notin given /\ Pc(th.slot) \in {"handed", "done"}
        /\ \A i \in DOMAIN th.restarts : th.restarts[i].job # th.slot
    BY <1>1, <2>1 DEF Steers
  <2>3. inputs'[th.slot] = inputs[th.slot]  BY <1>1, <2>1 DEF Moves
  <2>4. \A k \in DOMAIN th'.restarts : \E x \in DOMAIN th.restarts : th'.restarts[k] = th.restarts[x]
    BY FewerOfThose DEF Restarts
  <2>5. \A i \in DOMAIN th'.restarts : th'.restarts[i].job # th'.slot  BY <2>1, <2>2, <2>4
  <2> QED  BY <2>1, <2>2, <2>3, <2>5 DEF Pc
<1> QED  BY <1>1 DEF Steers, Pc

LEMMA CallersKept ==
    ASSUME Typed, Callers, NEW D \in SUBSET Inputs, Moves(D), NoDispatch(th, th'),
           \A d \in (given' \ given) \ D : Pc(d) \notin {"new", "begun", "waiting", "ready"}
    PROVE  Callers'
<1>1. ASSUME NEW d \in given'  PROVE inputs'[d].pc \notin {"new", "begun", "waiting", "ready"}
  <2>0. d \in Inputs  BY DEF Typed
  <2>1. CASE d \in D  BY <1>1, <2>1 DEF Moves
  <2>2. CASE d \notin D
    <3>1. inputs'[d] = inputs[d]  BY <2>0, <2>2 DEF Moves
    <3>2. Pc(d) \notin {"new", "begun", "waiting", "ready"}  BY <1>1, <2>2 DEF Callers
    <3> QED  BY <3>1, <3>2 DEF Pc
  <2> QED  BY <2>1, <2>2
<1>2. ASSUME NEW d \in Inputs
      PROVE  /\ inputs'[d].pc \in {"ready", "handed"} => th'.active.stage # "sent"
             /\ inputs'[d].pc = "handed" => th'.active.stage # "admitted"
  <2>1. /\ Pc(d) \in {"ready", "handed"} => th.active.stage # "sent"
        /\ Pc(d) = "handed" => th.active.stage # "admitted"
    BY DEF Callers
  <2>2. /\ th.active.stage # "sent" => th'.active.stage # "sent"
        /\ th.active.stage \notin {"sent", "admitted"} => th'.active.stage \notin {"sent", "admitted"}
    BY DEF NoDispatch
  <2>3. CASE d \in D  BY <2>1, <2>2, <2>3 DEF Moves
  <2>4. CASE d \notin D
    <3>1. inputs'[d].pc = Pc(d)  BY <2>4 DEF Moves, Pc
    <3> QED  BY <2>1, <2>2, <3>1
  <2> QED  BY <2>3, <2>4
<1> QED  BY <1>1, <1>2 DEF Callers, Pc

LEMMA RanKept ==
    ASSUME Ran, queued \subseteq queued', begun' \cup ran' \subseteq begun \cup ran \cup ({th.job} \cap Entries),
           th'.job \in Entries => th'.job \in queued
    PROVE  Ran'
  BY DEF Ran

\* What the histories learn of a step.
History ==
    queued \subseteq queued' /\ begun' \cup ran' \subseteq begun \cup ran \cup ({th.job} \cap Entries)

LEMMA StepTyped ==
    ASSUME SInv, IInv', given \subseteq given'
    PROVE  Typed
<1>1. th \in Threads /\ inputs \in Records /\ sessions \in Nat  BY StartsServing, RecordsTyped
<1>2. th' \in Threads /\ inputs' \in Records /\ given' \subseteq Inputs
  BY DEF IInv, TypeOK, Records
<1> QED  BY <1>1, <1>2 DEF Typed

LEMMA LinksKept ==
    ASSUME SInv, IInv', NEW D \in SUBSET Inputs, Moves(D), NoDispatch(th, th'), History,
           given \subseteq given',
           \A d \in (given' \ given) \ D : Pc(d) \notin {"new", "begun", "waiting", "ready"},
           \/ sessions' = sessions /\ th'.cur = th.cur /\ (Has(th, "dead") => Has(th', "dead"))
           \/ sessions' = sessions /\ th'.cur = 0
           \/ sessions' = sessions + 1 /\ th'.cur = sessions + 1,
           th'.active.on \in {0, th.active.on, th.cur, th'.cur},
           Fewer(th.restarts, th'.restarts),
           \A k \in DOMAIN th'.restarts : th'.restarts[k].job \notin D \cup (given' \ given),
           th'.job \in Inputs => th'.job \in given', th'.job \in Entries => th'.job \in queued,
           th'.slot \in {th.slot, None}, th'.slot \notin D \cup (given' \ given)
    PROVE  Links'
<1>1. Typed /\ Dated /\ Restarts /\ Steers /\ Callers /\ Ran
  BY StepTyped DEF SInv, Links
<1>2. sessions' \in {sessions, sessions + 1} /\ th'.cur \in {0, th.cur, sessions'}
  OBVIOUS
<1>3. Dated'  BY <1>1, <1>2, DatedKept
<1>4. Restarts'
  <2>1. \/ th'.cur = th.cur /\ (Has(th, "dead") => Has(th', "dead"))
        \/ th'.cur \in {0, sessions + 1}
    OBVIOUS
  <2> QED  BY <1>1, <1>2, <2>1, RestartsKept
<1>5. Steers'  BY <1>1, SteersKept
<1>6. Callers'  BY <1>1, CallersKept
<1>7. Ran'  BY <1>1, RanKept DEF History
<1> QED  BY <1>3, <1>4, <1>5, <1>6, <1>7 DEF Links

\* Of a step that starts nothing and binds nothing, only the callers have to be looked at.
LEMMA LinksStay ==
    ASSUME SInv, IInv', NEW D \in SUBSET Inputs, Moves(D), NoDispatch(th, th'), Stays(th, th'),
           History, sessions' = sessions, given' = given,
           \A k \in DOMAIN th.restarts : th.restarts[k].job \notin D,
           th'.slot \notin D
    PROVE  Links'
<1>1. given' \ given = {} /\ given \subseteq given'  OBVIOUS
<1>2. /\ th'.cur = th.cur /\ (Has(th, "dead") => Has(th', "dead")) /\ th'.restarts = th.restarts
      /\ th'.active.on \in {0, th.active.on, th.cur} /\ th'.slot \in {th.slot, None}
      /\ th'.job \in {th.job, None}
  BY DEF Stays
<1>3. Fewer(th.restarts, th'.restarts)
  <2>1. th.restarts \in Seq([job : Jobs, on : Nat])  BY StartsServing DEF Threads
  <2> QED  BY <1>2, <2>1, SameRestarts
<1>4. th'.job \in Inputs => th'.job \in given'
  BY <1>1, <1>2, NamesAssumption DEF SInv, Links, Steers
<1>5. th'.job \in Entries => th'.job \in queued
  BY <1>2, NamesAssumption DEF SInv, Links, Ran
<1> QED  BY <1>1, <1>2, <1>3, <1>4, <1>5, LinksKept

LEMMA LinksUntouched ==
    ASSUME SInv, IInv', inputs' = inputs, NoDispatch(th, th'), Stays(th, th'), History,
           sessions' = sessions, given' = given
    PROVE  Links'
<1>1. Moves({})  BY DEF Moves
<1> QED  BY <1>1, LinksStay

\* A caller hears the outcome of an input that is with the provider, or was.
LEMMA MovesAnswered ==
    ASSUME inputs \in Records, NEW j, NEW o \in {"accepted", "refused"}, inputs' = Resolve({j}, o),
           j \in given' => Pc(j) \notin {"new", "begun", "waiting", "ready"}
    PROVE  Moves({j} \cap Inputs)
<1>1. \A d \in Inputs : inputs'[d] = IF d = j /\ Pc(d) = "handed" THEN [inputs[d] EXCEPT !.pc = o]
                                     ELSE inputs[d]
  BY DEF Resolve
<1>2. \A d \in Inputs \ {j} : inputs'[d] = inputs[d]  BY <1>1
<1>3. ASSUME j \in Inputs
      PROVE  inputs'[j].on = inputs[j].on /\ inputs'[j].pc \in {Pc(j), o}
  BY <1>1, <1>3 DEF Records, Pc
<1> QED  BY <1>2, <1>3 DEF Moves

LEMMA LinksAnswered ==
    ASSUME SInv, IInv', NEW j, NEW o \in {"accepted", "refused"}, inputs' = Resolve({j}, o),
           NoDispatch(th, th'), Stays(th, th'), History, sessions' = sessions, given' = given,
           \A k \in DOMAIN th.restarts : th.restarts[k].job \notin {j} \cap Inputs,
           th'.slot \notin {j} \cap Inputs
    PROVE  Links'
<1>1. Moves({j} \cap Inputs)
  <2>1. j \in given' => Pc(j) \notin {"new", "begun", "waiting", "ready"}
    BY DEF SInv, Links, Callers
  <2> QED  BY <2>1, RecordsTyped, MovesAnswered
<1> QED  BY <1>1, LinksStay

-----------------------------------------------------------------------------
(* Every step keeps the invariant.                                         *)

\* Of a step that dispatches no message.
Goes == Served' /\ Links' /\ NoDispatch(th, th')

LEMMA Untroubled ==
    ASSUME SInv, IInv', inputs' = inputs, Served', NoDispatch(th, th'), Stays(th, th'), History,
           sessions' = sessions, given' = given
    PROVE  Goes
  BY LinksUntouched DEF Goes

LEMMA QueueGoes ==
    ASSUME SInv, IInv', Races = {},
           \/ \E e \in Entries : Queue(e) \/ RemoveEntry(e)
           \/ \E i, k \in DOMAIN th.items : Reorder(i, k)
           \/ \E e, f \in Entries : Edit(e, f)
           \/ Resume \/ Stop \/ PauseForEdit \/ Watchdog
    PROVE  Goes
<1>1. ASSUME NEW e \in Entries, Queue(e)  PROVE Goes
  <2>1. inputs' = inputs /\ sessions' = sessions /\ given' = given /\ History
    BY <1>1 DEF Queue, History
  <2> QED  BY <1>1, <2>1, QueueServed, Untroubled
<1>2. ASSUME NEW e \in Entries, RemoveEntry(e)  PROVE Goes
  <2>1. inputs' = inputs /\ sessions' = sessions /\ given' = given /\ History
    BY <1>2 DEF RemoveEntry, History
  <2> QED  BY <1>2, <2>1, RemoveServed, Untroubled
<1>3. ASSUME NEW i \in DOMAIN th.items, NEW k \in DOMAIN th.items, Reorder(i, k)  PROVE Goes
  <2>1. inputs' = inputs /\ sessions' = sessions /\ given' = given /\ History
    BY <1>3 DEF Reorder, History, histories
  <2> QED  BY <1>3, <2>1, ReorderServed, Untroubled
<1>4. ASSUME NEW e \in Entries, NEW f \in Entries, Edit(e, f)  PROVE Goes
  <2>1. inputs' = inputs /\ sessions' = sessions /\ given' = given /\ History
    BY <1>4 DEF Edit, History
  <2> QED  BY <1>4, <2>1, EditServed, Untroubled
<1>5. CASE Resume
  <2>1. inputs' = inputs /\ sessions' = sessions /\ given' = given /\ History
    BY <1>5 DEF Resume, History, histories
  <2> QED  BY <1>5, <2>1, ResumeServed, Untroubled
<1>6. CASE Stop \/ Watchdog
  <2>1. inputs' = inputs /\ sessions' = sessions /\ given' = given /\ History
    BY <1>6 DEF Stop, Watchdog, History, histories
  <2> QED  BY <1>6, <2>1, StopServed, Untroubled
<1>7. CASE PauseForEdit
  <2>1. inputs' = inputs /\ sessions' = sessions /\ given' = given /\ History
    BY <1>7 DEF PauseForEdit, History, histories
  <2> QED  BY <1>7, <2>1, PauseForEditServed, Untroubled
<1> QED  BY <1>1, <1>2, <1>3, <1>4, <1>5, <1>6, <1>7

LEMMA ProviderGoes ==
    ASSUME SInv, IInv', Races = {},
           \/ PrepareFails \/ PumpEnds \/ SaysWorking \/ SaysLateCompletion \/ Asks \/ Answered
           \/ \E end \in {"completed", "failed"} : SaysCompleted(end)
           \/ Closes \/ StartFails
    PROVE  Goes
<1>1. CASE PrepareFails
  <2>1. inputs' = inputs /\ sessions' = sessions /\ given' = given /\ History
    BY <1>1 DEF PrepareFails, History, histories
  <2> QED  BY <1>1, <2>1, PrepareFailsServed, Untroubled
<1>2. CASE PumpEnds
  <2>1. inputs' = inputs /\ sessions' = sessions /\ given' = given /\ History
    BY <1>2 DEF PumpEnds, History, histories
  <2> QED  BY <1>2, <2>1, PumpEndsServed, Untroubled
<1>3. CASE SaysWorking
  <2>1. inputs' = inputs /\ sessions' = sessions /\ given' = given /\ History
    BY <1>3 DEF SaysWorking, History
  <2> QED  BY <1>3, <2>1, SaysWorkingServed, Untroubled
<1>4. CASE SaysLateCompletion
  <2>1. inputs' = inputs /\ sessions' = sessions /\ given' = given /\ History
    BY <1>4 DEF SaysLateCompletion, History, histories
  <2> QED  BY <1>4, <2>1, SaysLateServed, Untroubled
<1>5. CASE Asks
  <2>1. inputs' = inputs /\ sessions' = sessions /\ given' = given /\ History
    BY <1>5 DEF Asks, History, histories
  <2> QED  BY <1>5, <2>1, AsksServed, Untroubled
<1>6. CASE Answered
  <2>1. inputs' = inputs /\ sessions' = sessions /\ given' = given /\ History
    BY <1>6 DEF Answered, History, histories
  <2> QED  BY <1>6, <2>1, AnsweredServed, Untroubled
<1>7. ASSUME NEW end \in {"completed", "failed"}, SaysCompleted(end)  PROVE Goes
  <2>1. inputs' = inputs /\ sessions' = sessions /\ given' = given /\ History
    BY <1>7 DEF SaysCompleted, History, histories
  <2> QED  BY <1>7, <2>1, SaysCompletedServed, Untroubled
<1>8. CASE Closes
  <2>1. inputs' = inputs /\ sessions' = sessions /\ given' = given /\ History
    BY <1>8 DEF Closes, History, histories
  <2> QED  BY <1>8, <2>1, ClosesServed, Untroubled
<1>9. CASE StartFails
  <2>1. inputs' = inputs /\ sessions' = sessions /\ given' = given /\ History
    BY <1>9 DEF StartFails, History, histories
  <2> QED  BY <1>9, <2>1, StartFailsServed, Untroubled
<1> QED  BY <1>1, <1>2, <1>3, <1>4, <1>5, <1>6, <1>7, <1>8, <1>9

\* An input that a provider had is neither in the slot nor with a restart.
LEMMA GivenAway ==
    ASSUME SInv, Stays(th, th'), NEW j \in given
    PROVE  /\ \A k \in DOMAIN th.restarts : th.restarts[k].job # j
           /\ th'.slot # j
<1>1. j \in Inputs  BY DEF SInv, IInv, TypeOK
<1>2. th'.slot \in {th.slot, None} /\ j # None  BY <1>1, NamesAssumption DEF Stays
<1> QED  BY <1>1, <1>2 DEF SInv, Links, Restarts, Linked, Steers

LEMMA AnswerGoes ==
    ASSUME SInv, IInv', NEW j, NEW o \in {"accepted", "refused"}, inputs' = Resolve({j}, o),
           Served', NoDispatch(th, th'), Stays(th, th'), History, sessions' = sessions,
           given' = given, j \in Inputs => j \in given
    PROVE  Goes
<1>1. /\ \A k \in DOMAIN th.restarts : th.restarts[k].job \notin {j} \cap Inputs
      /\ th'.slot \notin {j} \cap Inputs
  BY GivenAway
<1> QED  BY <1>1, LinksAnswered DEF Goes

LEMMA OutcomesGo ==
    ASSUME SInv, IInv', Races = {},
           \/ SaysStarted \/ Fails \/ CompletesWithoutTurn \/ ClearSteer
           \/ \E d \in Inputs : SteerRefused(d) \/ StartRejected(d) \/ PromptSubmitted(d)
    PROVE  Goes
<1>0. th.job \in Inputs => th.job \in given  BY DEF SInv, Links, Steers
<1>1. CASE SaysStarted
  <2>1. sessions' = sessions /\ given' = given /\ History /\ inputs' = Resolve({th.job}, "accepted")
    BY <1>1 DEF SaysStarted, History
  <2> QED  BY <1>0, <1>1, <2>1, SaysStartedServed, AnswerGoes
<1>2. CASE Fails
  <2>1. sessions' = sessions /\ given' = given /\ History /\ inputs' = Resolve({th.job}, "refused")
    BY <1>2 DEF Fails, History, histories
  <2> QED  BY <1>0, <1>2, <2>1, FailsServed, AnswerGoes
<1>3. CASE CompletesWithoutTurn
  <2>1. sessions' = sessions /\ given' = given /\ History /\ inputs' = Resolve({th.job}, "accepted")
    BY <1>3 DEF CompletesWithoutTurn, History
  <2> QED  BY <1>0, <1>3, <2>1, WithoutTurnServed, AnswerGoes
<1>4. CASE ClearSteer
  <2>1. /\ sessions' = sessions /\ given' = given /\ History
        /\ inputs' = Resolve({th.slot}, "refused") /\ th.slot # None
    BY <1>4 DEF ClearSteer, History, histories
  <2>2. Served' /\ NoDispatch(th, th') /\ Stays(th, th') /\ th'.slot = None
    BY <1>4, ClearSteerServed
  <2>3. \A k \in DOMAIN th.restarts : th.restarts[k].job \notin {th.slot} \cap Inputs
    BY DEF SInv, Links, Steers
  <2>4. th'.slot \notin {th.slot} \cap Inputs  BY <2>2, NamesAssumption
  <2> QED  BY <2>1, <2>2, <2>3, <2>4, LinksAnswered DEF Goes
<1>5. ASSUME NEW d \in Inputs, SteerRefused(d)  PROVE Goes
  <2>1. /\ sessions' = sessions /\ given' = given /\ History /\ inputs' = Resolve({d}, "refused")
        /\ native /\ \A k \in DOMAIN th.restarts : th.restarts[k].job # d
    BY <1>5 DEF SteerRefused, History, histories
  <2>2. Served' /\ NoDispatch(th, th') /\ Stays(th, th')  BY <1>5, SteerRefusedServed
  <2>3. th'.slot # d
    <3>1. th.slot = None  BY <2>1, StartsServing DEF Believes
    <3> QED  BY <2>2, <3>1, NamesAssumption DEF Stays
  <2> QED  BY <2>1, <2>2, <2>3, LinksAnswered DEF Goes
<1>6. ASSUME NEW d \in Inputs, StartRejected(d)  PROVE Goes
  <2>1. /\ sessions' = sessions /\ given' = given /\ History /\ inputs' = Resolve({d}, "refused")
        /\ d \in given
    BY <1>6 DEF StartRejected, History, histories
  <2> QED  BY <1>6, <2>1, StartRejectedServed, AnswerGoes
<1>7. ASSUME NEW d \in Inputs, PromptSubmitted(d)  PROVE Goes
  <2>1. /\ sessions' = sessions /\ given' = given /\ History /\ inputs' = Resolve({d}, "accepted")
        /\ d \in given
    BY <1>7 DEF PromptSubmitted, History, histories
  <2> QED  BY <1>7, <2>1, PromptSubmittedServed, AnswerGoes
<1> QED  BY <1>1, <1>2, <1>3, <1>4, <1>5, <1>6, <1>7

LEMMA OneMoves ==
    ASSUME inputs \in Records, NEW d \in Inputs, NEW r, inputs' = [inputs EXCEPT ![d] = r],
           r.on \in {0, inputs[d].on, th.cur},
           r.pc = "ready" => Pc(d) = "ready" \/ th'.active.stage # "sent",
           r.pc = "handed" => Pc(d) = "handed" \/ th'.active.stage \notin {"sent", "admitted"},
           d \in given' => r.pc \notin {"new", "begun", "waiting", "ready"}
    PROVE  Moves({d})
<1>1. \A x \in Inputs : inputs'[x] = IF x = d THEN r ELSE inputs[x]  BY DEF Records
<1> QED  BY <1>1 DEF Moves

\* An input that nobody has been handed.
LEMMA HandedToNobody ==
    ASSUME SInv, NEW d \in Inputs, Pc(d) \notin {"handed", "done"}
    PROVE  /\ th.slot # d /\ \A k \in DOMAIN th.restarts : th.restarts[k].job # d
           /\ Pc(d) \in {"new", "begun", "waiting", "ready"} => d \notin given
  BY DEF SInv, Links, Steers, Restarts, Linked, Callers

LEMMA CallerGoes ==
    ASSUME SInv, IInv', NEW d \in Inputs, Pc(d) \notin {"handed", "done"}, NEW r,
           inputs' = [inputs EXCEPT ![d] = r], r.on \in {0, inputs[d].on, th.cur},
           r.pc = "ready" => th'.active.stage # "sent",
           r.pc = "handed" => th'.active.stage \notin {"sent", "admitted"},
           d \in given => r.pc \notin {"new", "begun", "waiting", "ready"},
           Served', NoDispatch(th, th'), Stays(th, th'), History, sessions' = sessions, given' = given
    PROVE  Goes
<1>1. Moves({d})  BY RecordsTyped, OneMoves
<1>2. th.slot # d /\ \A k \in DOMAIN th.restarts : th.restarts[k].job \notin {d}
  BY HandedToNobody
<1>3. th'.slot \notin {d}  BY <1>2, NamesAssumption DEF Stays
<1>4. {d} \in SUBSET Inputs  OBVIOUS
<1>5. Links'  BY <1>1, <1>2, <1>3, <1>4, LinksStay
<1> QED  BY <1>5 DEF Goes

LEMMA CallersGo ==
    ASSUME SInv, IInv', Races = {}, NEW d \in Inputs,
           \/ \E e \in Entries \cup {None} : Begin(d, e)
           \/ Arrive(d) \/ Admitted(d) \/ Accepted(d) \/ Refused(d)
    PROVE  Goes
<1>0. /\ inputs \in Records /\ inputs[d] \in [pc : Pcs, entry : Entries \cup {None}, on : Nat]
      /\ Failed.pc = "failed" /\ Failed.on = 0
  BY RecordsTyped DEF Failed
<1>1. ASSUME NEW e \in Entries \cup {None}, Begin(d, e)  PROVE Goes
  <2> DEFINE r == [pc |-> IF e = None THEN "waiting" ELSE "begun", entry |-> e, on |-> 0]
  <2>1. /\ sessions' = sessions /\ given' = given /\ History /\ Pc(d) = "new"
        /\ inputs' = [inputs EXCEPT ![d] = r]
    BY <1>1 DEF Begin, History, histories
  <2>2. r.pc \notin {"ready", "handed"} /\ r.on = 0  OBVIOUS
  <2> HIDE DEF r
  <2>3. d \notin given  BY <2>1, HandedToNobody
  <2>4. Served' /\ NoDispatch(th, th') /\ Stays(th, th')  BY <1>1, BeginServed
  <2> QED  BY <2>1, <2>2, <2>3, <2>4, CallerGoes
<1>2. CASE Arrive(d)
  <2> DEFINE r == IF inputs[d].entry \in ToSet(th.items) THEN [inputs[d] EXCEPT !.pc = "waiting"]
                  ELSE Failed
  <2>1. /\ sessions' = sessions /\ given' = given /\ History /\ Pc(d) = "begun"
        /\ inputs' = [inputs EXCEPT ![d] = r]
    BY <1>2 DEF Arrive, History, histories
  <2>2. r.pc \notin {"ready", "handed"} /\ r.on \in {0, inputs[d].on}  BY <1>0
  <2> HIDE DEF r
  <2>3. d \notin given  BY <2>1, HandedToNobody
  <2>4. Served' /\ NoDispatch(th, th') /\ Stays(th, th')  BY <1>2, ArriveServed
  <2> QED  BY <2>1, <2>2, <2>3, <2>4, CallerGoes
<1>3. CASE Admitted(d)
  <2> DEFINE r == [inputs[d] EXCEPT !.pc = "ready"]
  <2>1. /\ sessions' = sessions /\ given' = given /\ History /\ Pc(d) = "waiting"
        /\ inputs' = [inputs EXCEPT ![d] = r] /\ th' = th /\ ~AdmissionOpen(th)
    BY <1>3 DEF Admitted, History, histories
  <2>2. r.pc = "ready" /\ r.on = inputs[d].on  BY <1>0
  <2> HIDE DEF r
  <2>3. d \notin given  BY <2>1, HandedToNobody
  <2>4. th'.active.stage # "sent"
    BY <2>1, StartsServing DEF Loss, AdmissionOpen
  <2>5. Served' /\ NoDispatch(th, th') /\ Stays(th, th')  BY <1>3, AdmittedServed
  <2> QED  BY <2>1, <2>2, <2>3, <2>4, <2>5, CallerGoes
<1>4. CASE Accepted(d)
  <2> DEFINE r == [inputs[d] EXCEPT !.pc = "done", !.on = 0]
  <2>1. /\ sessions' = sessions /\ given' = given /\ History /\ Pc(d) = "accepted"
        /\ inputs' = [inputs EXCEPT ![d] = r]
    BY <1>0, <1>4 DEF Accepted, History, histories, Records
  <2>2. r.pc = "done" /\ r.on = 0  BY <1>0
  <2> HIDE DEF r
  <2>3. Served' /\ NoDispatch(th, th') /\ Stays(th, th')  BY <1>4, AcceptedServed
  <2> QED  BY <2>1, <2>2, <2>3, CallerGoes
<1>5. CASE Refused(d)
  <2>1. /\ sessions' = sessions /\ given' = given /\ History /\ Pc(d) = "refused"
        /\ inputs' = [inputs EXCEPT ![d] = Failed]
    BY <1>5 DEF Refused, History, histories
  <2>2. Served' /\ NoDispatch(th, th') /\ Stays(th, th')  BY <1>5, RefusedServed
  <2> QED  BY <1>0, <2>1, <2>2, CallerGoes
<1> QED  BY <1>1, <1>2, <1>3, <1>4, <1>5

LEMMA SteerJoinsGoes ==
    ASSUME SInv, IInv', NEW d \in Inputs, SteerJoins(d)
    PROVE  Goes
<1>1. /\ sessions' = sessions /\ given' = given \cup {d} /\ History /\ Pc(d) = "handed" /\ native
      /\ inputs' = Resolve({d}, "accepted") /\ th' = th /\ Live /\ inputs[d].on = th.cur
  BY DEF SteerJoins, History
<1>2. Served' /\ NoDispatch(th, th') /\ Stays(th, th')  BY SteerJoinsServed
<1>3. Moves({d})
  <2>1. Moves({d} \cap Inputs)  BY <1>1, RecordsTyped, MovesAnswered
  <2>2. {d} \cap Inputs = {d}  OBVIOUS
  <2> QED  BY <2>1, <2>2
<1>4. \A k \in DOMAIN th.restarts : th.restarts[k].job # d
  BY <1>1 DEF SInv, Links, Restarts, Linked, Live
<1>5. th'.slot # d  BY <1>1, StartsServing, NamesAssumption DEF Believes
<1>6. given \subseteq given' /\ given' \ given \subseteq {d} /\ {d} \in SUBSET Inputs  BY <1>1
<1>7. Fewer(th.restarts, th'.restarts)
  <2>1. th.restarts \in Seq([job : Jobs, on : Nat])  BY StartsServing DEF Threads
  <2> QED  BY <1>1, <2>1, SameRestarts
<1>8. th'.job \in Inputs => th'.job \in given'  BY <1>1, <1>6 DEF SInv, Links, Steers
<1>9. th'.job \in Entries => th'.job \in queued  BY <1>1 DEF SInv, Links, Ran
<1>10. \A k \in DOMAIN th'.restarts : th'.restarts[k].job \notin {d} \cup (given' \ given)
  BY <1>1, <1>4, <1>6
<1>11. th'.slot \notin {d} \cup (given' \ given)  BY <1>5, <1>6
<1>12. Links'
  BY <1>1, <1>2, <1>3, <1>6, <1>7, <1>8, <1>9, <1>10, <1>11, LinksKept
<1> QED  BY <1>2, <1>12 DEF Goes

\* What a step leaves as it was that changes one field itself.
LEMMA StaysButJob ==
    ASSUME NEW u \in Threads, NEW x, NEW w, Stays([u EXCEPT !.job = x], w)
    PROVE  /\ w.cur = u.cur /\ w.active.on \in {0, u.active.on, u.cur} /\ w.restarts = u.restarts
           /\ Has(u, "dead") => Has(w, "dead")
           /\ w.slot \in {u.slot, None} /\ w.job \in {x, None}
<1> DEFINE v == [u EXCEPT !.job = x]
<1>1. /\ v.cur = u.cur /\ v.active = u.active /\ v.restarts = u.restarts /\ v.flags = u.flags
      /\ v.slot = u.slot /\ v.job = x
  BY DEF Threads
<1> HIDE DEF v
<1>2. Stays(v, w)  BY DEF v
<1> QED  BY <1>1, <1>2 DEF Stays, Has

LEMMA StaysButSlot ==
    ASSUME NEW u \in Threads, NEW x, NEW w, Stays([u EXCEPT !.slot = x], w)
    PROVE  /\ w.cur = u.cur /\ w.active.on \in {0, u.active.on, u.cur} /\ w.restarts = u.restarts
           /\ Has(u, "dead") => Has(w, "dead")
           /\ w.slot \in {x, None} /\ w.job \in {u.job, None}
<1> DEFINE v == [u EXCEPT !.slot = x]
<1>1. /\ v.cur = u.cur /\ v.active = u.active /\ v.restarts = u.restarts /\ v.flags = u.flags
      /\ v.slot = x /\ v.job = u.job
  BY DEF Threads
<1> HIDE DEF v
<1>2. Stays(v, w)  BY DEF v
<1> QED  BY <1>1, <1>2 DEF Stays, Has

LEMMA StaysButRestarts ==
    ASSUME NEW u \in Threads, NEW R, NEW w, Stays([u EXCEPT !.restarts = R], w)
    PROVE  /\ w.cur = u.cur /\ w.active.on \in {0, u.active.on, u.cur} /\ w.restarts = R
           /\ Has(u, "dead") => Has(w, "dead")
           /\ w.slot \in {u.slot, None} /\ w.job \in {u.job, None}
<1> DEFINE v == [u EXCEPT !.restarts = R]
<1>1. /\ v.cur = u.cur /\ v.active = u.active /\ v.restarts = R /\ v.flags = u.flags
      /\ v.slot = u.slot /\ v.job = u.job
  BY DEF Threads
<1> HIDE DEF v
<1>2. Stays(v, w)  BY DEF v
<1> QED  BY <1>1, <1>2 DEF Stays, Has

LEMMA PassesOn ==
    ASSUME SInv, NEW d \in Inputs, Pc(d) = "ready", inputs' = HandedOver(d),
           th'.active.stage \notin {"sent", "admitted"}, given' \subseteq given \cup {d}
    PROVE  /\ Moves({d} \cup ({th.slot} \cap Inputs))
           /\ inputs'[d].pc \in {"handed", "done"}
<1>1. \A x \in Inputs :
          inputs'[x] = IF x = d
                       THEN [inputs[d] EXCEPT !.pc = IF Promotes(d) THEN "handed" ELSE "done",
                                              !.on = IF Promotes(d) THEN th.cur ELSE 0]
                       ELSE IF x = th.slot /\ Pc(x) = "handed" THEN [inputs[x] EXCEPT !.pc = "refused"]
                       ELSE inputs[x]
  <2> DEFINE q == Resolve({th.slot}, "refused")
             p == IF Promotes(d) THEN "handed" ELSE "done"
             c == IF Promotes(d) THEN th.cur ELSE 0
  <2>1. inputs' = [q EXCEPT ![d].pc = p, ![d].on = c]  BY DEF HandedOver
  <2>2. /\ DOMAIN q = Inputs /\ q[d] = inputs[d]
        /\ \A x \in Inputs : q[x] = IF x = th.slot /\ Pc(x) = "handed"
                                   THEN [inputs[x] EXCEPT !.pc = "refused"] ELSE inputs[x]
    BY DEF Resolve
  <2> HIDE DEF q, p, c
  <2>3. inputs'[d] = [q[d] EXCEPT !.pc = p, !.on = c]  BY <2>1, <2>2
  <2>4. \A x \in Inputs \ {d} : inputs'[x] = q[x]  BY <2>1, <2>2
  <2> QED  BY <2>2, <2>3, <2>4 DEF p, c
<1>2. \A x \in Inputs : x # d /\ x # th.slot => inputs'[x] = inputs[x]  BY <1>1
<1>3. /\ inputs'[d].pc \in {"handed", "done"} /\ inputs'[d].on \in {0, th.cur}
  BY <1>1, RecordsTyped
<1>4. ASSUME th.slot \in Inputs, th.slot # d
      PROVE  /\ inputs'[th.slot].on = inputs[th.slot].on /\ inputs'[th.slot].pc \in {"refused", "done"}
             /\ th.slot \notin given'
  <2>1. Pc(th.slot) \in {"handed", "done"} /\ th.slot \notin given
    BY <1>4 DEF SInv, Links, Steers
  <2>2. inputs[th.slot] \in [pc : Pcs, entry : Entries \cup {None}, on : Nat]
    BY <1>4, RecordsTyped
  <2> QED  BY <1>1, <1>4, <2>1, <2>2 DEF Pc
<1> QED  BY <1>2, <1>3, <1>4 DEF Moves

LEMMA SubmitToDeadGoes ==
    ASSUME SInv, IInv', NEW d \in Inputs, SubmitToDead(d)
    PROVE  Goes
<1> DEFINE p == IF th.cur # 0 /\ ~Promotes(d) THEN "handed" ELSE "refused"
           r == [inputs[d] EXCEPT !.pc = p, !.on = th.cur]
           R == th.restarts
<1>1. /\ sessions' = sessions /\ given' = given /\ History /\ Pc(d) = "ready" /\ ~Live
      /\ inputs' = Hand(d, p)
  BY DEF SubmitToDead, History, histories
<1>2. inputs \in Records /\ r.pc = p /\ r.on = th.cur /\ th \in Threads
  BY RecordsTyped, StartsServing
<1>3. inputs' = [inputs EXCEPT ![d] = r]  BY <1>1, <1>2 DEF Hand, Records
<1> HIDE DEF r
<1>4. /\ Served' /\ NoDispatch(th, th')
      /\ Stays([th EXCEPT !.restarts = th'.restarts], th')
      /\ th'.restarts = IF th.cur # 0 /\ ~Promotes(d)
                        THEN Append(th.restarts, [job |-> d, on |-> th.cur]) ELSE th.restarts
      /\ th.cur # 0 /\ ~Promotes(d) => th'.active.stage \notin {"sent", "admitted"}
  BY SubmitToDeadServed
<1>5. /\ th'.cur = th.cur /\ th'.active.on \in {0, th.active.on, th.cur}
      /\ Has(th, "dead") => Has(th', "dead")
      /\ th'.slot \in {th.slot, None} /\ th'.job \in {th.job, None}
  <2> DEFINE P == th'.restarts
  <2> HIDE DEF P
  <2>1. Stays([th EXCEPT !.restarts = P], th')  BY <1>4 DEF P
  <2> QED  BY <1>2, <2>1, StaysButRestarts
<1>6. d \notin given /\ th.slot # d /\ \A i \in DOMAIN R : R[i].job # d
  BY <1>1, HandedToNobody
<1>7. CASE ~(th.cur # 0 /\ ~Promotes(d))
  <2>1. Stays(th, th')  BY <1>4, <1>5, <1>7 DEF Stays
  <2>2. p = "refused"  BY <1>7
  <2> HIDE DEF p
  <2> QED  BY <1>1, <1>2, <1>3, <1>4, <1>6, <2>1, <2>2, CallerGoes
<1>8. CASE th.cur # 0 /\ ~Promotes(d)
  <2> DEFINE P == th'.restarts
             n == Len(R)
  <2>1. P = Append(R, [job |-> d, on |-> th.cur])  BY <1>4, <1>8
  <2>2. n \in Nat /\ DOMAIN R = 1 .. n /\ DOMAIN P = 1 .. n + 1
        /\ (\A k \in 1 .. n : P[k] = R[k]) /\ P[n + 1] = [job |-> d, on |-> th.cur]
    <3>1. R \in Seq([job : Jobs, on : Nat])  BY <1>2 DEF Threads
    <3> HIDE DEF P, R
    <3> QED  BY <2>1, <3>1, LenProperties
  <2>3. Moves({d}) /\ {d} \in SUBSET Inputs /\ inputs'[d] = r /\ r.pc = "handed"
    BY <1>1, <1>2, <1>3, <1>4, <1>6, <1>8, OneMoves DEF Records
  <2>4. Typed /\ Dated /\ Restarts /\ Steers /\ Callers /\ Ran
    BY <1>1, StepTyped DEF SInv, Links
  <2>5. Dated'  BY <1>1, <1>5, <2>3, <2>4, DatedKept
  <2>6. Callers'  BY <1>1, <1>4, <2>3, <2>4, CallersKept
  <2>7. Ran'  BY <1>1, <1>5, <2>4, RanKept, NamesAssumption DEF History, Ran
  <2>8. /\ \A k \in 1 .. n : /\ R[k].on \in 1 .. sessions /\ (R[k].on = th.cur => Has(th, "dead"))
                             /\ R[k].job \in Inputs => /\ Pc(R[k].job) = "handed" /\ R[k].job \notin given
                                                       /\ inputs[R[k].job].on = R[k].on
        /\ \A i, k \in 1 .. n : R[i].job = R[k].job => i = k
    BY <2>2, <2>4 DEF Restarts, Linked
  <2>9. \A x \in Inputs \ {d} : inputs'[x] = inputs[x]  BY <2>3 DEF Moves
  <2>10. P[n + 1].job = d /\ P[n + 1].on = th.cur /\ P[n + 1].on \in 1 .. sessions
    <3>1. th.cur \in 1 .. sessions  BY <1>8, <2>4, RecordsTyped DEF Dated
    <3> QED  BY <2>2, <3>1
  <2>11. Has(th', "dead")  BY <1>1, <1>5, <1>8 DEF Live
  <2> HIDE DEF P, R, n
  <2>12. Restarts'
    <3>1. ASSUME NEW k \in DOMAIN P
          PROVE  /\ P[k].on \in 1 .. sessions'
                 /\ P[k].on = th'.cur => Has(th', "dead")
                 /\ P[k].job \in Inputs => /\ inputs'[P[k].job].pc = "handed" /\ P[k].job \notin given'
                                           /\ inputs'[P[k].job].on = P[k].on
      <4>1. CASE k = n + 1
        BY <1>1, <1>2, <1>6, <2>3, <2>10, <2>11, <4>1
      <4>2. CASE k # n + 1
        <5>1. k \in 1 .. n /\ P[k] = R[k]  BY <2>2, <3>1, <4>2
        <5>2. R[k].job # d  BY <1>6, <2>2, <5>1
        <5>3. R[k].job \in Inputs => inputs'[R[k].job] = inputs[R[k].job]  BY <2>9, <5>2
        <5> QED  BY <1>1, <2>8, <2>11, <5>1, <5>3 DEF Pc
      <4> QED  BY <4>1, <4>2
    <3>2. ASSUME NEW i \in DOMAIN P, NEW k \in DOMAIN P, P[i].job = P[k].job  PROVE i = k
      <4>1. i \in 1 .. n => P[i] = R[i] /\ R[i].job # d  BY <1>6, <2>2
      <4>2. k \in 1 .. n => P[k] = R[k] /\ R[k].job # d  BY <1>6, <2>2
      <4>3. i \in 1 .. n + 1 /\ k \in 1 .. n + 1  BY <2>2
      <4>4. i \in 1 .. n <=> k \in 1 .. n  BY <2>2, <2>10, <3>2, <4>1, <4>2, <4>3
      <4> QED  BY <2>2, <2>8, <3>2, <4>1, <4>2, <4>3, <4>4
    <3> QED  BY <3>1, <3>2 DEF Restarts, Linked, Pc, P
  <2>13. Steers'
    <3>1. th'.job \in Inputs => th'.job \in given'  BY <1>1, <1>5, <2>4, NamesAssumption DEF Steers
    <3>2. ASSUME th'.slot \in Inputs
          PROVE  /\ th'.slot \notin given' /\ inputs'[th'.slot].pc \in {"handed", "done"}
                 /\ \A k \in DOMAIN P : P[k].job # th'.slot
      <4>1. th'.slot = th.slot /\ th.slot # d  BY <1>5, <1>6, <3>2, NamesAssumption
      <4>2. /\ th.slot \notin given /\ Pc(th.slot) \in {"handed", "done"}
            /\ \A k \in DOMAIN R : R[k].job # th.slot
        BY <2>4, <3>2, <4>1 DEF Steers, R
      <4>3. inputs'[th.slot] = inputs[th.slot]  BY <2>9, <3>2, <4>1
      <4>4. ASSUME NEW k \in DOMAIN P  PROVE P[k].job # th.slot
        <5>1. k = n + 1 \/ k \in 1 .. n  BY <2>2
        <5> QED  BY <2>2, <2>10, <4>1, <4>2, <5>1
      <4> QED  BY <1>1, <4>1, <4>2, <4>3, <4>4 DEF Pc
    <3> QED  BY <3>1, <3>2 DEF Steers, Pc, P
  <2> QED  BY <1>4, <2>5, <2>6, <2>7, <2>12, <2>13 DEF Goes, Links
<1> QED  BY <1>7, <1>8

LEMMA SubmitToIdleGoes ==
    ASSUME SInv, IInv', NEW d \in Inputs, SubmitToIdle(d)
    PROVE  Goes
<1> DEFINE D == {d} \cup ({th.slot} \cap Inputs)
<1>1. /\ sessions' = sessions /\ given' = given \cup {d} /\ History /\ Pc(d) = "ready"
      /\ inputs' = HandedOver(d)
  BY DEF SubmitToIdle, History
<1>2. /\ Served' /\ NoDispatch(th, th') /\ Stays([th EXCEPT !.job = d], th')
      /\ th'.slot = None /\ th'.active.stage \notin {"sent", "admitted"}
  BY SubmitToIdleServed
<1>3. /\ th'.cur = th.cur /\ th'.active.on \in {0, th.active.on, th.cur}
      /\ th'.restarts = th.restarts /\ (Has(th, "dead") => Has(th', "dead"))
      /\ th'.job \in {d, None}
  BY <1>2, StartsServing, StaysButJob
<1>4. Moves(D) /\ D \in SUBSET Inputs  BY <1>1, <1>2, PassesOn
<1>5. \A k \in DOMAIN th.restarts : th.restarts[k].job \notin D
  <2>1. \A k \in DOMAIN th.restarts : th.restarts[k].job # d  BY <1>1, HandedToNobody
  <2>2. th.slot \in Inputs => \A k \in DOMAIN th.restarts : th.restarts[k].job # th.slot
    BY DEF SInv, Links, Steers
  <2> QED  BY <2>1, <2>2
<1>6. given \subseteq given' /\ given' \ given \subseteq D  BY <1>1
<1>7. Fewer(th.restarts, th'.restarts)
  <2>1. th.restarts \in Seq([job : Jobs, on : Nat])  BY StartsServing DEF Threads
  <2> QED  BY <1>3, <2>1, SameRestarts
<1>8. /\ th'.job \in Inputs => th'.job \in given'
      /\ th'.job \in Entries => th'.job \in queued
  BY <1>1, <1>3, NamesAssumption
<1>9. th'.slot \notin D \cup (given' \ given)  BY <1>2, <1>4, <1>6, NamesAssumption
<1> HIDE DEF D
<1>10. \A k \in DOMAIN th'.restarts : th'.restarts[k].job \notin D \cup (given' \ given)
  BY <1>3, <1>5, <1>6
<1>11. \A x \in (given' \ given) \ D : Pc(x) \notin {"new", "begun", "waiting", "ready"}
  BY <1>6
<1>12. th'.slot \in {th.slot, None}  BY <1>2
<1>13. Links'
  BY <1>1, <1>2, <1>3, <1>4, <1>6, <1>7, <1>8, <1>9, <1>10, <1>11, <1>12, LinksKept
<1> QED  BY <1>2, <1>13 DEF Goes

LEMMA SteerNativelyGoes ==
    ASSUME SInv, IInv', NEW d \in Inputs, SteerNatively(d)
    PROVE  Goes
<1> DEFINE r == [inputs[d] EXCEPT !.pc = "handed", !.on = th.cur]
<1>1. /\ sessions' = sessions /\ given' = given /\ History /\ Pc(d) = "ready"
      /\ inputs' = Hand(d, "handed")
  BY DEF SteerNatively, History, histories
<1>2. inputs \in Records /\ r.pc = "handed" /\ r.on = th.cur  BY RecordsTyped
<1>3. inputs' = [inputs EXCEPT ![d] = r]  BY <1>1, <1>2 DEF Hand, Records
<1> HIDE DEF r
<1>4. /\ Served' /\ NoDispatch(th, th') /\ Stays(th, th')
      /\ th'.active.stage \notin {"sent", "admitted"}
  BY SteerNativelyServed
<1>5. d \notin given  BY <1>1, HandedToNobody
<1> QED  BY <1>1, <1>2, <1>3, <1>4, <1>5, CallerGoes

LEMMA StageSteerGoes ==
    ASSUME SInv, IInv', Races = {}, NEW d \in Inputs, StageSteer(d)
    PROVE  Goes
<1> DEFINE D == {d} \cup ({th.slot} \cap Inputs)
<1>1. /\ sessions' = sessions /\ given' = given /\ History /\ Pc(d) = "ready"
      /\ inputs' = HandedOver(d)
  BY DEF StageSteer, History, histories
<1>2. /\ Served' /\ NoDispatch(th, th') /\ Stays([th EXCEPT !.slot = d], th')
      /\ th'.active.stage \notin {"sent", "admitted"}
  BY StageSteerServed
<1>3. /\ th'.cur = th.cur /\ th'.active.on \in {0, th.active.on, th.cur}
      /\ th'.restarts = th.restarts /\ (Has(th, "dead") => Has(th', "dead"))
      /\ th'.job \in {th.job, None} /\ th'.slot \in {d, None}
  BY <1>2, StartsServing, StaysButSlot
<1>4. Moves(D) /\ D \in SUBSET Inputs /\ inputs'[d].pc \in {"handed", "done"}
  BY <1>1, <1>2, PassesOn
<1>5. d \notin given /\ \A k \in DOMAIN th.restarts : th.restarts[k].job # d
  BY <1>1, HandedToNobody
<1>6. th.slot \in Inputs => \A k \in DOMAIN th.restarts : th.restarts[k].job # th.slot
  BY DEF SInv, Links, Steers
<1>7. Fewer(th.restarts, th'.restarts)
  <2>1. th.restarts \in Seq([job : Jobs, on : Nat])  BY StartsServing DEF Threads
  <2> QED  BY <1>3, <2>1, SameRestarts
<1>8. Typed /\ Dated /\ Restarts /\ Steers /\ Callers /\ Ran
  BY <1>1, StepTyped DEF SInv, Links
<1>9. \A k \in DOMAIN th'.restarts : th'.restarts[k].job \notin D \cup (given' \ given)
  BY <1>1, <1>3, <1>5, <1>6
<1>10. Steers'
  <2>1. th'.job \in Inputs => th'.job \in given'
    BY <1>1, <1>3, <1>8, NamesAssumption DEF Steers
  <2>2. th'.slot \in Inputs => th'.slot = d  BY <1>3, NamesAssumption
  <2> QED  BY <1>1, <1>3, <1>4, <1>5, <2>1, <2>2 DEF Steers, Pc
<1> HIDE DEF D
<1>11. Dated'  BY <1>1, <1>3, <1>4, <1>8, DatedKept
<1>12. Restarts'  BY <1>1, <1>3, <1>4, <1>7, <1>8, <1>9, RestartsKept
<1>13. Callers'  BY <1>1, <1>2, <1>4, <1>8, CallersKept
<1>14. Ran'  BY <1>1, <1>3, <1>8, RanKept, NamesAssumption DEF History, Ran
<1> QED  BY <1>2, <1>10, <1>11, <1>12, <1>13, <1>14 DEF Goes, Links

\* An input that the provider starts after it waited there, or in the slot.
LEMMA WaiterGoes ==
    ASSUME SInv, IInv', NEW d \in Inputs, Pc(d) \notin {"new", "begun", "waiting", "ready"},
           Served', NoDispatch(th, th'), Stays([th EXCEPT !.job = d], th'), th'.slot # d,
           \A k \in DOMAIN th.restarts : th.restarts[k].job # d,
           inputs' = inputs, sessions' = sessions, given' = given \cup {d}, History
    PROVE  Goes
<1>1. /\ th'.cur = th.cur /\ th'.active.on \in {0, th.active.on, th.cur}
      /\ th'.restarts = th.restarts /\ (Has(th, "dead") => Has(th', "dead"))
      /\ th'.job \in {d, None} /\ th'.slot \in {th.slot, None}
  BY StartsServing, StaysButJob
<1>2. Moves({}) /\ {} \in SUBSET Inputs  BY DEF Moves
<1>3. given \subseteq given' /\ given' \ given \subseteq {d}  OBVIOUS
<1>4. Fewer(th.restarts, th'.restarts)
  <2>1. th.restarts \in Seq([job : Jobs, on : Nat])  BY StartsServing DEF Threads
  <2> QED  BY <1>1, <2>1, SameRestarts
<1>5. /\ th'.job \in Inputs => th'.job \in given'
      /\ th'.job \in Entries => th'.job \in queued
  BY <1>1, NamesAssumption
<1>6. th'.slot \notin {} \cup (given' \ given)  BY <1>3
<1>7. \A k \in DOMAIN th'.restarts : th'.restarts[k].job \notin {} \cup (given' \ given)
  BY <1>1, <1>3
<1>8. \A x \in (given' \ given) \ {} : Pc(x) \notin {"new", "begun", "waiting", "ready"}
  BY <1>3
<1>9. Links'
  BY <1>1, <1>2, <1>3, <1>4, <1>5, <1>6, <1>7, <1>8, LinksKept
<1> QED  BY <1>9 DEF Goes

LEMMA SaysIdleGoes ==
    ASSUME SInv, IInv', SaysIdle
    PROVE  Goes
<1>1. /\ inputs' = inputs /\ sessions' = sessions /\ History
      /\ given' = IF th.slot = None THEN given ELSE given \cup {th.slot}
  <2>1. /\ inputs' = inputs /\ sessions' = sessions /\ queued' = queued /\ begun' = begun /\ ran' = ran
    BY DEF SaysIdle
  <2>2. History  BY <2>1 DEF History
  <2> DEFINE w == [Off(th, {"stop"}) EXCEPT !.status = "idle",
                                            !.phase = IF @ = "live" THEN "tail" ELSE "none",
                                            !.job = IF th.phase = "live" THEN @ ELSE None]
  <2>3. given' = IF w.slot = None THEN given ELSE given \cup {w.slot}  BY DEF SaysIdle
  <2>4. w.slot = th.slot  BY StartsServing DEF Off, Threads
  <2> QED  BY <2>1, <2>2, <2>3, <2>4
<1>2. /\ Served' /\ NoDispatch(th, th')
      /\ IF th.slot = None THEN Stays(th, th')
         ELSE Stays([th EXCEPT !.job = th.slot], th') /\ th'.slot = None
  BY SaysIdleServed
<1>3. CASE th.slot = None  BY <1>1, <1>2, <1>3, Untroubled
<1>4. CASE th.slot # None
  <2> DEFINE d == th.slot
  <2>1. d \in Inputs  BY <1>4, StartsServing, SoundTyped
  <2>2. /\ Pc(d) \in {"handed", "done"} /\ \A k \in DOMAIN th.restarts : th.restarts[k].job # d
    BY <2>1 DEF SInv, Links, Steers
  <2>3. Stays([th EXCEPT !.job = d], th') /\ th'.slot # d /\ given' = given \cup {d}
    BY <1>1, <1>2, <1>4
  <2> HIDE DEF d
  <2> QED  BY <1>1, <1>2, <2>1, <2>2, <2>3, WaiterGoes
<1> QED  BY <1>3, <1>4

LEMMA SteerFallsBackGoes ==
    ASSUME SInv, IInv', NEW d \in Inputs, SteerFallsBack(d)
    PROVE  Goes
<1>1. /\ inputs' = inputs /\ sessions' = sessions /\ History /\ given' = given \cup {d}
      /\ Pc(d) = "handed" /\ native /\ Live /\ inputs[d].on = th.cur
  BY DEF SteerFallsBack, History
<1>2. Served' /\ NoDispatch(th, th') /\ Stays([th EXCEPT !.job = d], th')
  BY SteerFallsBackServed
<1>3. th'.slot # d
  <2>1. th.slot = None  BY <1>1, StartsServing DEF Believes
  <2>2. th'.slot \in {th.slot, None}  BY <1>2, StartsServing, StaysButJob
  <2> QED  BY <2>1, <2>2, NamesAssumption
<1>4. \A k \in DOMAIN th.restarts : th.restarts[k].job # d
  BY <1>1 DEF SInv, Links, Restarts, Linked, Live
<1> QED  BY <1>1, <1>2, <1>3, <1>4, WaiterGoes

LEMMA CloseThreadGoes ==
    ASSUME SInv, IInv', CloseThread \/ StartThread
    PROVE  Goes
<1>1. /\ inputs' = inputs /\ sessions' = sessions /\ given' = given /\ History
  BY DEF CloseThread, StartThread, History, histories
<1>2. Served' /\ NoDispatch(th, th') /\ (Stays(th, th') \/ Ends(th, th'))
  BY CloseThreadServed, StartThreadServed
<1>3. CASE Stays(th, th')  BY <1>1, <1>2, <1>3, Untroubled
<1>4. CASE Ends(th, th')
  <2>1. /\ th'.cur = 0 /\ th'.active.on \in {0, th.active.on} /\ th'.restarts = th.restarts
        /\ th'.slot = None /\ th'.job = None
    BY <1>4 DEF Ends
  <2>2. Moves({}) /\ {} \in SUBSET Inputs  BY <1>1 DEF Moves
  <2>3. given \subseteq given' /\ given' \ given = {}  BY <1>1
  <2>4. Fewer(th.restarts, th'.restarts)
    <3>1. th.restarts \in Seq([job : Jobs, on : Nat])  BY StartsServing DEF Threads
    <3> QED  BY <2>1, <3>1, SameRestarts
  <2>5. th'.job \notin Inputs /\ th'.job \notin Entries  BY <2>1, NamesAssumption
  <2>6. Links'  BY <1>1, <1>2, <2>1, <2>2, <2>3, <2>4, <2>5, LinksKept
  <2> QED  BY <1>2, <2>6 DEF Goes
<1> QED  BY <1>2, <1>3, <1>4

LEMMA StartedGoes ==
    ASSUME SInv, IInv', Started
    PROVE  Goes
<1>1. /\ inputs' = inputs /\ given' = given /\ History
  BY DEF Started, History, histories
<1>2. /\ Served' /\ NoDispatch(th, th') /\ Begins(th, th')
      /\ th'.restarts = th.restarts /\ th'.job = None
  BY StartedServed
<1>3. /\ th'.cur = sessions + 1 /\ sessions' = sessions + 1
      /\ th'.active.on \in {0, th.active.on, th'.cur} /\ th'.slot = None
  BY <1>2 DEF Begins
<1>4. Moves({}) /\ {} \in SUBSET Inputs  BY <1>1 DEF Moves
<1>5. given \subseteq given' /\ given' \ given = {}  BY <1>1
<1>6. Fewer(th.restarts, th'.restarts)
  <2>1. th.restarts \in Seq([job : Jobs, on : Nat])  BY StartsServing DEF Threads
  <2> QED  BY <1>2, <2>1, SameRestarts
<1>7. th'.job \notin Inputs /\ th'.job \notin Entries  BY <1>2, NamesAssumption
<1>8. Links'  BY <1>1, <1>2, <1>3, <1>4, <1>5, <1>6, <1>7, LinksKept
<1> QED  BY <1>2, <1>8 DEF Goes

LEMMA RestartAttachesGoes ==
    ASSUME SInv, IInv', RestartAttaches
    PROVE  Goes
<1> DEFINE R == th.restarts
           j == Head(R).job
<1>1. /\ inputs' = inputs /\ History /\ given' = given \cup ({j} \cap Inputs) /\ R # <<>>
  BY DEF RestartAttaches, History
<1>2. /\ Served' /\ NoDispatch(th, th') /\ Begins(th, th')
      /\ th'.restarts = Tail(R) /\ th'.job = j
      /\ th'.job \in Entries => th.active.stage = "sent" /\ th'.job = th.active.entry
  BY RestartAttachesServed
<1>3. /\ th'.cur = sessions + 1 /\ sessions' = sessions + 1
      /\ th'.active.on \in {0, th.active.on, th'.cur} /\ th'.slot = None
  BY <1>2 DEF Begins
<1>4. Moves({}) /\ {} \in SUBSET Inputs  BY <1>1 DEF Moves
<1>5. given \subseteq given' /\ given' \ given \subseteq {j} /\ None \notin given'
  <2>1. given \subseteq Inputs  BY DEF SInv, IInv, TypeOK
  <2> QED  BY <1>1, <2>1, NamesAssumption
<1>6. R \in Seq([job : Jobs, on : Nat])  BY StartsServing DEF Threads
<1>7. Fewer(R, Tail(R))
  <2> HIDE DEF R, j
  <2> QED  BY <1>1, <1>6, LaterRestarts
<1>8. 1 \in DOMAIN R /\ R[1].job = j /\ j \in Jobs
  <2>1. Head(R) = R[1] /\ 1 \in DOMAIN R  BY <1>1, <1>6, FirstRestart
  <2>2. R[1] \in [job : Jobs, on : Nat]
    <3> HIDE DEF R, j
    <3> QED  BY <1>6, <2>1, ElementOfSeq, LenProperties, Zenon
  <2> QED  BY <2>1, <2>2
<1>9. j \in Inputs => Pc(j) = "handed" /\ j \notin given
  BY <1>8 DEF SInv, Links, Restarts, Linked
<1>10. \A i, k \in DOMAIN R : R[i].job = R[k].job => i = k  BY DEF SInv, Links, Restarts
<1> HIDE DEF R, j
<1>11. \A k \in DOMAIN Tail(R) : Tail(R)[k].job # j
  <2> DEFINE T == Tail(R)
  <2>1. \A k \in DOMAIN T : k + 1 \in DOMAIN R /\ k + 1 # 1 /\ T[k] = R[k + 1]
    BY <1>1, <1>6, FirstRestart
  <2> HIDE DEF T
  <2>2. \A k \in DOMAIN T : T[k].job # j  BY <1>8, <1>10, <2>1
  <2> QED  BY <2>2 DEF T
<1>12. \A k \in DOMAIN th'.restarts : th'.restarts[k].job \notin {} \cup (given' \ given)
  BY <1>2, <1>5, <1>11
<1>13. th'.slot \notin {} \cup (given' \ given)  BY <1>3, <1>5
<1>14. th'.job \in Inputs => th'.job \in given'  BY <1>1, <1>2
<1>15. th'.job \in Entries => th'.job \in queued
  <2>1. th.active.stage = "sent" => th.active.entry \in Held(th)  BY DEF Held
  <2>2. Held(th) \subseteq queued  BY DEF SInv, IInv, Books
  <2> QED  BY <1>2, <2>1, <2>2
<1>16. \A x \in (given' \ given) \ {} : Pc(x) \notin {"new", "begun", "waiting", "ready"}
  BY <1>1, <1>9
<1>17. Fewer(th.restarts, th'.restarts)  BY <1>2, <1>7 DEF R
<1>18. th'.slot \in {th.slot, None} /\ th'.active.on \in {0, th.active.on, th.cur, th'.cur}
  BY <1>3
<1>19. sessions' = sessions + 1 /\ th'.cur = sessions + 1  BY <1>3
<1>20. Links'
  BY <1>1, <1>2, <1>4, <1>5, <1>12, <1>13, <1>14, <1>15, <1>16, <1>17, <1>18, <1>19, LinksKept
<1> QED  BY <1>2, <1>20 DEF Goes

\* A restart that ends answers its caller.
LEMMA RestartEndsGoes ==
    ASSUME SInv, IInv', NEW i \in DOMAIN th.restarts, RestartFails(i) \/ RestartAbandoned(i)
    PROVE  Goes
<1> DEFINE R == th.restarts
           P == RemoveAt(R, i)
           j == R[i].job
<1>1. /\ sessions' = sessions /\ given' = given /\ History
      /\ inputs' = Resolve({j}, "refused") \/ inputs' = Resolve({j}, "accepted")
  BY DEF RestartFails, RestartAbandoned, History, histories
<1>2. Served' /\ NoDispatch(th, th') /\ RestartOver(th, th', i)
  BY RestartFailsServed, RestartAbandonedServed
<1>3. th'.restarts = P /\ Stays([th EXCEPT !.restarts = P], th')
  BY <1>2 DEF RestartOver
<1>4. R \in Seq([job : Jobs, on : Nat]) /\ i \in DOMAIN R  BY StartsServing DEF Threads
<1>5. j \in Inputs => Pc(j) = "handed" /\ j \notin given  BY DEF SInv, Links, Restarts, Linked
<1>6. \A x, k \in DOMAIN R : R[x].job = R[k].job => x = k  BY DEF SInv, Links, Restarts
<1>7. th.slot \in Inputs => th.slot # j  BY DEF SInv, Links, Steers
<1>8. \A k \in DOMAIN P : Past(i, k) \in DOMAIN R \ {i} /\ P[k] = R[Past(i, k)]
  BY <1>4, RestartsLeft
<1>9. Fewer(R, P)  BY <1>4, OtherRestarts
<1> HIDE DEF R, P
<1>10. \A k \in DOMAIN P : P[k].job # j  BY <1>4, <1>6, <1>8
<1> HIDE DEF j
<1>11. /\ th'.cur = th.cur /\ th'.active.on \in {0, th.active.on, th.cur}
       /\ Has(th, "dead") => Has(th', "dead")
       /\ th'.slot \in {th.slot, None} /\ th'.job \in {th.job, None}
  BY <1>3, StartsServing, StaysButRestarts
<1>12. Moves({j} \cap Inputs) /\ {j} \cap Inputs \in SUBSET Inputs
  <2>1. j \in given' => Pc(j) \notin {"new", "begun", "waiting", "ready"}
    BY <1>1 DEF SInv, Links, Callers
  <2> QED  BY <1>1, <2>1, RecordsTyped, MovesAnswered
<1>13. given \subseteq given' /\ given' \ given = {}  BY <1>1
<1>14. Fewer(th.restarts, th'.restarts)  BY <1>3, <1>9 DEF R
<1>15. \A k \in DOMAIN th'.restarts : th'.restarts[k].job \notin ({j} \cap Inputs) \cup (given' \ given)
  BY <1>3, <1>10, <1>13
<1>16. th'.slot \notin ({j} \cap Inputs) \cup (given' \ given)
  BY <1>7, <1>11, <1>13, NamesAssumption
<1>17. th'.job \in Inputs => th'.job \in given'
  BY <1>1, <1>11, NamesAssumption DEF SInv, Links, Steers
<1>18. th'.job \in Entries => th'.job \in queued
  BY <1>11, NamesAssumption DEF SInv, Links, Ran
<1>19. Links'
  BY <1>1, <1>2, <1>11, <1>12, <1>13, <1>14, <1>15, <1>16, <1>17, <1>18, LinksKept
<1> QED  BY <1>2, <1>19 DEF Goes

-----------------------------------------------------------------------------
(* The dispatch of a message.                                              *)

\* What the dispatch leaves of the thread, and to whom the message goes.
Sends(u, w) ==
    LET e == u.active.entry
    IN /\ w.cur = u.cur /\ w.active.on = u.active.on /\ w.slot = u.slot
       /\ w.active.stage = "sent" /\ w.job \in {u.job, e}
       /\ \/ w.restarts = <<>> /\ w.job = e
          \/ w.restarts = <<[job |-> e, on |-> u.cur]>> /\ Has(w, "dead")

LEMMA DispatchSends ==
    ASSUME NEW u \in Threads, u.restarts = <<>>,
           NEW w, w = Dispatch([u EXCEPT !.pump = "ending"])
    PROVE  Sends(u, w)
<1> DEFINE e == u.active.entry
           s == Tail(u.items)
           v == [u EXCEPT !.pump = "ending"]
           a == [v EXCEPT !.items = s, !.active.stage = "sent"]
           b == On(a, {"replacing", "restarting"})
           c == On(Off(a, {"launch"}), {"quiet"})
<1>1. /\ v.active = u.active /\ v.items = u.items /\ v \in Threads  BY DEF Threads
<1>2. w = IF Has(a, "dead") THEN [b EXCEPT !.restarts = Append(@, [job |-> e, on |-> a.cur])]
          ELSE Start(a, e)
  BY <1>1 DEF Dispatch
<1>3. /\ a.cur = u.cur /\ a.active.on = u.active.on /\ a.slot = u.slot /\ a.job = u.job
      /\ a.active.stage = "sent"
      /\ a.restarts = <<>> /\ a = [a EXCEPT !.flags = a.flags]
      /\ DOMAIN a = DOMAIN u
  BY DEF Threads, Actives
<1>4. "flags" \in DOMAIN a /\ "restarts" \in DOMAIN a /\ "job" \in DOMAIN a
      /\ "status" \in DOMAIN a /\ "phase" \in DOMAIN a /\ "late" \in DOMAIN a /\ "cur" \in DOMAIN a
      /\ "active" \in DOMAIN a /\ "slot" \in DOMAIN a
  BY <1>3 DEF Threads
<1> HIDE DEF a, v
<1>5. CASE Has(a, "dead")
  <2>1. /\ b.cur = u.cur /\ b.active.on = u.active.on /\ b.slot = u.slot /\ b.job = u.job
        /\ b.active.stage = "sent"
        /\ b.restarts = <<>> /\ Has(b, "dead") /\ DOMAIN b = DOMAIN a
    BY <1>3, <1>4, <1>5 DEF On, Has
  <2> HIDE DEF b
  <2>2. w = [b EXCEPT !.restarts = Append(@, [job |-> e, on |-> a.cur])]  BY <1>2, <1>5
  <2>3. w.restarts = Append(<<>>, [job |-> e, on |-> u.cur])  BY <1>3, <1>4, <2>1, <2>2
  <2>4. w.restarts = <<[job |-> e, on |-> u.cur]>>  BY <2>3
  <2>5. w.cur = u.cur /\ w.active.on = u.active.on /\ w.slot = u.slot /\ w.job = u.job
        /\ w.active.stage = "sent" /\ Has(w, "dead")
    BY <1>4, <2>1, <2>2 DEF Has
  <2> QED  BY ONLY <2>4, <2>5 DEF Sends, e
<1>6. CASE ~Has(a, "dead")
  <2>1. w = Start(a, e)  BY <1>2, <1>6
  <2>2. /\ c.cur = u.cur /\ c.active.on = u.active.on /\ c.slot = u.slot /\ c.restarts = <<>>
        /\ c.active.stage = "sent" /\ DOMAIN c = DOMAIN a
    BY <1>3, <1>4 DEF On, Off
  <2>3. w = [c EXCEPT !.status = "working", !.job = e, !.phase = "setup",
                      !.late = IF a.phase \in {"none", "done"} THEN @ ELSE a.job]
    BY <2>1 DEF Start
  <2> HIDE DEF c
  <2>4. /\ w.cur = u.cur /\ w.active.on = u.active.on /\ w.slot = u.slot /\ w.job = e
        /\ w.restarts = <<>> /\ w.active.stage = "sent"
    BY <1>4, <2>2, <2>3
  <2>5. w.job \in {u.job, u.active.entry}  BY <2>4
  <2> QED  BY ONLY <2>4, <2>5 DEF Sends
<1> QED  BY <1>5, <1>6

LEMMA PreparedGoes ==
    ASSUME SInv, IInv', Prepared,
           ~(th.active.stage = "preparing" /\ StillDeliverable([th EXCEPT !.pump = "ending"]))
    PROVE  Goes
<1>1. inputs' = inputs /\ sessions' = sessions /\ given' = given /\ History
  BY DEF Prepared, History, histories
<1> QED  BY <1>1, PreparedServed, Untroubled

\* The queue's own message goes out: nothing else is on its way.
LEMMA PreparedSends ==
    ASSUME SInv, IInv', Prepared, th.active.stage = "preparing",
           StillDeliverable([th EXCEPT !.pump = "ending"])
    PROVE  /\ Served' /\ Links'
           /\ th.phase \in {"none", "done"} /\ ~Has(th, "asks")
           /\ th.restarts = <<>> /\ \A d \in Inputs : Pc(d) # "handed"
<1> DEFINE e == th.active.entry
<1>1. inputs' = inputs /\ sessions' = sessions /\ given' = given /\ History
  BY DEF Prepared, History, histories
<1>2. /\ Served' /\ th.phase \in {"none", "done"} /\ ~Has(th, "asks")
      /\ th.res = 0 /\ th.restarts = <<>> /\ \A d \in Inputs : Pc(d) # "handed"
      /\ th' = Dispatch([th EXCEPT !.pump = "ending"])
  BY PreparedDispatches
<1>3. Sends(th, th')  BY <1>2, StartsServing, DispatchSends
<1>4. /\ th'.cur = th.cur /\ th'.active.on = th.active.on /\ th'.slot = th.slot
      /\ th'.job \in {th.job, e}
      /\ \/ th'.restarts = <<>>
         \/ th'.restarts = <<[job |-> e, on |-> th.cur]>> /\ Has(th', "dead")
  BY <1>3 DEF Sends
<1>5. e \in Entries /\ e \notin Inputs /\ e \in queued
  <2>1. e \in Entries  BY StartsServing DEF Good, Once
  <2>2. e \in Held(th)  BY DEF Held
  <2>3. Held(th) \subseteq queued  BY DEF SInv, IInv, Books
  <2> QED  BY <2>1, <2>2, <2>3, NamesAssumption
<1>6. \A d \in Inputs : Pc(d) \notin Reserved
  <2>1. SInv => IInv  BY DEF SInv
  <2> QED  BY <1>2, <2>1, NobodyWaits
<1>7. Typed /\ Dated /\ Restarts /\ Steers /\ Callers /\ Ran
  BY <1>1, StepTyped DEF SInv, Links
<1>8. th.cur \in 1 .. sessions
  <2> DEFINE v == [th EXCEPT !.pump = "ending"]
  <2>1. Drop(v).cur = th.cur  BY StartsServing DEF Drop, Threads
  <2>2. CanDeliver(Drop(v))  BY DEF StillDeliverable
  <2> HIDE DEF v
  <2>3. th.cur # 0  BY <2>1, <2>2 DEF CanDeliver, Ready
  <2> QED  BY <1>7, <2>3, RecordsTyped DEF Dated
<1> HIDE DEF e
<1>9. Dated'  BY <1>1, <1>4, <1>7 DEF Dated
<1>10. \A k \in DOMAIN th'.restarts : /\ th'.restarts[k] = [job |-> e, on |-> th.cur]
                                      /\ k = 1 /\ Has(th', "dead")
  BY <1>4
<1>11. Restarts'
  <2>1. \A k \in DOMAIN th'.restarts :
            /\ th'.restarts[k].on \in 1 .. sessions' /\ Has(th', "dead")
            /\ th'.restarts[k].job \notin Inputs
    BY <1>1, <1>5, <1>8, <1>10
  <2>2. \A i, k \in DOMAIN th'.restarts : i = k  BY <1>10
  <2> QED  BY <2>1, <2>2 DEF Restarts, Linked
<1>12. Steers'
  <2>1. \A k \in DOMAIN th'.restarts : th'.restarts[k].job \notin Inputs  BY <1>5, <1>10
  <2> QED  BY <1>1, <1>4, <1>5, <1>7, <2>1 DEF Steers, Pc
<1>13. Callers'  BY <1>1, <1>6, <1>7 DEF Callers, Pc, Reserved
<1>14. Ran'  BY <1>1, <1>4, <1>5, <1>7 DEF Ran, History
<1> QED  BY <1>2, <1>9, <1>11, <1>12, <1>13, <1>14 DEF Links

-----------------------------------------------------------------------------
(* The invariant, and what it gives.                                       *)

LEMMA InitServed ==
    ASSUME Init
    PROVE  SInv
<1>1. IInv  BY InitInvariant
<1>2. th = [items |-> <<>>, active |-> NoActive, pump |-> "off", turn |-> None, flags |-> {},
            res |-> 0, cur |-> 1, status |-> "idle", job |-> None, phase |-> "none",
            late |-> None, slot |-> None, restarts |-> <<>>]
      /\ inputs = [d \in Inputs |-> Fresh] /\ sessions = 1
      /\ queued = {} /\ withdrawn = {} /\ given = {} /\ begun = {} /\ ran = {}
  BY DEF Init
<1>3. /\ th.items = <<>> /\ th.active = NoActive /\ th.flags = {} /\ th.res = 0 /\ th.cur = 1
      /\ th.status = "idle" /\ th.job = None /\ th.phase = "none" /\ th.late = None
      /\ th.slot = None /\ th.restarts = <<>> /\ th.turn = None
  BY <1>2
<1>4. /\ th.active.stage = "none" /\ th.active.on = 0 /\ th.active.entry = None
      /\ th.active.end = "none" /\ th.active.turn = None
  BY <1>3 DEF NoActive
<1>5. \A d \in Inputs : Pc(d) = "new" /\ inputs[d].on = 0  BY <1>2 DEF Pc, Fresh
<1>6. Due = {} /\ Waiting = {}  BY <1>2, <1>5 DEF Due, Waiting
<1>7. Good(th)  BY <1>1 DEF IInv, Sound
<1>8. ToSet(th.items) = {}  BY <1>3 DEF ToSet
<1>9. Loss(th, {}, {})  BY <1>3, <1>4, <1>8 DEF Loss, Pending, Safe
<1>10. Believes(th, {}, native)  BY <1>3, <1>4 DEF Believes, Has
<1>11. ~Has(th, "restarting") /\ Up(th) /\ ~Has(th, "starting")  BY <1>3 DEF Has, Up
<1>12. Conn(th)  BY <1>3, <1>4, <1>11, NamesAssumption DEF Conn, Owed, Restarting
<1>13. Served  BY <1>2, <1>6, <1>7, <1>9, <1>10, <1>12 DEF Served, Core
<1>14. Dated  BY <1>2, <1>3, <1>4, <1>5 DEF Dated
<1>15. Restarts /\ Steers  BY <1>3, NamesAssumption DEF Restarts, Steers
<1>16. Callers  BY <1>2, <1>4, <1>5 DEF Callers
<1>17. Ran  BY <1>2, <1>3, NamesAssumption DEF Ran
<1> QED  BY <1>1, <1>13, <1>14, <1>15, <1>16, <1>17 DEF SInv, Links

\* A step that leaves everything as it was.
LEMMA StutterGoes ==
    ASSUME SInv, IInv', UNCHANGED vars
    PROVE  Goes
<1>1. /\ th' = th /\ inputs' = inputs /\ native' = native /\ sessions' = sessions
      /\ queued' = queued /\ withdrawn' = withdrawn /\ given' = given /\ begun' = begun
      /\ ran' = ran
  BY DEF vars, histories
<1>2. Unheard  BY <1>1 DEF Unheard
<1>3. Serves(th, th', Due, ran, Waiting, native)  BY <1>1, StartsServing
<1>4. Served' /\ NoDispatch(th, th') /\ Stays(th, th')  BY <1>2, <1>3, Resumes
<1>5. History  BY <1>1 DEF History
<1> QED  BY <1>1, <1>4, <1>5, Untroubled

\* The one step that hands a queued message over.
Hands == /\ Prepared /\ th.active.stage = "preparing"
         /\ StillDeliverable([th EXCEPT !.pump = "ending"])

LEMMA StepGoes ==
    ASSUME SInv, Races = {}, [Next]_vars
    PROVE  IInv' /\ (Goes \/ Hands)
<1>1. IInv'  BY NextInvariant DEF SInv
<1>2. CASE UNCHANGED vars  BY <1>1, <1>2, StutterGoes
<1>3. CASE \/ \E e \in Entries : Queue(e) \/ RemoveEntry(e)
           \/ \E i, k \in DOMAIN th.items : Reorder(i, k)
           \/ \E e, f \in Entries : Edit(e, f)
           \/ Resume \/ Stop \/ PauseForEdit \/ Watchdog
  BY <1>1, <1>3, QueueGoes
<1>4. CASE \/ PrepareFails \/ PumpEnds \/ SaysWorking \/ SaysLateCompletion \/ Asks \/ Answered
           \/ \E end \in {"completed", "failed"} : SaysCompleted(end)
           \/ Closes \/ StartFails
  BY <1>1, <1>4, ProviderGoes
<1>5. CASE \/ SaysStarted \/ Fails \/ CompletesWithoutTurn \/ ClearSteer
           \/ \E d \in Inputs : SteerRefused(d) \/ StartRejected(d) \/ PromptSubmitted(d)
  BY <1>1, <1>5, OutcomesGo
<1>6. CASE \E d \in Inputs : \/ \E e \in Entries \cup {None} : Begin(d, e)
                             \/ Arrive(d) \/ Admitted(d) \/ Accepted(d) \/ Refused(d)
  BY <1>1, <1>6, CallersGo
<1>7. CASE \E d \in Inputs : Submits(d)
  <2>1. PICK d \in Inputs : SubmitToDead(d) \/ SubmitToIdle(d) \/ SteerNatively(d) \/ StageSteer(d)
    BY <1>7 DEF Submits
  <2> QED  BY <1>1, <2>1, SubmitToDeadGoes, SubmitToIdleGoes, SteerNativelyGoes, StageSteerGoes
<1>8. CASE SaysIdle \/ \E d \in Inputs : SteerJoins(d) \/ SteerFallsBack(d)
  BY <1>1, <1>8, SaysIdleGoes, SteerJoinsGoes, SteerFallsBackGoes
<1>9. CASE \/ CloseThread \/ StartThread \/ Started \/ RestartAttaches
           \/ \E i \in DOMAIN th.restarts : RestartFails(i) \/ RestartAbandoned(i)
  BY <1>1, <1>9, CloseThreadGoes, StartedGoes, RestartAttachesGoes, RestartEndsGoes
<1>10. CASE Prepared  BY <1>1, <1>10, PreparedGoes DEF Hands
<1> QED
  BY <1>1, <1>2, <1>3, <1>4, <1>5, <1>6, <1>7, <1>8, <1>9, <1>10 DEF Next

LEMMA StepServed ==
    ASSUME SInv, Races = {}, [Next]_vars
    PROVE  SInv'
<1>1. CASE Goes  BY <1>1, StepGoes DEF Goes, SInv
<1>2. CASE Hands  BY <1>2, StepGoes, PreparedSends DEF Hands, SInv
<1> QED  BY <1>1, <1>2, StepGoes

LEMMA OnlyHandsDispatch ==
    ASSUME SInv, Races = {}, [Next]_vars, Dispatches
    PROVE  Hands
  BY StepGoes DEF Goes, NoDispatch, Dispatches

THEOREM ServedAlways ==
    ASSUME Races = {}
    PROVE  Spec => []SInv
<1>1. Init => SInv  BY InitServed
<1>2. SInv /\ [Next]_vars => SInv'  BY StepServed
<1> QED  BY <1>1, <1>2, PTL DEF Spec

\* Whatever interrupts, failures and restarts a delivery meets, a message the user queued
\* is in the FIFO, in delivery, withdrawn, or with a provider.
THEOREM NothingLostHolds ==
    ASSUME Races = {}
    PROVE  Spec => []NothingLost
<1>1. SInv => NothingLost
  <2>1. Safe(th) \subseteq Held(th)  BY DEF Safe, Held
  <2>2. SInv => Due \subseteq Safe(th)  BY DEF SInv, Served, Core, Loss
  <2> QED  BY <2>1, <2>2 DEF NothingLost, Due
<1> QED  BY <1>1, ServedAlways, PTL

\* A message whose turn has begun never returns to the FIFO, whichever failure follows.
THEOREM NoReplayHolds ==
    ASSUME Races = {}
    PROVE  Spec => []NoReplay
<1>1. SInv => NoReplay
  <2>1. SInv => ran \cap Pending(th) = {}  BY DEF SInv, Served, Core, Loss
  <2>2. ToSet(th.items) \subseteq Pending(th)  BY DEF Pending
  <2>3. th.active.stage = "preparing" => th.active.entry \in Pending(th)  BY DEF Pending
  <2> QED  BY <2>1, <2>2, <2>3 DEF NoReplay
<1> QED  BY <1>1, ServedAlways, PTL

\* A message a direct input waits for is with a live provider or with a restart.
THEOREM AdmissionIsOwedHolds ==
    ASSUME Races = {}
    PROVE  Spec => []AdmissionIsOwed
<1>1. SInv => AdmissionIsOwed
  <2> SUFFICES ASSUME SInv, AdmissionOpen(th)
               PROVE  \/ Live /\ th.job = th.active.entry
                      \/ \E i \in DOMAIN th.restarts : th.restarts[i].job = th.active.entry
    BY DEF AdmissionIsOwed
  <2>1. Owed(th) /\ Restarting(th)  BY StartsServing DEF Conn
  <2>2. Has(th, "restarting") \/ Provider(th)  BY <2>1 DEF Owed, AdmissionOpen
  <2>3. CASE Has(th, "restarting")
    <3>1. th.restarts = <<[job |-> th.active.entry, on |-> th.active.on]>>
      BY <2>1, <2>3 DEF Restarting
    <3>2. 1 \in DOMAIN th.restarts /\ th.restarts[1].job = th.active.entry  BY <3>1
    <3> QED  BY <3>2
  <2>4. CASE Provider(th)  BY <2>4 DEF Provider, Up, Live
  <2> QED  BY <2>2, <2>3, <2>4
<1> QED  BY <1>1, ServedAlways, PTL

\* Completions, idle reports and steers arrive in any order; still the queue hands a
\* message over only to a provider that runs no turn and asks nothing.
THEOREM QuietWhenItStarts ==
    ASSUME Races = {}
    PROVE  Spec => QueueStartsOnlyWhenQuiet
<1>1. SInv /\ [Next]_vars
        => [Dispatches => th.phase \in {"none", "done"} /\ ~Has(th, "asks")]_vars
  BY OnlyHandsDispatch, StepGoes, PreparedSends DEF Hands
<1> QED  BY <1>1, ServedAlways, PTL DEF Spec, QueueStartsOnlyWhenQuiet

\* Between the gate's check and the hand-over nothing slips in: no direct input is with a
\* provider or a restart when the queue's own message goes out.
THEOREM DirectInputFirst ==
    ASSUME Races = {}
    PROVE  Spec => DirectInputGoesFirst
<1>1. SInv /\ [Next]_vars
        => [Dispatches => /\ \A d \in Inputs : Pc(d) # "handed"
                          /\ \A i \in DOMAIN th.restarts : th.restarts[i].job \notin Inputs]_vars
  <2> SUFFICES ASSUME SInv, [Next]_vars, Dispatches
               PROVE  /\ \A d \in Inputs : Pc(d) # "handed"
                      /\ \A i \in DOMAIN th.restarts : th.restarts[i].job \notin Inputs
    OBVIOUS
  <2>1. IInv' /\ Hands  BY OnlyHandsDispatch, StepGoes
  <2>2. th.restarts = <<>> /\ \A d \in Inputs : Pc(d) # "handed"
    BY <2>1, PreparedSends DEF Hands
  <2> QED  BY <2>2
<1> QED  BY <1>1, ServedAlways, PTL DEF Spec, DirectInputGoesFirst
=============================================================================

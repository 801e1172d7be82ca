---------------------- MODULE RuntimePersistenceProofs ----------------------
(***************************************************************************)
(* What RuntimePersistence guarantees for any number of threads, requests, *)
(* events, faults and boots: a refused event always leaves evidence, no    *)
(* reader is served a thread that lost one, rows and queue together are    *)
(* the abstract log of DurableLog, and a reader whose boundary stayed that *)
(* of its thread is served exactly what was accepted before its fence.     *)
(* The first two do not depend on the bounds of the queue, on its chunks   *)
(* or on the order of its lines; the others need all of the order, and     *)
(* that requests are finitely many.                                        *)
(***************************************************************************)
EXTENDS RuntimePersistence, TLAPS, SequenceTheorems, FiniteSetTheorems, WellFoundedInduction,
        NaturalsInduction

\* The fields of the host that the evidence and the answers depend on exist.
Fields == {"log", "pending", "last", "pin", "line", "next", "alone", "failing", "req", "micro",
           "freed", "gap", "gone", "tainted", "owed", "latched", "touched", "refusing", "phase",
           "hole", "inexact"}
Shaped(w) ==
    /\ Fields \subseteq DOMAIN w
    /\ DOMAIN w.req = Requests
    /\ \A x \in Requests : {"on", "pc"} \subseteq DOMAIN w.req[x]

\* A thread that lost an event has a gap row, or one is owed, or the reserve has overflowed;
\* and the process, or the row, tells its readers.
Told(w) ==
    /\ \A t \in w.hole : t \in w.gap \cup w.owed \/ w.latched = TRUE
    /\ w.hole \subseteq w.tainted \cup w.gap

\* w comes from u, of a host that is up, and serves nobody.
Goes(u, w) ==
    /\ Shaped(w) /\ Told(w)
    /\ w.phase # "down"
    /\ \A x \in Requests : w.req[x].pc = "served" => u.req[x].pc = "served"

\* Most fields have no part in it.
LEMMA Elsewhere ==
    ASSUME NEW u, NEW w, Goes(u, w), NEW v, DOMAIN v = DOMAIN w, v.req = w.req, v.gap = w.gap,
           v.owed = w.owed, v.latched = w.latched, v.hole = w.hole, v.tainted = w.tainted,
           v.phase = w.phase
    PROVE  Goes(u, v)
  BY DEF Goes, Shaped, Told

LEMMA QueueFields ==
    ASSUME NEW u, NEW w, Goes(u, w), NEW f, NEW g, NEW t
    PROVE  /\ Goes(u, [w EXCEPT !.log = f, !.pending = g])
           /\ Goes(u, [w EXCEPT !.pending[t] = f, !.last[t] = g])
           /\ Goes(u, [w EXCEPT !.pin[t] = f])
           /\ Goes(u, [w EXCEPT !.log[t] = f])
           /\ Goes(u, [w EXCEPT !.alone = f])
           /\ Goes(u, [w EXCEPT !.micro = f])
           /\ Goes(u, [w EXCEPT !.freed = f])
           /\ Goes(u, [w EXCEPT !.freed = f, !.pin = g])
           /\ Goes(u, [w EXCEPT !.refusing = f])
           /\ Goes(u, [w EXCEPT !.touched = f])
<1> USE DEF Goes, Shaped, Fields
<1>1. Goes(u, [w EXCEPT !.log = f, !.pending = g])  BY Elsewhere
<1>2. Goes(u, [w EXCEPT !.pending[t] = f, !.last[t] = g])  BY Elsewhere
<1>3. Goes(u, [w EXCEPT !.pin[t] = f])  BY Elsewhere
<1>4. Goes(u, [w EXCEPT !.log[t] = f])  BY Elsewhere
<1>5. Goes(u, [w EXCEPT !.alone = f])  BY Elsewhere
<1>6. Goes(u, [w EXCEPT !.micro = f])  BY Elsewhere
<1>7. Goes(u, [w EXCEPT !.freed = f])  BY Elsewhere
<1>8. Goes(u, [w EXCEPT !.freed = f, !.pin = g])  BY Elsewhere
<1>9. Goes(u, [w EXCEPT !.refusing = f])  BY Elsewhere
<1>10. Goes(u, [w EXCEPT !.touched = f])  BY Elsewhere
<1> QED  BY <1>1, <1>2, <1>3, <1>4, <1>5, <1>6, <1>7, <1>8, <1>9, <1>10

-----------------------------------------------------------------------------
(* Flushing.                                                               *)

LEMMA CommitGoes ==
    ASSUME NEW u, NEW w, Goes(u, w), NEW n
    PROVE  Goes(u, Commit(w, n))
  BY QueueFields DEF Commit

LEMMA CommitDueGoes ==
    ASSUME NEW u, NEW w, Goes(u, w), NEW t, NEW b, NEW most
    PROVE  Goes(u, CommitDue(w, t, b, most))
  BY CommitGoes DEF CommitDue

LEMMA ChunkGoes ==
    ASSUME NEW u, NEW w, Goes(u, w), NEW t, NEW b
    PROVE  Goes(u, FlushChunk(w, t, b))
  BY CommitDueGoes DEF FlushChunk

LEMMA FlushGoes ==
    ASSUME NEW u, NEW w, Goes(u, w), NEW G, NEW rollback \in Rollbacks
    PROVE  Goes(u, FlushBudgeted(w, G, rollback))
<1>1. \A v : Goes(u, v) => Goes(u, FlushAlone(v, G))
  BY CommitGoes, QueueFields DEF FlushAlone, CommitEach
<1>2. Goes(u, CommitEach(w, G))  BY CommitGoes DEF CommitEach
<1>3. Goes(u, [w EXCEPT !.alone = TRUE])  BY QueueFields
<1>4. Goes(u, FlushGroup(w, G, rollback))
  BY <1>1, <1>2, <1>3 DEF FlushGroup, Rollbacks
<1> QED  BY <1>1, <1>4 DEF FlushBudgeted

-----------------------------------------------------------------------------
(* Requests and their lines.                                               *)

LEMMA AtGoes ==
    ASSUME NEW u, NEW w, Goes(u, w), NEW x, NEW pc, pc # "served"
    PROVE  Goes(u, At(w, x, pc))
<1> DEFINE v == [w EXCEPT !.req[x].pc = pc]
<1>1. /\ DOMAIN v = DOMAIN w /\ DOMAIN v.req = Requests
      /\ v.gap = w.gap /\ v.owed = w.owed /\ v.latched = w.latched /\ v.hole = w.hole
      /\ v.tainted = w.tainted /\ v.phase = w.phase
  BY DEF Goes, Shaped, Fields
<1>2. \A y \in Requests : v.req[y] = IF y = x THEN [w.req[y] EXCEPT !.pc = pc] ELSE w.req[y]
  BY DEF Goes, Shaped, Fields
<1>3. \A y \in Requests : DOMAIN v.req[y] = DOMAIN w.req[y]
  BY <1>2
<1>4. \A y \in Requests : v.req[y].pc = "served" => w.req[y].pc = "served"
  BY <1>2 DEF Goes, Shaped
<1> HIDE DEF v
<1>5. Goes(u, v)  BY <1>1, <1>3, <1>4 DEF Goes, Shaped, Told
<1> QED  BY <1>5 DEF At, v

\* Requests that are told they were cancelled are not served.
LEMMA CancelGoes ==
    ASSUME NEW u, NEW w, Goes(u, w), NEW S, NEW v, DOMAIN v = DOMAIN w, v.req = Cancel(w, S),
           v.gap = w.gap, v.owed = w.owed, v.latched = w.latched, v.hole = w.hole,
           v.tainted = w.tainted, v.phase # "down"
    PROVE  Goes(u, v)
<1> DEFINE R == Cancel(w, S)
<1>1. /\ DOMAIN R = Requests /\ \A y \in Requests : DOMAIN R[y] = DOMAIN w.req[y]
      /\ \A y \in Requests : R[y].pc = "served" => w.req[y].pc = "served"
  BY DEF Goes, Shaped, Cancel
<1> HIDE DEF R
<1>2. v.req = R  BY DEF R
<1> QED  BY <1>1, <1>2 DEF Goes, Shaped, Told

LEMMA EvictGoes ==
    ASSUME NEW u, NEW w, Goes(u, w), NEW t, NEW S
    PROVE  Goes(u, Evict(w, t, S))
<1> DEFINE v == Evict(w, t, S)
           Q == ToSet(Waiters(w, t, S))
<1>1. /\ DOMAIN v = DOMAIN w /\ v.req = Cancel(w, Q)
      /\ v.gap = w.gap /\ v.owed = w.owed /\ v.latched = w.latched /\ v.hole = w.hole
      /\ v.tainted = w.tainted /\ v.phase = w.phase
  BY DEF Goes, Shaped, Fields, Evict
<1> HIDE DEF v, Q
<1>2. Goes(u, v)  BY <1>1, CancelGoes DEF Goes
<1> QED  BY <1>2 DEF v

LEMMA PromoteGoes ==
    ASSUME NEW u, NEW w, Goes(u, w), NEW t
    PROVE  Goes(u, Promote(w, t))
  BY AtGoes, QueueFields DEF Promote, Wake

LEMMA SettleGoes ==
    ASSUME NEW u, NEW w, Goes(u, w), NEW x
    PROVE  Goes(u, Settle(w, x))
  BY EvictGoes, PromoteGoes DEF Settle

LEMMA ReleaseGoes ==
    ASSUME NEW u, NEW w, Goes(u, w), NEW x
    PROVE  Goes(u, Release(w, x)) /\ Goes(u, ReleaseExpiredFences(w))
<1>1. Goes(u, Settle(w, x))  BY SettleGoes
<1>2. Goes(u, Release(w, x))
  <2> DEFINE s == Settle(w, x)
             t == On(w, x)
             a == [s EXCEPT !.freed = @ \cup {x}]
             v == [a EXCEPT !.pin[t] = FencePin(s, t)]
  <2> HIDE DEF s, t
  <2>1. Goes(u, s)  BY <1>1 DEF s
  <2>2. Goes(u, v)  BY <2>1, QueueFields
  <2>3. v = [s EXCEPT !.freed = @ \cup {x}, !.pin[t] = FencePin(s, t)]
    BY <2>1 DEF Goes, Shaped, Fields
  <2> HIDE DEF v
  <2>4. Release(w, x) = IF x \in w.freed THEN w ELSE v  BY <2>3 DEF Release, s, t
  <2> QED  BY <2>2, <2>4
<1>3. Goes(u, ReleaseExpiredFences(w))  BY QueueFields DEF ReleaseExpiredFences
<1> QED  BY <1>2, <1>3

LEMMA PreemptGoes ==
    ASSUME NEW u, NEW w, Goes(u, w), NEW t
    PROVE  Goes(u, Preempt(w, t))
<1> DEFINE e == Evict(w, t, FencesOf(w, t))
           a == [e EXCEPT !.freed = @ \cup FencesOf(w, t)]
           v == [a EXCEPT !.pin[t] = Unpinned]
<1>1. Goes(u, e)  BY EvictGoes
<1> HIDE DEF e
<1>2. Goes(u, v)  BY <1>1, QueueFields
<1>3. v = [e EXCEPT !.freed = @ \cup FencesOf(w, t), !.pin[t] = Unpinned]
  BY <1>1 DEF Goes, Shaped, Fields
<1> HIDE DEF v
<1> QED  BY <1>2, <1>3, PromoteGoes DEF Preempt, e
-----------------------------------------------------------------------------
(* Admission.                                                              *)

\* A gap row, an obligation or the latch; nothing that was there is taken back.
LEMMA RecordGapFacts ==
    ASSUME NEW w, Shaped(w), NEW t, NEW v, v = RecordGap(w, t)
    PROVE  /\ DOMAIN v = DOMAIN w /\ v.req = w.req /\ v.hole = w.hole /\ v.tainted = w.tainted
           /\ v.phase = w.phase
           /\ w.gap \subseteq v.gap /\ w.owed \subseteq v.owed
           /\ w.latched = TRUE => v.latched = TRUE
           /\ t \in v.gap \cup v.owed \/ v.latched = TRUE
<1>1. CASE t \notin w.failing
  BY <1>1 DEF RecordGap, Shaped, Fields
<1>2. CASE t \in w.failing /\ (t \in w.owed \/ Cardinality(w.owed) < MaxOwed)
  BY <1>2 DEF RecordGap, Shaped, Fields
<1>3. CASE t \in w.failing /\ ~(t \in w.owed \/ Cardinality(w.owed) < MaxOwed)
  BY <1>3 DEF RecordGap, Shaped, Fields
<1> QED  BY <1>1, <1>2, <1>3

LEMMA RefuseGoes ==
    ASSUME NEW u, NEW w, Goes(u, w), NEW t
    PROVE  Goes(u, Refuse(w, t)) /\ Goes(u, RecordGap(w, t)) /\ Goes(u, RefuseAll(w, t))
<1> DEFINE a == [w EXCEPT !.tainted = @ \cup {t}, !.hole = @ \cup {t}]
           v == RecordGap(a, t)
           r == RecordGap(w, t)
<1>1. /\ DOMAIN a = DOMAIN w /\ a.req = w.req /\ a.hole = w.hole \cup {t}
      /\ a.tainted = w.tainted \cup {t} /\ a.phase = w.phase /\ a.gap = w.gap /\ a.owed = w.owed
      /\ a.latched = w.latched /\ Shaped(a)
  BY DEF Goes, Shaped, Fields
<1> HIDE DEF a
<1>2. /\ DOMAIN v = DOMAIN a /\ v.req = a.req /\ v.hole = a.hole /\ v.tainted = a.tainted
      /\ v.phase = a.phase /\ a.gap \subseteq v.gap /\ a.owed \subseteq v.owed
      /\ a.latched = TRUE => v.latched = TRUE
      /\ t \in v.gap \cup v.owed \/ v.latched = TRUE
  <2>1. Shaped(a)  BY <1>1
  <2> QED  BY <2>1, RecordGapFacts
<1>3. /\ DOMAIN r = DOMAIN w /\ r.req = w.req /\ r.hole = w.hole /\ r.tainted = w.tainted
      /\ r.phase = w.phase /\ w.gap \subseteq r.gap /\ w.owed \subseteq r.owed
      /\ w.latched = TRUE => r.latched = TRUE
  BY RecordGapFacts DEF Goes
<1> HIDE DEF v, r
<1>4. Shaped(v) /\ Shaped(r)  BY <1>1, <1>2, <1>3 DEF Shaped, Goes
<1>5. Told(v) /\ Told(r)  BY <1>1, <1>2, <1>3 DEF Told, Goes
<1>6. Goes(u, v) /\ Goes(u, r)  BY <1>1, <1>2, <1>3, <1>4, <1>5 DEF Goes
<1>7. Goes(u, Refuse(w, t)) /\ Goes(u, RecordGap(w, t))  BY <1>6 DEF Refuse, v, r, a
<1> QED  BY <1>7, QueueFields DEF RefuseAll

LEMMA RelieveGoes ==
    ASSUME NEW u, NEW w, Goes(u, w), NEW t
    PROVE  Goes(u, Relieve(w, t)) /\ Goes(u, RelieveOldest(w))
<1>1. \A s : Goes(u, Relieve(w, s))  BY PreemptGoes, ChunkGoes DEF Relieve
<1> QED  BY <1>1 DEF RelieveOldest

LEMMA EnqueueGoes ==
    ASSUME NEW u, NEW w, Goes(u, w), NEW t, NEW backoff
    PROVE  Goes(u, Enqueue(w, t, backoff))
<1>1. Goes(u, MakeRoom(w, t, backoff))  BY RelieveGoes DEF MakeRoom
<1>2. ASSUME NEW v, Goes(u, v)  PROVE Goes(u, Accept(v, t))
  <2> DEFINE a == Accept(v, t)
  <2>1. /\ DOMAIN a = DOMAIN v /\ a.req = v.req /\ a.gap = v.gap /\ a.owed = v.owed
        /\ a.latched = v.latched /\ a.hole = v.hole /\ a.tainted = v.tainted /\ a.phase = v.phase
    BY <1>2 DEF Accept, Goes, Shaped, Fields
  <2> HIDE DEF a
  <2>2. Goes(u, a)  BY <1>2, <2>1, Elsewhere
  <2> QED  BY <2>2 DEF a
<1>3. ASSUME NEW v, Goes(u, v)  PROVE Goes(u, Settled(v, backoff))
  BY <1>3, RelieveGoes, QueueFields DEF Settled
<1> QED  BY <1>1, <1>2, <1>3, RefuseGoes DEF Enqueue

LEMMA AgedGoes ==
    ASSUME NEW u, NEW w, Goes(u, w), NEW age, NEW backoff
    PROVE  Goes(u, Aged(w, age, backoff))
  BY RelieveGoes DEF Aged

-----------------------------------------------------------------------------
(* Fences and mutations.                                                   *)

LEMMA LearnGoes ==
    ASSUME NEW u, NEW w, Goes(u, w), NEW t
    PROVE  Goes(u, Learn(w, t))
<1> DEFINE v == [w EXCEPT !.tainted = @ \cup {t}]
<1>1. /\ DOMAIN v = DOMAIN w /\ v.req = w.req /\ v.gap = w.gap /\ v.owed = w.owed
      /\ v.latched = w.latched /\ v.hole = w.hole /\ v.tainted = w.tainted \cup {t}
      /\ v.phase = w.phase
  BY DEF Goes, Shaped, Fields
<1> HIDE DEF v
<1>2. Goes(u, v)  BY <1>1 DEF Goes, Shaped, Told
<1> QED  BY <1>2 DEF Learn, v

LEMMA NewGoes ==
    ASSUME NEW u, NEW w, Goes(u, w), NEW x, NEW t, NEW kind
    PROVE  Goes(u, Join(w, x, t, kind)) /\ Goes(u, Reject(w, x, t, kind))
<1>1. ASSUME NEW pc \in {"waiting", "refused"}, NEW v, DOMAIN v = DOMAIN w,
             v.req = [w.req EXCEPT ![x] = New(w, t, kind, pc)],
             v.gap = w.gap, v.owed = w.owed, v.latched = w.latched, v.hole = w.hole,
             v.tainted = w.tainted, v.phase = w.phase
      PROVE  Goes(u, v)
  <2> DEFINE r == New(w, t, kind, pc)
  <2>1. r.pc = pc /\ {"on", "pc"} \subseteq DOMAIN r  BY DEF New
  <2> HIDE DEF r
  <2>2. \A y \in Requests : v.req[y] = IF y = x THEN r ELSE w.req[y]
    BY <1>1 DEF Goes, Shaped, r
  <2>3. DOMAIN v.req = Requests  BY <1>1 DEF Goes, Shaped
  <2>4. \A y \in Requests : v.req[y].pc = "served" => w.req[y].pc = "served"
    BY <2>1, <2>2
  <2>5. Shaped(v)  BY <1>1, <2>1, <2>2, <2>3 DEF Goes, Shaped
  <2> QED  BY <1>1, <2>4, <2>5 DEF Goes, Told
<1>2. Goes(u, Join(w, x, t, kind))
  <2> DEFINE v == Join(w, x, t, kind)
  <2>1. /\ DOMAIN v = DOMAIN w /\ v.req = [w.req EXCEPT ![x] = New(w, t, kind, "waiting")]
        /\ v.gap = w.gap /\ v.owed = w.owed /\ v.latched = w.latched /\ v.hole = w.hole
        /\ v.tainted = w.tainted /\ v.phase = w.phase
    BY DEF Goes, Shaped, Fields, Join
  <2> HIDE DEF v
  <2>2. Goes(u, v)  BY <1>1, <2>1
  <2> QED  BY <2>2 DEF v
<1>3. Goes(u, Reject(w, x, t, kind))
  <2> DEFINE v == Reject(w, x, t, kind)
  <2>1. /\ DOMAIN v = DOMAIN w /\ v.req = [w.req EXCEPT ![x] = New(w, t, kind, "refused")]
        /\ v.gap = w.gap /\ v.owed = w.owed /\ v.latched = w.latched /\ v.hole = w.hole
        /\ v.tainted = w.tainted /\ v.phase = w.phase
    BY DEF Goes, Shaped, Fields, Reject
  <2> HIDE DEF v
  <2>2. Goes(u, v)  BY <1>1, <2>1
  <2> QED  BY <2>2 DEF v
<1> QED  BY <1>2, <1>3

LEMMA FenceRoundGoes ==
    ASSUME NEW u, NEW w, Goes(u, w), NEW x, NEW late
    PROVE  Goes(u, FenceRound(w, x, late))
<1>1. Goes(u, Release(w, x)) /\ Goes(u, Release(Learn(w, On(w, x)), x))
  BY ReleaseGoes, LearnGoes
<1>2. Goes(u, FlushChunk(w, On(w, x), w.req[x].through))  BY ChunkGoes
<1> QED  BY <1>1, <1>2, AtGoes DEF FenceRound

\* A repair takes away the hole together with its evidence.
LEMMA SupersedeGoes ==
    ASSUME NEW u, NEW w, Goes(u, w), NEW t
    PROVE  Goes(u, Supersede(w, t))
<1> DEFINE d == Discard(w, t)
           v == Supersede(w, t)
<1>1. /\ DOMAIN d = DOMAIN w /\ d.req = w.req /\ d.gap = w.gap /\ d.owed = w.owed
      /\ d.latched = w.latched /\ d.hole = w.hole /\ d.tainted = w.tainted /\ d.phase = w.phase
  BY DEF Discard, Goes, Shaped, Fields
<1>2. Goes(u, d)
  <2> HIDE DEF d
  <2> QED  BY <1>1, Elsewhere
<1>3. v = [d EXCEPT !.tainted = @ \ {t}, !.owed = @ \ {t}, !.gap = @ \ {t},
                    !.touched = @ \ {t}, !.hole = @ \ {t}]
  BY DEF Supersede
<1> HIDE DEF d, v
<1>4. /\ DOMAIN v = DOMAIN d /\ v.req = d.req /\ v.gap = d.gap \ {t} /\ v.owed = d.owed \ {t}
      /\ v.latched = d.latched /\ v.hole = d.hole \ {t} /\ v.tainted = d.tainted \ {t}
      /\ v.phase = d.phase
  BY <1>2, <1>3 DEF Goes, Shaped, Fields
<1>5. Goes(u, v)  BY <1>2, <1>4 DEF Goes, Shaped, Told
<1> QED  BY <1>5 DEF v

LEMMA FinishGoes ==
    ASSUME NEW u, NEW w, Goes(u, w), NEW x, NEW pc, pc # "served"
    PROVE  Goes(u, Finish(w, x, pc))
  BY AtGoes, SettleGoes DEF Finish

LEMMA ApplyGoes ==
    ASSUME NEW u, NEW w, Goes(u, w), NEW x, NEW keep
    PROVE  Goes(u, Apply(w, x, keep))
<1> DEFINE t == On(w, x)
           s == Supersede(w, t)
           e == [s EXCEPT !.log[t] = <<>>]
           g == [s EXCEPT !.log[t] = <<>>, !.gone = @ \cup {t}]
<1>1. Goes(u, s) /\ Goes(u, e)  BY SupersedeGoes, QueueFields
<1>2. Goes(u, g)
  <2> HIDE DEF s
  <2>1. /\ DOMAIN g = DOMAIN s /\ g.req = s.req /\ g.gap = s.gap /\ g.owed = s.owed
        /\ g.latched = s.latched /\ g.hole = s.hole /\ g.tainted = s.tainted /\ g.phase = s.phase
    BY <1>1 DEF Goes, Shaped, Fields
  <2> HIDE DEF g
  <2> QED  BY <1>1, <2>1, Elsewhere
<1>3. Goes(u, [w EXCEPT !.log[t] = SubSeq(@, 1, Least(keep, Len(@)))])  BY QueueFields
<1>4. Goes(u, Finish(w, x, "refused"))  BY FinishGoes
<1>5. /\ Goes(u, Finish(s, x, "done")) /\ Goes(u, Finish(e, x, "done"))
      /\ Goes(u, Finish(g, x, "done"))
      /\ Goes(u, Finish([w EXCEPT !.log[t] = SubSeq(@, 1, Least(keep, Len(@)))], x, "done"))
  BY <1>1, <1>2, <1>3, FinishGoes
<1> QED  BY <1>4, <1>5 DEF Apply

LEMMA MutationGoes ==
    ASSUME NEW u, NEW w, Goes(u, w), NEW x, NEW keep, NEW late
    PROVE  Goes(u, MutationRound(w, x, keep, late)) /\ Goes(u, MutationStart(w, x, keep, late))
<1> DEFINE t == On(w, x)
           v == FlushChunk(w, t, MaxSeq)
           e == Evict(w, t, {y \in ToSet(w.line[t]) : IsFence(w, y)})
<1>1. Goes(u, v) /\ Goes(u, e) /\ Goes(u, Learn(w, t))  BY ChunkGoes, EvictGoes, LearnGoes
<1>2. Goes(u, MutationRound(w, x, keep, late))
  <2>1. /\ Goes(u, Finish(Learn(w, t), x, "refused")) /\ Goes(u, Finish(w, x, "refused"))
        /\ Goes(u, Finish(v, x, "refused")) /\ Goes(u, At(v, x, "flushing"))
        /\ Goes(u, Apply(v, x, keep))
    BY <1>1, FinishGoes, AtGoes, ApplyGoes
  <2> QED  BY <2>1 DEF MutationRound
<1>3. Goes(u, Apply(e, x, keep)) /\ Goes(u, Apply(Learn(w, t), x, keep))
  BY <1>1, ApplyGoes
<1> QED  BY <1>2, <1>3 DEF MutationStart

-----------------------------------------------------------------------------
(* The steps of the host.                                                  *)

\* While it is up the host can tell every hole; a database that is closed, or that a crash
\* left behind, has the rows itself.
RInv ==
    /\ Shaped(host)
    /\ Up(host) => Told(host)
    /\ ~Up(host) => host.hole \subseteq host.gap

\* Nobody is served by the step.
Quiet == \A x \in Requests : host'.req[x].pc = "served" => host.req[x].pc = "served"

LEMMA Standing ==
    ASSUME RInv, Up(host)
    PROVE  Goes(host, host)
  BY DEF RInv, Up, Goes

LEMMA Gone ==
    ASSUME Goes(host, host')
    PROVE  RInv' /\ Quiet
  BY DEF RInv, Up, Goes, Quiet

LEMMA AdmitGoes ==
    ASSUME RInv, NEW t, NEW age, NEW backoff, Admit(t, age, backoff) \/ DropRebase(t) \/ Barrier(t)
    PROVE  Goes(host, host')
<1>1. Goes(host, host)
  BY Standing DEF Admit, DropRebase, Barrier, Idle
<1>2. CASE Admit(t, age, backoff)
  <2> DEFINE w == Aged(host, age, backoff)
             v == [w EXCEPT !.touched = @ \cup {t}]
  <2>1. Goes(host, w) /\ Goes(host, v)  BY <1>1, AgedGoes, QueueFields
  <2>2. /\ Goes(host, Refuse(w, t)) /\ Goes(host, RecordGap(w, t)) /\ Goes(host, RefuseAll(w, t))
        /\ Goes(host, Refuse(v, t)) /\ Goes(host, Enqueue(v, t, backoff))
    BY <2>1, RefuseGoes, EnqueueGoes
  <2>3. host' \in {Refuse(w, t), RecordGap(w, t), RefuseAll(w, t), w, Refuse(v, t),
                   Enqueue(v, t, backoff)}
    BY <1>2 DEF Admit, Step
  <2> QED  BY <2>1, <2>2, <2>3
<1>3. CASE DropRebase(t)  BY <1>1, <1>3, RefuseGoes DEF DropRebase, Step
<1>4. CASE Barrier(t)  BY <1>1, <1>4, CommitDueGoes DEF Barrier, Step
<1> QED  BY <1>2, <1>3, <1>4

LEMMA FlushCycleGoes ==
    ASSUME RInv, NEW G, NEW rollback \in Rollbacks, NEW age, NEW healthy,
           FlushCycle(G, rollback, age, healthy)
    PROVE  Goes(host, host')
<1>1. Goes(host, host)  BY Standing DEF FlushCycle, Idle
<1> DEFINE u == ReleaseExpiredFences(host)
           a == [u EXCEPT !.refusing = @ /\ ~healthy]
           v == Aged(a, age, FALSE)
           w == [v EXCEPT !.refusing = @ \/ (age = "old" /\ Backlog(v) # {})]
<1>2. Goes(host, u)  BY <1>1, ReleaseGoes
<1>3. Goes(host, v)  BY <1>2, QueueFields, AgedGoes
<1>4. Goes(host, w)  BY <1>3, QueueFields
<1>5. host' \in {w, FlushBudgeted(w, G, rollback)}  BY DEF FlushCycle, Step
<1> HIDE DEF w
<1> QED  BY <1>4, <1>5, FlushGoes

LEMMA RequestGoes ==
    ASSUME RInv, NEW x, NEW t, NEW kind, BeginFence(x, t) \/ RequestMutation(x, t, kind)
    PROVE  Goes(host, host')
<1>1. Goes(host, host)  BY Standing DEF BeginFence, RequestMutation, Idle
<1>2. CASE BeginFence(x, t)
  <2> DEFINE p == [host EXCEPT !.pin[t] = Least(@, host.last[t])]
             w == Join(p, x, t, "read")
             v == ReleaseExpiredFences(host)
             r == Reject(Learn(v, t), x, t, "read")
             q == [r EXCEPT !.pin[t] = FencePin(v, t)]
  <2>1. Goes(host, w)  BY <1>1, QueueFields, NewGoes
  <2>2. Goes(host, v)  BY <1>1, ReleaseGoes
  <2>3. Goes(host, r)  BY <2>2, LearnGoes, NewGoes
  <2>4. Goes(host, q)  BY <2>3, QueueFields
  <2>5. Goes(host, Promote(ReleaseExpiredFences(w), t))  BY <2>1, ReleaseGoes, PromoteGoes
  <2>6. Goes(host, Reject(host, x, t, "read"))  BY <1>1, NewGoes
  <2>7. host' \in {Reject(host, x, t, "read"), q, Promote(ReleaseExpiredFences(w), t)}
    BY <1>2 DEF BeginFence, Step
  <2> QED  BY <2>4, <2>5, <2>6, <2>7
<1>3. CASE RequestMutation(x, t, kind)
  <2>1. Goes(host, Reject(host, x, t, kind)) /\ Goes(host, Promote(Join(host, x, t, kind), t))
    BY <1>1, NewGoes, PromoteGoes
  <2> QED  BY <1>3, <2>1 DEF RequestMutation, Step
<1> QED  BY <1>2, <1>3

LEMMA ContinueGoes ==
    ASSUME RInv, NEW x, NEW keep, NEW late, Continue(keep, late) \/ Resume(x, keep, late)
    PROVE  Goes(host, host')
<1>1. Goes(host, host)  BY Standing DEF Continue, Resume, Idle
<1>2. CASE Continue(keep, late)
  <2> DEFINE y == Head(host.micro)
             w == [host EXCEPT !.micro = Tail(@)]
  <2>1. Goes(host, w)  BY <1>1, QueueFields
  <2>2. /\ Goes(host, At(w, y, "refused")) /\ Goes(host, At(Release(w, y), y, "refused"))
        /\ Goes(host, FenceRound(w, y, late)) /\ Goes(host, MutationStart(w, y, keep, late))
    BY <2>1, ReleaseGoes, AtGoes, FenceRoundGoes, MutationGoes
  <2>3. host' \in {At(w, y, "refused"), At(Release(w, y), y, "refused"), FenceRound(w, y, late),
                   MutationStart(w, y, keep, late)}
    BY <1>2 DEF Continue, Step
  <2> QED  BY <2>2, <2>3
<1>3. CASE Resume(x, keep, late)
  BY <1>1, <1>3, FenceRoundGoes, MutationGoes DEF Resume, Step
<1> QED  BY <1>2, <1>3

LEMMA WorkerGoes ==
    ASSUME RInv, NEW x, NEW t, NEW keep, WorkerReads(x) \/ Expire(x) \/ TruncateNow(t, keep)
    PROVE  Goes(host, host')
<1>1. Goes(host, host)  BY Standing DEF WorkerReads, Expire, TruncateNow, Idle
<1>2. CASE WorkerReads(x)
  <2> DEFINE a == At(host, x, "read")
  <2>1. Goes(host, a)  BY <1>1, AtGoes
  <2>2. \E f : host' = [a EXCEPT !.inexact = f]  BY <1>2 DEF WorkerReads, Step
  <2> HIDE DEF a
  <2>3. /\ DOMAIN host' = DOMAIN a /\ host'.req = a.req /\ host'.gap = a.gap
        /\ host'.owed = a.owed /\ host'.latched = a.latched /\ host'.hole = a.hole
        /\ host'.tainted = a.tainted /\ host'.phase = a.phase
    BY <2>1, <2>2 DEF Goes, Shaped, Fields
  <2> QED  BY <2>1, <2>3, Elsewhere
<1>3. CASE Expire(x)  BY <1>1, <1>3, SettleGoes DEF Expire, Step
<1>4. CASE TruncateNow(t, keep)
  <2> DEFINE w == CommitDue(host, t, MaxSeq, MaxSeq)
  <2>1. Goes(host, w)  BY <1>1, CommitDueGoes
  <2>2. host' = [w EXCEPT !.log[t] = SubSeq(@, 1, keep)]  BY <1>4 DEF TruncateNow, Step
  <2> HIDE DEF w
  <2> QED  BY <2>1, <2>2, QueueFields
<1> QED  BY <1>2, <1>3, <1>4

\* A reader is served only when its thread is free of evidence, so when it lost nothing.
LEMMA AnswerHolds ==
    ASSUME RInv, NEW x \in Requests, Answer(x)
    PROVE  /\ RInv'
           /\ \A y \in Requests : host'.req[y].pc = "served" /\ host.req[y].pc # "served"
                                     => On(host, y) \notin host.hole
<1>1. Goes(host, host)  BY Standing DEF Answer, Idle
<1> DEFINE t == On(host, x)
           v == Release(Learn(host, t), x)
           ok == Stands(host, x) /\ x \notin host.freed /\ ~Blocked(host, t)
<1>2. Goes(host, v)  BY <1>1, LearnGoes, ReleaseGoes
<1>3. host' = At(v, x, IF ok THEN "served" ELSE "refused")  BY DEF Answer, Step
<1>4. CASE ~ok
  <2>1. host' = At(v, x, "refused")  BY <1>3, <1>4
  <2>2. Goes(host, host')  BY <1>2, <2>1, AtGoes
  <2> QED  BY <2>2, Gone DEF Quiet
<1>5. CASE ok
  <2>1. host' = [v EXCEPT !.req[x].pc = "served"]  BY <1>3, <1>5 DEF At
  <2>2. t \notin host.hole  BY <1>1, <1>5 DEF Goes, Told, Blocked
  <2> HIDE DEF v, ok
  <2>3. /\ DOMAIN host' = DOMAIN v /\ DOMAIN host'.req = Requests
        /\ host'.gap = v.gap /\ host'.owed = v.owed /\ host'.latched = v.latched
        /\ host'.hole = v.hole /\ host'.tainted = v.tainted /\ host'.phase = v.phase
    BY <1>2, <2>1 DEF Goes, Shaped, Fields
  <2>4. \A y \in Requests :
            host'.req[y] = IF y = x THEN [v.req[y] EXCEPT !.pc = "served"] ELSE v.req[y]
    BY <1>2, <2>1 DEF Goes, Shaped, Fields
  <2>5. \A y \in Requests : DOMAIN host'.req[y] = DOMAIN v.req[y]
    BY <2>4
  <2>6. RInv'  BY <1>2, <2>3, <2>5 DEF RInv, Goes, Shaped, Told, Up
  <2>7. ASSUME NEW y \in Requests, host'.req[y].pc = "served", host.req[y].pc # "served"
        PROVE  On(host, y) \notin host.hole
    BY <1>2, <2>2, <2>4, <2>7 DEF Goes
  <2> QED  BY <2>6, <2>7
<1> QED  BY <1>4, <1>5

\* What a process leaves behind serves nobody and keeps the rows.
LEMMA ExitFacts ==
    ASSUME NEW w, Shaped(w), NEW v, v = Exit(w)
    PROVE  /\ Shaped(v) /\ v.phase = "down" /\ v.gap = w.gap /\ v.hole = w.hole
           /\ \A x \in Requests : v.req[x].pc = "served" => w.req[x].pc = "served"
<1> DEFINE R == [x \in Requests |-> IF w.req[x].pc \in Unsettled
                                    THEN [w.req[x] EXCEPT !.pc = "refused"] ELSE w.req[x]]
<1>1. /\ DOMAIN v = DOMAIN w /\ v.req = R /\ v.phase = "down" /\ v.gap = w.gap
      /\ v.hole = w.hole
  BY DEF Exit, Shaped, Fields
<1>2. /\ DOMAIN R = Requests
      /\ \A x \in Requests : DOMAIN R[x] = DOMAIN w.req[x]
      /\ \A x \in Requests : R[x].pc = "served" => w.req[x].pc = "served"
  BY DEF Shaped
<1> HIDE DEF R
<1> QED  BY <1>1, <1>2 DEF Shaped

\* A close lets go of the database only when all the evidence is in it.
LEMMA CloseHolds ==
    ASSUME RInv, NEW G, NEW rollback \in Rollbacks, CloseDatabase(G, rollback)
    PROVE  RInv' /\ Quiet
<1>1. Goes(host, host)  BY Standing DEF CloseDatabase, Idle
<1> DEFINE c == [host EXCEPT !.phase = "closing"]
           w == CancelActive(c)
           drained == Commit(w, [t \in Threads |-> Due(w, t, MaxSeq)])
           v == FlushOwed(drained)
<1>2. Goes(host, c)
  <2>1. /\ DOMAIN c = DOMAIN host /\ c.req = host.req /\ c.gap = host.gap /\ c.owed = host.owed
        /\ c.latched = host.latched /\ c.hole = host.hole /\ c.tainted = host.tainted
        /\ c.phase = "closing"
    BY <1>1 DEF Goes, Shaped, Fields
  <2> HIDE DEF c
  <2> QED  BY <1>1, <2>1 DEF Goes, Shaped, Told
<1> HIDE DEF c
<1>3. Goes(host, w)
  <2> DEFINE told == {x \in Requests : c.req[x].pc = "waiting"}
             z == CancelActive(c)
  <2>1. /\ DOMAIN z = DOMAIN c /\ z.req = Cancel(c, told) /\ z.gap = c.gap /\ z.owed = c.owed
        /\ z.latched = c.latched /\ z.hole = c.hole /\ z.tainted = c.tainted
        /\ z.phase = c.phase
    BY <1>2 DEF CancelActive, Goes, Shaped, Fields
  <2> HIDE DEF z, told
  <2>2. z.phase # "down"  BY <1>2, <2>1 DEF Goes
  <2>3. Goes(host, z)  BY <1>2, <2>1, <2>2, CancelGoes
  <2> QED  BY <2>3 DEF z
<1> HIDE DEF w
<1>4. Goes(host, FlushBudgeted(w, G, rollback))  BY <1>3, FlushGoes
<1>5. Goes(host, drained)  BY <1>3, CommitGoes
<1> HIDE DEF drained
<1>6. Goes(host, v)
  <2>1. /\ DOMAIN v = DOMAIN drained /\ v.req = drained.req
        /\ v.gap = drained.gap \cup (drained.owed \ drained.failing)
        /\ v.owed = drained.owed \cap drained.failing
        /\ v.latched = drained.latched /\ v.hole = drained.hole /\ v.tainted = drained.tainted
        /\ v.phase = drained.phase
    BY <1>5 DEF FlushOwed, Goes, Shaped, Fields
  <2> HIDE DEF v
  <2> QED  BY <1>5, <2>1 DEF Goes, Shaped, Told
<1> HIDE DEF v
<1>7. CASE v.owed = {} /\ ~v.latched /\ host' = Exit(v)
  <2>1. v.hole \subseteq v.gap  BY <1>6, <1>7 DEF Goes, Told
  <2>2. /\ Shaped(host') /\ host'.phase = "down" /\ host'.gap = v.gap /\ host'.hole = v.hole
        /\ \A x \in Requests : host'.req[x].pc = "served" => v.req[x].pc = "served"
    BY <1>6, <1>7, ExitFacts DEF Goes
  <2>3. RInv'  BY <2>1, <2>2 DEF RInv, Up, Shaped
  <2> QED  BY <1>6, <2>2, <2>3 DEF Quiet, Goes
<1>8. \/ host' = FlushBudgeted(w, G, rollback)
      \/ host' = v
      \/ v.owed = {} /\ ~v.latched /\ host' = Exit(v)
  BY DEF CloseDatabase, Step, v, drained, w, c
<1>9. CASE host' = FlushBudgeted(w, G, rollback)  BY <1>4, <1>9, Gone
<1>10. CASE host' = v  BY <1>6, <1>10, Gone
<1> QED  BY <1>7, <1>8, <1>9, <1>10

\* The process dies, another boots, the disk breaks and heals.
LEMMA WorldHolds ==
    ASSUME RInv, NEW S, NEW t, Crash \/ Boot \/ Break(S) \/ Heal(t)
    PROVE  RInv' /\ Quiet
<1>1. CASE Crash
  <2> DEFINE e == Exit(host)
  <2>1. /\ Shaped(e) /\ e.phase = "down" /\ e.gap = host.gap
        /\ \A x \in Requests : e.req[x].pc = "served" => host.req[x].pc = "served"
    BY ExitFacts DEF RInv
  <2>2. host' = [e EXCEPT !.hole = @ \cap host.gap]  BY <1>1 DEF Crash, Step
  <2> HIDE DEF e
  <2>3. /\ DOMAIN host' = DOMAIN e /\ host'.req = e.req /\ host'.phase = e.phase
        /\ host'.gap = e.gap /\ host'.hole = e.hole \cap host.gap
    BY <2>1, <2>2 DEF Shaped, Fields
  <2> QED  BY <2>1, <2>3 DEF RInv, Up, Quiet, Shaped
<1>2. CASE Boot
  <2>1. host' = [host EXCEPT !.phase = "open"] /\ ~Up(host)  BY <1>2 DEF Boot, Step
  <2>2. /\ DOMAIN host' = DOMAIN host /\ host'.req = host.req /\ host'.phase = "open"
        /\ host'.gap = host.gap /\ host'.owed = host.owed /\ host'.latched = host.latched
        /\ host'.hole = host.hole /\ host'.tainted = host.tainted
    BY <2>1 DEF RInv, Shaped, Fields
  <2>3. Told(host')  BY <2>1, <2>2 DEF RInv, Told
  <2> QED  BY <2>2, <2>3 DEF RInv, Up, Quiet, Shaped, Told
<1>3. CASE Break(S) \/ Heal(t)
  <2>1. \E f : host' = [host EXCEPT !.failing = f]
    BY <1>3 DEF Break, Heal, Step
  <2>2. /\ DOMAIN host' = DOMAIN host /\ host'.req = host.req /\ host'.phase = host.phase
        /\ host'.gap = host.gap /\ host'.owed = host.owed /\ host'.latched = host.latched
        /\ host'.hole = host.hole /\ host'.tainted = host.tainted
    BY <2>1 DEF RInv, Shaped, Fields
  <2> QED  BY <2>2 DEF RInv, Up, Quiet, Shaped, Told
<1> QED  BY <1>1, <1>2, <1>3

-----------------------------------------------------------------------------
(* Theorems.                                                               *)

\* Whoever a step serves had lost nothing.
ServedWhole ==
    \A x \in Requests :
        host.req[x].pc # "served" /\ host'.req[x].pc = "served" => On(host, x) \notin host.hole

LEMMA Initially == Init => RInv
<1> SUFFICES ASSUME Init  PROVE RInv
  OBVIOUS
<1>1. /\ DOMAIN host = Fields /\ host.gap = {} /\ host.hole = {} /\ host.phase = "open"
      /\ host.req = [x \in Requests |-> NoRequest]
  BY DEF Init, Fields
<1>2. Shaped(host)  BY <1>1 DEF Shaped, NoRequest
<1> QED  BY <1>1, <1>2 DEF RInv, Up, Told

LEMMA Stepwise == RInv /\ [Next]_vars => RInv' /\ ServedWhole
<1> SUFFICES ASSUME RInv, [Next]_vars  PROVE RInv' /\ ServedWhole
  OBVIOUS
<1>1. ASSUME Goes(host, host')  PROVE RInv' /\ ServedWhole
  BY <1>1, Gone DEF Quiet, ServedWhole
<1>2. ASSUME NEW t \in Threads, NEW age \in Ages, NEW backoff \in BOOLEAN, Admit(t, age, backoff)
      PROVE  RInv' /\ ServedWhole
  BY <1>1, <1>2, AdmitGoes
<1>3. ASSUME NEW G \in SUBSET Threads, NEW rollback \in Rollbacks, NEW age \in Ages,
             NEW healthy \in BOOLEAN, FlushCycle(G, rollback, age, healthy)
      PROVE  RInv' /\ ServedWhole
  BY <1>1, <1>3, FlushCycleGoes
<1>4. ASSUME NEW t \in Threads, DropRebase(t) \/ Barrier(t)  PROVE RInv' /\ ServedWhole
  BY <1>1, <1>4, AdmitGoes
<1>5. ASSUME NEW t, NEW S, Crash \/ Boot \/ Break(S) \/ Heal(t)  PROVE RInv' /\ ServedWhole
  BY <1>5, WorldHolds DEF Quiet, ServedWhole
<1>6. ASSUME NEW x \in Requests, NEW t \in Threads, NEW kind,
             BeginFence(x, t) \/ RequestMutation(x, t, kind)
      PROVE  RInv' /\ ServedWhole
  BY <1>1, <1>6, RequestGoes
<1>7. ASSUME NEW x \in Requests, NEW t, NEW keep, WorkerReads(x) \/ Expire(x)
      PROVE  RInv' /\ ServedWhole
  BY <1>1, <1>7, WorkerGoes
<1>8. ASSUME NEW x \in Requests, Answer(x)  PROVE RInv' /\ ServedWhole
  BY <1>8, AnswerHolds DEF ServedWhole
<1>9. ASSUME NEW x, NEW keep \in Keeps, NEW late \in BOOLEAN,
             Continue(keep, late) \/ Resume(x, keep, late)
      PROVE  RInv' /\ ServedWhole
  BY <1>1, <1>9, ContinueGoes
<1>10. ASSUME NEW t \in Threads, NEW keep \in Keeps, TruncateNow(t, keep)
       PROVE  RInv' /\ ServedWhole
  BY <1>1, <1>10, WorkerGoes
<1>11. ASSUME NEW G \in SUBSET Threads, NEW rollback \in Rollbacks, CloseDatabase(G, rollback)
       PROVE  RInv' /\ ServedWhole
  BY <1>11, CloseHolds DEF Quiet, ServedWhole
<1>12. CASE UNCHANGED vars
  <2>1. host' = host  BY <1>12 DEF vars
  <2> QED  BY <2>1 DEF RInv, Up, Shaped, Told, ServedWhole
<1>13. CASE Next
  BY <1>13, <1>2, <1>3, <1>4, <1>5, <1>6, <1>7, <1>8, <1>9, <1>10, <1>11 DEF Next
<1> QED  BY <1>12, <1>13

\* The evidence of a refused event is told while the process is up, and durable once it is
\* down (runtimePersistence.ts, markContaminated and closeDatabase).
THEOREM Remembered == Spec => []RInv
<1>1. RInv /\ [Next]_vars => RInv'  BY Stepwise
<1> QED  BY Initially, <1>1, PTL DEF Spec

\* A refused event is never forgotten: a gap row, an obligation or the latch while the host
\* runs, a gap row after every clean close (runtimeDurableGapStore.ts, recordGap).
THEOREM EvidenceHolds == Spec => []EvidenceIsKept
<1>1. RInv => EvidenceIsKept  BY DEF RInv, Told, EvidenceIsKept
<1> QED  BY Remembered, <1>1, PTL

\* No reader is served a thread that lost an event, in this boot or an earlier one
\* (runtimePersistence.ts, readFencedAsync after its await).
THEOREM NoGapServedHolds == Spec => NoGapServed
<1>1. RInv /\ [Next]_vars => [ServedWhole]_vars  BY Stepwise
<1> QED  BY Remembered, <1>1, PTL DEF Spec, NoGapServed, ServedWhole

-----------------------------------------------------------------------------
(* The log: induction over data by the least counterexample.                *)

\* Every set of naturals has a least one: induction, without an operator as a parameter.
LEMMA Smallest ==
    ASSUME NEW T \in SUBSET Nat, T # {}
    PROVE  \E n \in T : \A m \in T : n <= m
<1> DEFINE R == OpToRel(<, Nat)
<1>1. IsWellFoundedOn(R, Nat)  BY NatLessThanWellFounded
<1>2. \A x, y \in Nat : x < y => <<x, y>> \in R  BY DEF OpToRel
<1> HIDE DEF R
<1>3. PICK x \in T : \A y \in T : ~(<<y, x>> \in R)  BY <1>1, WFMin
<1>4. \A y \in T : ~(y < x)  BY <1>2, <1>3, Zenon
<1>5. x \in Nat /\ \A y \in T : y \in Nat  OBVIOUS
<1>6. \A y \in T : x <= y  BY <1>4, <1>5
<1> QED  BY <1>6

\* What Kept computes, unfolded: its function exists, one value after the other.
KeptStep(s, S, f, n) ==
    IF n = 0 THEN <<>> ELSE IF s[n] \in S THEN Append(f[n - 1], s[n]) ELSE f[n - 1]

\* That function exists.
LEMMA KeptDefined ==
    ASSUME NEW s, Len(s) \in Nat, NEW S
    PROVE  \E f : /\ f = [m \in 0 .. Len(s) |-> KeptStep(s, S, f, m)]
                  /\ Kept(s, S) = f[Len(s)]
<1> DEFINE E(k) == \E f : f = [m \in 0 .. k |-> KeptStep(s, S, f, m)]
           T == {k \in Nat : ~E(k)}
<1>1. E(0)
  <2> DEFINE f == [m \in 0 .. 0 |-> <<>>]
  <2>1. f = [m \in 0 .. 0 |-> KeptStep(s, S, f, m)]  BY DEF KeptStep
  <2> QED  BY <2>1
<1>2. ASSUME NEW k \in Nat, E(k)  PROVE E(k + 1)
  <2>1. PICK f : f = [m \in 0 .. k |-> KeptStep(s, S, f, m)]  BY <1>2
  <2> DEFINE e == KeptStep(s, S, f, k + 1)
             g == [m \in 0 .. k + 1 |-> IF m <= k THEN f[m] ELSE e]
  <2>2. ASSUME NEW m \in 0 .. k + 1  PROVE g[m] = KeptStep(s, S, g, m)
    <3>1. CASE m <= k
      <4>1. g[m] = f[m] /\ f[m] = KeptStep(s, S, f, m)  BY <2>1, <3>1
      <4>2. m # 0 => g[m - 1] = f[m - 1]  BY <3>1
      <4> QED  BY <4>1, <4>2 DEF KeptStep
    <3>2. CASE m = k + 1
      <4>1. g[m] = e /\ g[m - 1] = f[m - 1]  BY <3>2
      <4> QED  BY <4>1, <3>2 DEF KeptStep
    <3> QED  BY <3>1, <3>2
  <2>3. g = [m \in 0 .. k + 1 |-> KeptStep(s, S, g, m)]  BY <2>2
  <2> QED  BY <2>3
<1> HIDE DEF E
<1>3. T = {}
  <2> SUFFICES ASSUME T # {}  PROVE FALSE
    OBVIOUS
  <2>1. PICK k \in T : \A m \in T : k <= m  BY Smallest
  <2>2. k # 0  BY <1>1, <2>1
  <2>3. k - 1 \in Nat /\ E(k - 1)  BY <2>1, <2>2
  <2>4. E((k - 1) + 1)  BY <2>3, <1>2
  <2> QED  BY <2>1, <2>4
<1>4. E(Len(s))  BY <1>3
<1> USE DEF E
<1> DEFINE P(f) == f = [m \in 0 .. Len(s) |-> KeptStep(s, S, f, m)]
<1>5. P(CHOOSE f : P(f))  BY <1>4
<1>6. Kept(s, S) = (CHOOSE f : P(f))[Len(s)]  BY DEF Kept, KeptStep
<1> QED  BY <1>5, <1>6

\* The values of that function: sequences of the elements seen so far that are in S.
KeptSoFar(R, s, S, q, n) ==
    /\ q \in Seq(R)
    /\ \A j \in DOMAIN q : \E i \in 1 .. n : q[j] = s[i] /\ s[i] \in S
    /\ \A i \in 1 .. n : s[i] \in S => \E j \in DOMAIN q : q[j] = s[i]
    /\ IsInjective(s) => IsInjective(q)

\* Kept picks its elements from s, in their order and as often as they occur.
LEMMA KeptFacts ==
    ASSUME NEW R, NEW s \in Seq(R), NEW S
    PROVE  /\ Kept(s, S) \in Seq(R)
           /\ ToSet(Kept(s, S)) = ToSet(s) \cap S
           /\ IsInjective(s) => IsInjective(Kept(s, S))
<1>1. Len(s) \in Nat /\ DOMAIN s = 1 .. Len(s)  BY LenProperties
<1>2. PICK f : /\ f = [m \in 0 .. Len(s) |-> KeptStep(s, S, f, m)]
               /\ Kept(s, S) = f[Len(s)]
  BY <1>1, KeptDefined
<1>3. \A m \in 0 .. Len(s) : f[m] = KeptStep(s, S, f, m)
  BY <1>2, Zenon
<1> DEFINE T == {n \in 0 .. Len(s) : ~KeptSoFar(R, s, S, f[n], n)}
<1>4. f[0] = <<>>  BY <1>1, <1>3 DEF KeptStep
<1>5. KeptSoFar(R, s, S, f[0], 0)  BY <1>4 DEF KeptSoFar, IsInjective
<1>6. ASSUME NEW n \in 1 .. Len(s), KeptSoFar(R, s, S, f[n - 1], n - 1)
      PROVE  KeptSoFar(R, s, S, f[n], n)
  <2> DEFINE p == f[n - 1]
             q == f[n]
  <2>1. q = IF s[n] \in S THEN Append(p, s[n]) ELSE p
    BY <1>1, <1>3 DEF KeptStep
  <2>2. s[n] \in R  BY <1>1
  <2> HIDE DEF p, q
  <2>3. KeptSoFar(R, s, S, p, n - 1)  BY <1>6 DEF p
  <2>4. CASE s[n] \notin S
    BY <1>1, <2>1, <2>3, <2>4 DEF KeptSoFar, q
  <2>5. CASE s[n] \in S
    <3>1. q = Append(p, s[n]) /\ p \in Seq(R)  BY <2>1, <2>3, <2>5 DEF KeptSoFar
    <3>2. /\ q \in Seq(R) /\ DOMAIN p = 1 .. Len(p) /\ DOMAIN q = 1 .. Len(p) + 1
          /\ Len(p) \in Nat /\ q[Len(p) + 1] = s[n] /\ \A j \in 1 .. Len(p) : q[j] = p[j]
      BY <2>2, <3>1
    <3>3. \A j \in DOMAIN q : \E i \in 1 .. n : q[j] = s[i] /\ s[i] \in S
      BY <1>1, <2>3, <2>5, <3>2 DEF KeptSoFar
    <3>4. \A i \in 1 .. n : s[i] \in S => \E j \in DOMAIN q : q[j] = s[i]
      BY <1>1, <2>3, <2>5, <3>2 DEF KeptSoFar
    <3>5. ASSUME IsInjective(s)  PROVE IsInjective(q)
      <4>1. \A j \in DOMAIN p : p[j] # s[n]
        <5> SUFFICES ASSUME NEW j \in DOMAIN p, p[j] = s[n]  PROVE FALSE
          OBVIOUS
        <5>1. PICK i \in 1 .. n - 1 : p[j] = s[i]  BY <2>3 DEF KeptSoFar
        <5>2. i \in DOMAIN s /\ n \in DOMAIN s /\ i # n  BY <1>1
        <5> QED  BY <3>5, <5>1, <5>2 DEF IsInjective
      <4>2. IsInjective(p)  BY <2>3, <3>5 DEF KeptSoFar
      <4> QED  BY <3>2, <4>1, <4>2 DEF IsInjective
    <3> QED  BY <3>2, <3>3, <3>4, <3>5 DEF KeptSoFar, q
  <2> QED  BY <2>4, <2>5
<1>7. T = {}
  <2> SUFFICES ASSUME T # {}  PROVE FALSE
    OBVIOUS
  <2>1. T \in SUBSET Nat  BY <1>1
  <2> HIDE DEF T
  <2>2. PICK k \in T : \A m \in T : k <= m  BY <2>1, Smallest
  <2> USE DEF T
  <2>3. k # 0  BY <1>5, <2>2
  <2>4. k \in 1 .. Len(s) /\ k - 1 \notin T /\ k - 1 \in 0 .. Len(s)  BY <1>1, <2>2, <2>3
  <2> QED  BY <2>2, <2>4, <1>6
<1>8. KeptSoFar(R, s, S, Kept(s, S), Len(s))  BY <1>1, <1>2, <1>7
<1> DEFINE q == Kept(s, S)
<1>9. /\ q \in Seq(R)
      /\ IsInjective(s) => IsInjective(q)
      /\ \A j \in DOMAIN q : \E i \in DOMAIN s : q[j] = s[i] /\ s[i] \in S
      /\ \A i \in DOMAIN s : s[i] \in S => \E j \in DOMAIN q : q[j] = s[i]
  BY <1>1, <1>8 DEF KeptSoFar
<1> HIDE DEF q
<1>10. ToSet(q) = ToSet(s) \cap S  BY <1>9 DEF ToSet
<1> QED  BY <1>9, <1>10 DEF q

-----------------------------------------------------------------------------
(* Sequences.                                                              *)

\* What a flush of n events makes of the rows a and the queue b.
Taken(a, b, n) == a \o SubSeq(b, 1, n)
Left(b, n) == SubSeq(b, n + 1, Len(b))

CutsAt(R, a, b, n) ==
    /\ Taken(a, b, n) \in Seq(R) /\ Left(b, n) \in Seq(R)
    /\ Taken(a, b, n) \o Left(b, n) = a \o b
    /\ Len(Taken(a, b, n)) = Len(a) + n
    /\ Len(Left(b, n)) = Len(b) - n
    /\ \A i \in 1 .. Len(a) : Taken(a, b, n)[i] = a[i]
    /\ \A i \in 1 .. n : Taken(a, b, n)[Len(a) + i] = b[i]
    /\ \A i \in 1 .. Len(b) - n : Left(b, n)[i] = b[n + i]

\* Where a flush cuts the queue nothing is lost, added or moved.
LEMMA CutFacts ==
    ASSUME NEW R, NEW a \in Seq(R), NEW b \in Seq(R), NEW n \in 0 .. Len(b)
    PROVE  CutsAt(R, a, b, n)
<1> DEFINE c == SubSeq(b, 1, n)
           d == SubSeq(b, n + 1, Len(b))
<1>1. /\ Len(a) \in Nat /\ Len(b) \in Nat /\ n \in Nat /\ n <= Len(b)
      /\ \A i \in 1 .. Len(b) : b[i] \in R
  BY LenProperties
<1>2. c \in Seq(R) /\ Len(c) = n /\ \A i \in 1 .. n : c[i] = b[i]
  BY <1>1, SubSeqProperties
<1>3. d \in Seq(R) /\ Len(d) = Len(b) - n /\ \A i \in 1 .. Len(b) - n : d[i] = b[n + i]
  BY <1>1, SubSeqProperties
<1> HIDE DEF c, d
<1>4. /\ a \o c \in Seq(R) /\ Len(a \o c) = Len(a) + n
      /\ \A i \in 1 .. Len(a) + n : (a \o c)[i] = IF i <= Len(a) THEN a[i] ELSE c[i - Len(a)]
  BY <1>1, <1>2, ConcatProperties
<1>5. /\ a \o b \in Seq(R) /\ Len(a \o b) = Len(a) + Len(b)
      /\ \A i \in 1 .. Len(a) + Len(b) : (a \o b)[i] = IF i <= Len(a) THEN a[i] ELSE b[i - Len(a)]
  BY <1>1, ConcatProperties
<1> DEFINE e == a \o c
<1> HIDE DEF e
<1>6. /\ e \in Seq(R) /\ Len(e) = Len(a) + n
      /\ \A i \in 1 .. Len(a) : e[i] = a[i]
      /\ \A i \in 1 .. n : e[Len(a) + i] = b[i]
  BY <1>1, <1>2, <1>4 DEF e
<1>7. /\ e \o d \in Seq(R) /\ Len(e \o d) = Len(a) + Len(b)
      /\ \A i \in 1 .. Len(a) + Len(b) : (e \o d)[i] = IF i <= Len(e) THEN e[i] ELSE d[i - Len(e)]
  <2>1. /\ e \o d \in Seq(R) /\ Len(e \o d) = Len(e) + Len(d)
        /\ \A i \in 1 .. Len(e) + Len(d) : (e \o d)[i] = IF i <= Len(e) THEN e[i] ELSE d[i - Len(e)]
    BY <1>3, <1>6, ConcatProperties
  <2>2. Len(e) + Len(d) = Len(a) + Len(b)  BY <1>1, <1>3, <1>6
  <2> QED  BY <2>1, <2>2
<1>8. ASSUME NEW i \in 1 .. Len(a) + Len(b)  PROVE (e \o d)[i] = (a \o b)[i]
  <2>1. CASE i <= Len(a)  BY <1>1, <1>5, <1>6, <1>7, <2>1
  <2>2. CASE Len(a) < i /\ i <= Len(a) + n
    <3>1. i - Len(a) \in 1 .. n  BY <1>1, <2>2
    <3>2. e[Len(a) + (i - Len(a))] = b[i - Len(a)]  BY <1>6, <3>1
    <3> QED  BY <1>1, <1>5, <1>6, <1>7, <2>2, <3>2
  <2>3. CASE Len(a) + n < i
    <3>1. i - Len(e) \in 1 .. Len(b) - n  BY <1>1, <1>6, <2>3
    <3>2. d[i - Len(e)] = b[n + (i - Len(e))]  BY <1>3, <3>1
    <3>3. n + (i - Len(e)) = i - Len(a) /\ ~(i <= Len(e)) /\ ~(i <= Len(a))  BY <1>1, <1>6, <2>3
    <3>4. (e \o d)[i] = b[i - Len(a)]  BY <1>7, <3>2, <3>3
    <3>5. (a \o b)[i] = b[i - Len(a)]  BY <1>5, <3>3
    <3> QED  BY <3>4, <3>5
  <2>4. i <= Len(a) \/ (Len(a) < i /\ i <= Len(a) + n) \/ Len(a) + n < i  BY <1>1
  <2> QED  BY <2>1, <2>2, <2>3, <2>4
<1>9. e \o d = a \o b  BY <1>5, <1>7, <1>8, SeqEqual
<1> QED  BY <1>3, <1>6, <1>9 DEF e, c, d, Taken, Left, CutsAt

\* An element of a concatenation comes from one of its parts.
LEMMA Joined ==
    ASSUME NEW R, NEW s \in Seq(R), NEW q \in Seq(R)
    PROVE  /\ s \o q \in Seq(R) /\ ToSet(s \o q) = ToSet(s) \cup ToSet(q)
           /\ IsInjective(s) /\ IsInjective(q) /\ ToSet(s) \cap ToSet(q) = {} => IsInjective(s \o q)
<1>1. /\ Len(s) \in Nat /\ Len(q) \in Nat
      /\ DOMAIN s = 1 .. Len(s) /\ DOMAIN q = 1 .. Len(q)
  BY LenProperties
<1> DEFINE r == s \o q
<1>2. /\ r \in Seq(R) /\ Len(r) = Len(s) + Len(q) /\ DOMAIN r = 1 .. Len(s) + Len(q)
      /\ \A i \in 1 .. Len(s) + Len(q) : r[i] = IF i <= Len(s) THEN s[i] ELSE q[i - Len(s)]
  BY ConcatProperties, LenProperties
<1> HIDE DEF r
<1>3. \A i \in DOMAIN s : i \in DOMAIN r /\ r[i] = s[i]  BY <1>1, <1>2
<1>4. \A i \in DOMAIN q : i + Len(s) \in DOMAIN r /\ r[i + Len(s)] = q[i]  BY <1>1, <1>2
<1>5. \A i \in DOMAIN r : \/ i \in DOMAIN s /\ r[i] = s[i]
                          \/ i - Len(s) \in DOMAIN q /\ r[i] = q[i - Len(s)] /\ i > Len(s)
  BY <1>1, <1>2
<1>6. ToSet(r) = ToSet(s) \cup ToSet(q)  BY <1>3, <1>4, <1>5 DEF ToSet
<1>7. ASSUME IsInjective(s), IsInjective(q), ToSet(s) \cap ToSet(q) = {},
             NEW i \in DOMAIN r, NEW j \in DOMAIN r, r[i] = r[j]
      PROVE  i = j
  <2>1. \A x \in DOMAIN s, y \in DOMAIN q : s[x] # q[y]  BY <1>7 DEF ToSet
  <2>2. i \in Int /\ j \in Int  BY <1>1, <1>2
  <2>3. CASE i \in DOMAIN s /\ r[i] = s[i]
    <3>1. j \in DOMAIN s /\ r[j] = s[j]  BY <1>5, <1>7, <2>1, <2>3
    <3> QED  BY <1>7, <2>3, <3>1 DEF IsInjective
  <2>4. CASE i - Len(s) \in DOMAIN q /\ r[i] = q[i - Len(s)]
    <3>1. j - Len(s) \in DOMAIN q /\ r[j] = q[j - Len(s)]  BY <1>5, <1>7, <2>1, <2>4
    <3>2. i - Len(s) = j - Len(s)  BY <1>7, <2>4, <3>1 DEF IsInjective
    <3> QED  BY <1>1, <2>2, <3>2
  <2> QED  BY <1>5, <2>3, <2>4
<1>8. IsInjective(s) /\ IsInjective(q) /\ ToSet(s) \cap ToSet(q) = {} => IsInjective(r)
  BY <1>7 DEF IsInjective
<1> QED  BY <1>2, <1>6, <1>8 DEF r

\* Whoever comes last in the queue comes last of all.
LastOfAll(a, b, e) == a \o Append(b, e) = Append(a \o b, e)
\* Appending to the queue appends to rows and queue.
LEMMA AppendedLast ==
    ASSUME NEW R, NEW a \in Seq(R), NEW b \in Seq(R), NEW e \in R
    PROVE  LastOfAll(a, b, e)
<1> DEFINE o == <<e>>
<1>1. o \in Seq(R)  OBVIOUS
<1>2. \A s \in Seq(R) : Append(s, e) = s \o o
  <2> SUFFICES ASSUME NEW s \in Seq(R)  PROVE Append(s, e) = s \o o
    OBVIOUS
  <2> DEFINE p == Append(s, e)
             z == s \o o
  <2>1. /\ Len(s) \in Nat /\ p \in Seq(R) /\ Len(p) = Len(s) + 1
        /\ \A i \in 1 .. Len(s) : p[i] = s[i]
        /\ p[Len(s) + 1] = e
    OBVIOUS
  <2>2. Len(o) = 1 /\ o[1] = e  OBVIOUS
  <2> HIDE DEF o
  <2>3. /\ z \in Seq(R) /\ Len(z) = Len(s) + Len(o)
        /\ \A i \in 1 .. Len(s) + Len(o) : z[i] = IF i <= Len(s) THEN s[i] ELSE o[i - Len(s)]
    BY <1>1, ConcatProperties
  <2> HIDE DEF z, p
  <2>4. ASSUME NEW i \in 1 .. Len(z)  PROVE z[i] = p[i]
    <3>1. CASE i <= Len(s)  BY <2>1, <2>2, <2>3, <3>1
    <3>2. CASE i = Len(s) + 1
      <4>1. i - Len(s) = 1  BY <2>1, <3>2
      <4> QED  BY <2>1, <2>2, <2>3, <3>2, <4>1
    <3> QED  BY <2>1, <2>2, <2>3, <3>1, <3>2
  <2>5. Len(z) = Len(p)  BY <2>1, <2>2, <2>3
  <2>6. z = p  BY <2>1, <2>3, <2>4, <2>5, SeqEqual
  <2> QED  BY <2>6 DEF z, p
<1> HIDE DEF o
<1>3. a \o b \in Seq(R)  BY ConcatProperties
<1>4. (a \o b) \o o = a \o (b \o o)  BY <1>1, ConcatAssociative
<1> QED  BY <1>2, <1>3, <1>4 DEF LastOfAll

\* A newest element goes last.
LEMMA OrderedLast ==
    ASSUME NEW q \in Seq(Int), InOrder(q), NEW e \in Int, \A i \in DOMAIN q : q[i] < e
    PROVE  InOrder(Append(q, e))
<1> DEFINE r == Append(q, e)
<1>1. /\ Len(q) \in Nat /\ DOMAIN q = 1 .. Len(q) /\ DOMAIN r = 1 .. Len(q) + 1
      /\ \A i \in 1 .. Len(q) : r[i] = q[i]
      /\ r[Len(q) + 1] = e
  OBVIOUS
<1> HIDE DEF r
<1> QED  BY <1>1 DEF InOrder, r

\* What holds of every element of two sequences holds of their concatenation.
LEMMA Both ==
    ASSUME NEW R, NEW a \in Seq(R), NEW b \in Seq(R), NEW i \in DOMAIN (a \o b)
    PROVE  \/ i \in DOMAIN a /\ (a \o b)[i] = a[i]
           \/ i - Len(a) \in DOMAIN b /\ (a \o b)[i] = b[i - Len(a)]
<1>1. /\ Len(a) \in Nat /\ Len(b) \in Nat
      /\ DOMAIN a = 1 .. Len(a) /\ DOMAIN b = 1 .. Len(b)
  BY LenProperties
<1>2. /\ DOMAIN (a \o b) = 1 .. Len(a) + Len(b)
      /\ \A n \in 1 .. Len(a) + Len(b) : (a \o b)[n] = IF n <= Len(a) THEN a[n] ELSE b[n - Len(a)]
  BY ConcatProperties, LenProperties
<1> QED  BY <1>1, <1>2

\* What is left when rows a are cut after the k-th, with the queue b behind them.
ShortensTo(R, a, b, k) ==
    LET c == SubSeq(a, 1, k)
    IN /\ c \in Seq(R) /\ Len(c) = k
       /\ \A i \in 1 .. k : c[i] = a[i]
       /\ InOrder(a \o b) => InOrder(c \o b)
       /\ c \o b = SubSeq(a \o b, 1, k) \o SubSeq(a \o b, Len(a) + 1, Len(a \o b))
       /\ Len(a) <= Len(a \o b)
\* Cutting rows keeps the order of what stays.
LEMMA Shortened ==
    ASSUME NEW R, NEW a \in Seq(R), NEW b \in Seq(R), NEW k \in 0 .. Len(a)
    PROVE  ShortensTo(R, a, b, k)
<1> DEFINE c == SubSeq(a, 1, k)
           q == a \o b
           z == c \o b
<1>1. /\ Len(a) \in Nat /\ Len(b) \in Nat /\ k \in Nat /\ k <= Len(a)
      /\ DOMAIN a = 1 .. Len(a) /\ DOMAIN b = 1 .. Len(b)
      /\ \A i \in 1 .. Len(a) : a[i] \in R
  BY LenProperties
<1>2. c \in Seq(R) /\ Len(c) = k /\ \A i \in 1 .. k : c[i] = a[i]
  BY <1>1, SubSeqProperties
<1> HIDE DEF c
<1>3. /\ q \in Seq(R) /\ Len(q) = Len(a) + Len(b) /\ DOMAIN q = 1 .. Len(a) + Len(b)
      /\ \A i \in 1 .. Len(a) + Len(b) : q[i] = IF i <= Len(a) THEN a[i] ELSE b[i - Len(a)]
  BY <1>1, ConcatProperties, LenProperties
<1>4. /\ z \in Seq(R) /\ DOMAIN z = 1 .. k + Len(b)
      /\ \A i \in 1 .. k + Len(b) : z[i] = IF i <= k THEN c[i] ELSE b[i - k]
  <2>1. /\ z \in Seq(R) /\ Len(z) = Len(c) + Len(b)
        /\ \A i \in 1 .. Len(c) + Len(b) : z[i] = IF i <= Len(c) THEN c[i] ELSE b[i - Len(c)]
    BY <1>2, ConcatProperties
  <2>2. DOMAIN z = 1 .. Len(z)  BY <2>1, LenProperties
  <2> HIDE DEF z
  <2> QED  BY <1>2, <2>1, <2>2
<1>5. SubSeq(q, 1, k) = c
  <2>1. CASE k = 0
    <3>1. SubSeq(q, 1, k) = <<>> /\ SubSeq(a, 1, k) = <<>>  BY <2>1, SubSeqEmpty
    <3> QED  BY <3>1 DEF c
  <2>2. CASE k # 0
    <3>1. 1 \in 1 .. Len(a) /\ k \in 1 .. Len(a)  BY <1>1, <2>2
    <3>2. SubSeq(a \o b, 1, k) = SubSeq(a, 1, k)  BY <3>1, SubSeqOfConcat1
    <3> QED  BY <3>2 DEF c
  <2> QED  BY <2>1, <2>2
<1>6. SubSeq(q, Len(a) + 1, Len(q)) = b
  <2> DEFINE d == SubSeq(q, Len(a) + 1, Len(q))
  <2> HIDE DEF q
  <2>1. \A i \in Len(a) + 1 .. Len(q) : q[i] \in R  BY <1>1, <1>3
  <2>2. Len(a) + 1 \in Int /\ Len(q) \in Int  BY <1>1, <1>3
  <2>3. /\ d \in Seq(R) /\ Len(d) = IF Len(a) + 1 <= Len(q) THEN Len(q) - (Len(a) + 1) + 1 ELSE 0
        /\ \A i \in 1 .. Len(q) - (Len(a) + 1) + 1 : d[i] = q[(Len(a) + 1) + i - 1]
    BY <2>1, <2>2, SubSeqProperties
  <2> HIDE DEF d
  <2>4. Len(d) = Len(b)  BY <1>1, <1>3, <2>3
  <2>5. ASSUME NEW i \in 1 .. Len(d)  PROVE d[i] = b[i]
    <3>1. d[i] = q[(Len(a) + 1) + i - 1] /\ (Len(a) + 1) + i - 1 = Len(a) + i
      BY <1>1, <1>3, <2>3, <2>4
    <3>2. q[Len(a) + i] = b[(Len(a) + i) - Len(a)]  BY <1>1, <1>3, <2>4
    <3>3. (Len(a) + i) - Len(a) = i  BY <1>1, <2>4
    <3> QED  BY <3>1, <3>2, <3>3
  <2>6. d = b  BY <2>3, <2>4, <2>5, SeqEqual
  <2> QED  BY <2>6 DEF d, q
<1> HIDE DEF q, z
<1>7. ASSUME InOrder(q)  PROVE InOrder(z)
  <2> SUFFICES ASSUME NEW i \in DOMAIN z, NEW j \in DOMAIN z, i < j  PROVE z[i] < z[j]
    BY DEF InOrder
  <2> DEFINE g(n) == IF n <= k THEN n ELSE n - k + Len(a)
  <2>1. ASSUME NEW n \in DOMAIN z  PROVE g(n) \in DOMAIN q /\ z[n] = q[g(n)]
    <3>1. CASE n <= k  BY <1>1, <1>2, <1>3, <1>4, <3>1
    <3>2. CASE ~(n <= k)
      <4>1. n - k + Len(a) \in DOMAIN q  BY <1>1, <1>3, <1>4, <3>2
      <4>2. (n - k + Len(a)) - Len(a) = n - k /\ ~(n - k + Len(a) <= Len(a))
        BY <1>1, <1>4, <3>2
      <4>3. q[n - k + Len(a)] = b[n - k]  BY <1>3, <4>1, <4>2
      <4> QED  BY <1>4, <3>2, <4>1, <4>3
    <3> QED  BY <3>1, <3>2
  <2>2. g(i) < g(j)  BY <1>1, <1>4
  <2> HIDE DEF g
  <2> QED  BY <1>7, <2>1, <2>2 DEF InOrder
<1>8. Len(a) <= Len(q)  BY <1>1, <1>3
<1> QED  BY <1>2, <1>5, <1>6, <1>7, <1>8 DEF ShortensTo, c, q, z

\* An element of a sequence stands at one of its indices.
LEMMA InSeq ==
    ASSUME NEW R, NEW s \in Seq(R), NEW x \in ToSet(s)
    PROVE  x \in R
  BY DEF ToSet

\* What Append adds.
LEMMA Appended ==
    ASSUME NEW R, NEW s \in Seq(R), NEW x \in R
    PROVE  /\ Append(s, x) \in Seq(R) /\ ToSet(Append(s, x)) = ToSet(s) \cup {x}
           /\ IsInjective(s) /\ x \notin ToSet(s) => IsInjective(Append(s, x))
<1> DEFINE r == Append(s, x)
<1>1. /\ Len(s) \in Nat /\ DOMAIN s = 1 .. Len(s) /\ r \in Seq(R) /\ DOMAIN r = 1 .. Len(s) + 1
      /\ r[Len(s) + 1] = x /\ \A i \in 1 .. Len(s) : r[i] = s[i]
  OBVIOUS
<1> HIDE DEF r
<1>2. ToSet(r) = ToSet(s) \cup {x}
  <2>1. \A i \in DOMAIN r : (i \in DOMAIN s /\ r[i] = s[i]) \/ r[i] = x  BY <1>1
  <2>2. \A i \in DOMAIN s : i \in DOMAIN r /\ r[i] = s[i]  BY <1>1
  <2>3. \E i \in DOMAIN r : r[i] = x  BY <1>1
  <2> QED  BY <2>1, <2>2, <2>3 DEF ToSet
<1>3. ASSUME IsInjective(s), x \notin ToSet(s)  PROVE IsInjective(r)
  <2>1. \A i \in 1 .. Len(s) : s[i] # x  BY <1>1, <1>3 DEF ToSet
  <2> QED  BY <1>1, <1>3, <2>1 DEF IsInjective
<1> QED  BY <1>1, <1>2, <1>3 DEF r

\* A sequence is its head and its tail.
LEMMA Split ==
    ASSUME NEW R, NEW s \in Seq(R), s # <<>>
    PROVE  /\ Head(s) \in ToSet(s) /\ Head(s) \in R /\ Tail(s) \in Seq(R)
           /\ ToSet(Tail(s)) \subseteq ToSet(s)
           /\ IsInjective(s) => IsInjective(Tail(s)) /\ Head(s) \notin ToSet(Tail(s))
<1> DEFINE r == Tail(s)
           h == Head(s)
<1>1. /\ Len(s) \in Nat \ {0} /\ DOMAIN s = 1 .. Len(s) /\ r \in Seq(R) /\ h = s[1] /\ h \in R
      /\ DOMAIN r = 1 .. Len(s) - 1 /\ \A i \in 1 .. Len(s) - 1 : r[i] = s[i + 1]
  OBVIOUS
<1> HIDE DEF r, h
<1>2. h \in ToSet(s)  BY <1>1 DEF ToSet
<1>3. \A i \in DOMAIN r : i + 1 \in DOMAIN s /\ i + 1 # 1 /\ r[i] = s[i + 1] /\ i \in Int
  BY <1>1
<1>4. ToSet(r) \subseteq ToSet(s)  BY <1>3 DEF ToSet
<1>5. ASSUME IsInjective(s)  PROVE IsInjective(r) /\ h \notin ToSet(r)
  <2>1. IsInjective(r)
    <3> SUFFICES ASSUME NEW i \in DOMAIN r, NEW j \in DOMAIN r, r[i] = r[j]  PROVE i = j
      BY DEF IsInjective
    <3>1. i + 1 = j + 1  BY <1>3, <1>5 DEF IsInjective
    <3> QED  BY <1>3, <3>1
  <2>2. ASSUME NEW i \in DOMAIN r, r[i] = h  PROVE FALSE
    <3>1. 1 \in DOMAIN s  BY <1>1
    <3> QED  BY <1>1, <1>3, <1>5, <2>2, <3>1 DEF IsInjective
  <2> QED  BY <2>1, <2>2 DEF ToSet
<1> QED  BY <1>1, <1>2, <1>4, <1>5 DEF r, h

-----------------------------------------------------------------------------
(* Where the host stands between two operators.                            *)

Held == Unsettled \ {"cancelled"}
All(w, t) == w.log[t] \o w.pending[t]

\* Rows and queue together are in order, and nothing is numbered ahead of the counters.
RowsOK(w) ==
    \A t \in Threads :
        /\ InOrder(All(w, t))
        /\ \A i \in DOMAIN w.log[t] : w.log[t][i] < w.next
        /\ \A i \in DOMAIN w.pending[t] : w.pending[t][i] <= w.last[t]
        /\ w.last[t] < w.next
\* A line holds each request once, while it is under way and keeps its claim on the thread.
LinesOK(w) ==
    \A t \in Threads :
        /\ IsInjective(w.line[t])
        /\ \A x \in ToSet(w.line[t]) : On(w, x) = t /\ w.req[x].pc \in Held /\ x \notin w.freed
\* A continuation is due once, to a request that was granted the thread or cancelled.
MicroOK(w) ==
    /\ IsInjective(w.micro)
    /\ \A x \in ToSet(w.micro) : w.req[x].pc \in {"granted", "cancelled"}
MadeOK(w) ==
    \A x \in Requests :
        /\ w.req[x].pc # "new" => On(w, x) \in Threads /\ w.req[x].kind # "none"
        /\ x \in w.freed => w.req[x].pc # "new"
        /\ IsFence(w, x) => w.req[x].through < w.req[x].mark
\* A pin has an owner: a reader under way that has not given it up.
PinsOK(w) ==
    \A t \in Threads :
        \/ w.pin[t] = Unpinned
        \/ \E x \in Requests : On(w, x) = t /\ IsFence(w, x) /\ w.req[x].pc \in Unsettled
                                   /\ x \notin w.freed
Steady(w) == LinesOK(w) /\ MicroOK(w) /\ MadeOK(w) /\ PinsOK(w)
Sound(w) == w \in Hosts /\ RowsOK(w) /\ Steady(w)

\* The order of the rows depends on rows, queue and counters only.
LEMMA RowFrame ==
    ASSUME NEW w, RowsOK(w), NEW v, v.log = w.log, v.pending = w.pending, v.last = w.last,
           v.next = w.next
    PROVE  RowsOK(v)
  BY DEF RowsOK, All

\* The state of the lines depends on lines, requests, continuations, tokens and pins only.
LEMMA LineFrame ==
    ASSUME NEW w, Steady(w), NEW v, v.line = w.line, v.req = w.req, v.micro = w.micro,
           v.freed = w.freed, v.pin = w.pin
    PROVE  Steady(v)
  BY DEF Steady, LinesOK, MicroOK, MadeOK, PinsOK, On, IsFence

\* How many events a flush may write: at most what is pending, all of it when nothing
\* stops the flush; and they are the oldest.
LEMMA DueFacts ==
    ASSUME NEW w \in Hosts, RowsOK(w), NEW t \in Threads, NEW b \in Int
    PROVE  /\ Due(w, t, b) \in 0 .. Len(w.pending[t])
           /\ w.pin[t] = Unpinned /\ b = MaxSeq => Due(w, t, b) = Len(w.pending[t])
           /\ \A i \in DOMAIN w.pending[t] :
                w.pending[t][i] <= Least(b, w.pin[t]) <=> i <= Due(w, t, b)
<1> DEFINE p == w.pending[t]
           k == Least(b, w.pin[t])
           I == {i \in DOMAIN p : p[i] <= k}
<1>1. /\ p \in Seq(1 .. MaxSeq) /\ Len(p) \in Nat /\ DOMAIN p = 1 .. Len(p)
      /\ w.pin[t] \in 0 .. Unpinned
  BY DEF Hosts
<1>2. MaxSeq \in Nat  BY QueueAssumption
<1>3. k \in Int  BY <1>1, <1>2 DEF Least, Unpinned
<1>4. \A i \in DOMAIN p : p[i] \in Int  BY <1>1, <1>2
<1>5. \A i, j \in DOMAIN p : i < j => p[i] < p[j]
  <2> SUFFICES ASSUME NEW i \in DOMAIN p, NEW j \in DOMAIN p, i < j  PROVE p[i] < p[j]
    OBVIOUS
  <2> DEFINE a == w.log[t]
             q == a \o p
  <2>1. a \in Seq(1 .. MaxSeq) /\ Len(a) \in Nat  BY DEF Hosts
  <2>2. InOrder(q)  BY DEF RowsOK, All
  <2> HIDE DEF a, p
  <2>3. /\ DOMAIN q = 1 .. Len(a) + Len(p)
        /\ \A n \in 1 .. Len(a) + Len(p) : q[n] = IF n <= Len(a) THEN a[n] ELSE p[n - Len(a)]
    BY <1>1, <2>1, ConcatProperties, LenProperties
  <2> HIDE DEF q
  <2>4. i + Len(a) \in DOMAIN q /\ j + Len(a) \in DOMAIN q /\ i + Len(a) < j + Len(a)
    BY <1>1, <2>1, <2>3
  <2>5. q[i + Len(a)] = p[i] /\ q[j + Len(a)] = p[j]  BY <1>1, <2>1, <2>3, <2>4
  <2> QED  BY <2>2, <2>4, <2>5 DEF InOrder
<1>6. Due(w, t, b) = Cardinality(I)  BY DEF Due
<1> HIDE DEF p, k
<1>7. PICK m \in 0 .. Len(p) : I = 1 .. m
  <2> DEFINE T == {n \in Nat : n + 1 \notin I}
  <2>1. Len(p) \in T /\ T \in SUBSET Nat  BY <1>1
  <2> HIDE DEF T
  <2>2. PICK m \in T : \A n \in T : m <= n  BY <2>1, Smallest
  <2> USE DEF T
  <2>3. m \in Nat /\ m + 1 \notin I /\ m <= Len(p)  BY <2>1, <2>2
  <2>4. ASSUME NEW i \in 1 .. m  PROVE i \in I
    <3>1. i - 1 \in Nat /\ ~(m <= i - 1)  BY <2>3
    <3>2. (i - 1) + 1 \in I  BY <2>2, <3>1
    <3> QED  BY <3>2
  <2>5. ASSUME NEW i \in I  PROVE i \in 1 .. m
    <3> SUFFICES ASSUME ~(i <= m)  PROVE FALSE
      BY <1>1, <2>3
    <3>1. m + 1 \in DOMAIN p /\ m + 1 <= i /\ i \in DOMAIN p  BY <1>1, <2>3
    <3>2. p[m + 1] <= p[i]  BY <1>1, <1>4, <1>5, <2>3, <3>1, SMTT(30)
    <3> QED  BY <1>3, <1>4, <2>3, <3>1, <3>2
  <2> HIDE DEF I
  <2>6. I = 1 .. m  BY <2>4, <2>5
  <2>7. m \in 0 .. Len(p)  BY <1>1, <2>3
  <2> QED  BY <2>6, <2>7, Zenon
<1>8. Cardinality(I) = m
  <2>1. Cardinality(1 .. m) = m  BY <1>1, FS_Interval
  <2> HIDE DEF I
  <2> QED  BY <1>7, <2>1
<1>9. w.pin[t] = Unpinned /\ b = MaxSeq => m = Len(p)
  <2> SUFFICES ASSUME w.pin[t] = Unpinned, b = MaxSeq  PROVE m = Len(p)
    OBVIOUS
  <2>1. k = MaxSeq  BY <1>2 DEF k, Least, Unpinned
  <2>2. I = 1 .. Len(p)  BY <1>1, <1>2, <2>1
  <2>3. 1 .. m = 1 .. Len(p)  BY <1>7, <2>2
  <2>4. Len(p) \in 1 .. Len(p) \/ Len(p) = 0  BY <1>1
  <2>5. Len(p) \in 1 .. m \/ Len(p) = 0  BY <2>3, <2>4, Zenon
  <2>6. m \in Nat /\ m <= Len(p) /\ Len(p) \in Nat  BY <1>1
  <2> QED  BY <2>5, <2>6
<1>10. \A i \in DOMAIN p : p[i] <= k <=> i <= m  BY <1>1, <1>7
<1> QED
  <2>1. Due(w, t, b) = m  BY <1>6, <1>8
  <2> QED  BY <1>1, <1>9, <1>10, <2>1 DEF p, k

\* w comes from u by writing what was pending: no event is lost, added or moved.
Flows(u, w) ==
    /\ Sound(w)
    /\ w.next = u.next
    /\ u.gap \subseteq w.gap
    /\ \A t \in Threads : All(w, t) = All(u, t) /\ Len(u.log[t]) <= Len(w.log[t])

\* Steps on the lines write nothing.
LEMMA FlowFrame ==
    ASSUME NEW u, NEW w, Flows(u, w), NEW v \in Hosts, Steady(v), v.log = w.log,
           v.pending = w.pending, v.last = w.last, v.next = w.next, w.gap \subseteq v.gap
    PROVE  Flows(u, v)
  BY RowFrame DEF Flows, Sound, All

\* Steps on the remaining fields disturb neither rows nor lines.
LEMMA Plain ==
    ASSUME NEW u, NEW w, Flows(u, w), NEW v \in Hosts, v.line = w.line, v.req = w.req,
           v.micro = w.micro, v.freed = w.freed, v.pin = w.pin, v.log = w.log,
           v.pending = w.pending, v.last = w.last, v.next = w.next, w.gap \subseteq v.gap
    PROVE  Flows(u, v)
  BY LineFrame, FlowFrame DEF Flows, Sound

\* Writing the oldest events of each thread is a flow.
LEMMA CommitFacts ==
    ASSUME NEW u, NEW w, Flows(u, w), NEW n \in [Threads -> Nat],
           \A t \in Threads : n[t] <= Len(w.pending[t])
    PROVE  Flows(u, Commit(w, n))
<1> DEFINE L(t) == Taken(w.log[t], w.pending[t], n[t])
           P(t) == Left(w.pending[t], n[t])
           f == [t \in Threads |-> L(t)]
           g == [t \in Threads |-> P(t)]
           v == [w EXCEPT !.log = f, !.pending = g]
<1>1. w \in Hosts  BY DEF Flows, Sound
<1>2. ASSUME NEW t \in Threads
      PROVE  /\ w.log[t] \in Seq(1 .. MaxSeq) /\ w.pending[t] \in Seq(1 .. MaxSeq)
             /\ n[t] \in 0 .. Len(w.pending[t]) /\ Len(w.log[t]) \in Nat
             /\ Len(w.pending[t]) \in Nat
  BY <1>1 DEF Hosts
<1>3. ASSUME NEW t \in Threads
      PROVE  /\ L(t) \in Seq(1 .. MaxSeq) /\ P(t) \in Seq(1 .. MaxSeq)
             /\ L(t) \o P(t) = w.log[t] \o w.pending[t]
             /\ Len(L(t)) = Len(w.log[t]) + n[t] /\ Len(P(t)) = Len(w.pending[t]) - n[t]
             /\ \A i \in 1 .. Len(w.log[t]) : L(t)[i] = w.log[t][i]
             /\ \A i \in 1 .. n[t] : L(t)[Len(w.log[t]) + i] = w.pending[t][i]
             /\ \A i \in 1 .. Len(w.pending[t]) - n[t] : P(t)[i] = w.pending[t][n[t] + i]
  <2>1. CutsAt(1 .. MaxSeq, w.log[t], w.pending[t], n[t])  BY <1>2, CutFacts
  <2> QED  BY <2>1 DEF CutsAt
<1> HIDE DEF L, P
<1>4. v \in Hosts
  <2>1. f \in [Threads -> Seq(1 .. MaxSeq)] /\ g \in [Threads -> Seq(1 .. MaxSeq)]  BY <1>3
  <2> HIDE DEF f, g
  <2> QED  BY <1>1, <2>1 DEF Hosts
<1>5. /\ v.log = f /\ v.pending = g /\ v.last = w.last /\ v.next = w.next /\ v.gap = w.gap
      /\ v.line = w.line /\ v.req = w.req /\ v.micro = w.micro /\ v.freed = w.freed
      /\ v.pin = w.pin
  BY <1>1 DEF Hosts
<1>6. Commit(w, n) = v
  <2>1. /\ w.log \in [Threads -> Seq(1 .. MaxSeq)] /\ w.pending \in [Threads -> Seq(1 .. MaxSeq)]
    BY <1>1 DEF Hosts
  <2> QED  BY <1>1 DEF Commit, L, P, Hosts, Taken, Left
<1> HIDE DEF v
<1>7. RowsOK(v)
  <2> SUFFICES ASSUME NEW t \in Threads
               PROVE  /\ InOrder(All(v, t))
                      /\ \A i \in DOMAIN v.log[t] : v.log[t][i] < v.next
                      /\ \A i \in DOMAIN v.pending[t] : v.pending[t][i] <= v.last[t]
                      /\ v.last[t] < v.next
    BY DEF RowsOK
  <2>1. /\ InOrder(All(w, t))
        /\ \A i \in DOMAIN w.log[t] : w.log[t][i] < w.next
        /\ \A i \in DOMAIN w.pending[t] : w.pending[t][i] <= w.last[t]
        /\ w.last[t] < w.next
    <3>1. RowsOK(w)  BY DEF Flows, Sound
    <3> QED  BY <3>1 DEF RowsOK
  <2>2. v.log[t] = L(t) /\ v.pending[t] = P(t)  BY <1>5
  <2>3. InOrder(All(v, t))  BY <1>3, <2>1, <2>2 DEF All
  <2>4. /\ w.last[t] \in Nat /\ w.next \in Nat /\ MaxSeq \in Nat
        /\ DOMAIN w.log[t] = 1 .. Len(w.log[t])
        /\ DOMAIN w.pending[t] = 1 .. Len(w.pending[t])
        /\ \A i \in DOMAIN w.pending[t] : w.pending[t][i] \in Nat
    <3>1. w.last[t] \in Nat /\ w.next \in Nat /\ MaxSeq \in Nat
      BY <1>1, QueueAssumption DEF Hosts, Unpinned
    <3>2. /\ DOMAIN w.log[t] = 1 .. Len(w.log[t])
          /\ DOMAIN w.pending[t] = 1 .. Len(w.pending[t])
      BY <1>2
    <3>3. ASSUME NEW i \in DOMAIN w.pending[t]  PROVE w.pending[t][i] \in Nat
      <4>1. w.pending[t] \in [1 .. Len(w.pending[t]) -> 1 .. MaxSeq]  BY <1>2, LenProperties
      <4>2. w.pending[t][i] \in 1 .. MaxSeq  BY <4>1
      <4> QED  BY <4>2
    <3> QED  BY <3>1, <3>2, <3>3
  <2> DEFINE a == w.log[t]
             b == w.pending[t]
             c == L(t)
             d == P(t)
             k == n[t]
             N == w.next
             M == w.last[t]
  <2>5. /\ Len(a) \in Nat /\ Len(b) \in Nat /\ k \in 0 .. Len(b) /\ DOMAIN a = 1 .. Len(a)
        /\ DOMAIN b = 1 .. Len(b) /\ DOMAIN c = 1 .. Len(a) + k /\ DOMAIN d = 1 .. Len(b) - k
        /\ \A i \in 1 .. Len(a) : c[i] = a[i]
        /\ \A i \in 1 .. k : c[Len(a) + i] = b[i]
        /\ \A i \in 1 .. Len(b) - k : d[i] = b[k + i]
    BY <1>2, <1>3, <2>4, LenProperties, ZenonT(40)
  <2>6. /\ \A i \in DOMAIN a : a[i] < N
        /\ \A i \in DOMAIN b : b[i] <= M /\ b[i] \in Nat
        /\ M < N /\ M \in Nat /\ N \in Nat
    BY <2>1, <2>4
  <2> HIDE DEF a, b, c, d, k, N, M
  <2>7. ASSUME NEW i \in DOMAIN c  PROVE c[i] < N
    <3>1. CASE i <= Len(a)  BY <2>5, <2>6, <3>1
    <3>2. CASE ~(i <= Len(a))
      <4> DEFINE j == i - Len(a)
      <4>1. j \in 1 .. k /\ i = Len(a) + j  BY <2>5, <3>2
      <4> HIDE DEF j
      <4>2. c[i] = b[j] /\ j \in DOMAIN b  BY <2>5, <4>1
      <4> QED  BY <2>6, <4>2
    <3> QED  BY <3>1, <3>2
  <2>8. ASSUME NEW i \in DOMAIN d  PROVE d[i] <= M
    <3>1. i \in 1 .. Len(b) - k /\ k + i \in DOMAIN b  BY <2>5
    <3> QED  BY <2>5, <2>6, <3>1
  <2> QED  BY <1>5, <2>1, <2>2, <2>3, <2>7, <2>8 DEF c, d, N, M
<1>8. Steady(v)  BY <1>5, LineFrame DEF Flows, Sound
<1>9. ASSUME NEW t \in Threads
      PROVE  All(v, t) = All(u, t) /\ Len(u.log[t]) <= Len(v.log[t])
  <2>1. All(w, t) = All(u, t) /\ Len(u.log[t]) <= Len(w.log[t])  BY DEF Flows
  <2>2. v.log[t] = L(t) /\ v.pending[t] = P(t)  BY <1>5
  <2>3. All(v, t) = All(w, t)  BY <1>3, <2>2 DEF All
  <2>4. Len(v.log[t]) = Len(w.log[t]) + n[t]  BY <1>3, <2>2
  <2> QED  BY <1>2, <2>1, <2>3, <2>4
<1> QED  BY <1>4, <1>5, <1>6, <1>7, <1>8, <1>9 DEF Flows, Sound

\* So is a flush of one thread up to a boundary, a chunk of it,
LEMMA DueFlows ==
    ASSUME NEW u, NEW w, Flows(u, w), NEW t, NEW b \in Int, NEW most \in Nat
    PROVE  Flows(u, CommitDue(w, t, b, most))
<1> DEFINE n == Only(t, Least(Due(w, t, b), most))
<1>1. w \in Hosts /\ RowsOK(w)  BY DEF Flows, Sound
<1>2. ASSUME NEW x \in Threads  PROVE n[x] \in Nat /\ n[x] <= Len(w.pending[x])
  <2>1. Len(w.pending[x]) \in Nat  BY <1>1 DEF Hosts
  <2>2. CASE x = t
    <3>1. Due(w, t, b) \in 0 .. Len(w.pending[t])  BY <1>1, <2>2, DueFacts
    <3>2. n[x] = Least(Due(w, t, b), most)  BY <2>2 DEF Only
    <3> QED  BY <2>1, <2>2, <3>1, <3>2 DEF Least
  <2>3. CASE x # t  BY <2>1, <2>3 DEF Only
  <2> QED  BY <2>2, <2>3
<1>3. n \in [Threads -> Nat]  BY <1>2 DEF Only
<1> HIDE DEF n
<1>4. Flows(u, Commit(w, n))  BY <1>2, <1>3, CommitFacts
<1> QED  BY <1>4 DEF CommitDue, n

\* flushThreadThrough writes a chunk or nothing.
LEMMA ChunkFlows ==
    ASSUME NEW u, NEW w, Flows(u, w), NEW t, NEW b \in Int
    PROVE  Flows(u, FlushChunk(w, t, b))
<1>1. Chunk \in Nat  BY QueueAssumption
<1> QED  BY <1>1, DueFlows DEF FlushChunk

\* A group commit writes a chunk of each of its threads.
LEMMA EachFlows ==
    ASSUME NEW u, NEW w, Flows(u, w), NEW G
    PROVE  Flows(u, CommitEach(w, G))
<1> DEFINE n == [t \in Threads |-> IF t \in G THEN Least(Due(w, t, MaxSeq), Chunk) ELSE 0]
<1>1. w \in Hosts /\ RowsOK(w) /\ MaxSeq \in Int /\ Chunk \in Nat
  BY QueueAssumption DEF Flows, Sound
<1>2. ASSUME NEW x \in Threads  PROVE n[x] \in Nat /\ n[x] <= Len(w.pending[x])
  <2>1. Due(w, x, MaxSeq) \in 0 .. Len(w.pending[x])  BY <1>1, DueFacts
  <2>2. Len(w.pending[x]) \in Nat  BY <1>1 DEF Hosts
  <2> QED  BY <1>1, <2>1, <2>2 DEF Least
<1>3. n \in [Threads -> Nat]  BY <1>2
<1> HIDE DEF n
<1>4. Flows(u, Commit(w, n))  BY <1>2, <1>3, CommitFacts
<1> QED  BY <1>4 DEF CommitEach, n

\* Threads written one after the other, until one fails.
LEMMA AloneFlows ==
    ASSUME NEW u, NEW w, Flows(u, w), NEW a \in BOOLEAN
    PROVE  Flows(u, [w EXCEPT !.alone = a])
<1>1. w \in Hosts  BY DEF Flows, Sound
<1> DEFINE v == [w EXCEPT !.alone = a]
<1>2. /\ v \in Hosts /\ v.line = w.line /\ v.req = w.req /\ v.micro = w.micro
      /\ v.freed = w.freed /\ v.pin = w.pin /\ v.log = w.log /\ v.pending = w.pending
      /\ v.last = w.last /\ v.next = w.next /\ v.gap = w.gap
  BY <1>1 DEF Hosts
<1> HIDE DEF v
<1>3. Flows(u, v)  BY <1>2, Plain
<1> QED  BY <1>3 DEF v

\* A budgeted flush, however its transaction ends.
LEMMA BudgetedFlows ==
    ASSUME NEW u, NEW w, Flows(u, w), NEW G, NEW rollback \in Rollbacks
    PROVE  Flows(u, FlushBudgeted(w, G, rollback))
<1>1. \A v : Flows(u, v) => Flows(u, FlushAlone(v, G))
  BY EachFlows, AloneFlows DEF FlushAlone
<1>2. Flows(u, CommitEach(w, G)) /\ Flows(u, [w EXCEPT !.alone = TRUE])
  BY EachFlows, AloneFlows
<1>3. Flows(u, FlushGroup(w, G, rollback))
  BY <1>1, <1>2 DEF FlushGroup, Rollbacks
<1> QED  BY <1>1, <1>3 DEF FlushBudgeted

-----------------------------------------------------------------------------
(* The line of a thread, and its readers.                                  *)

\* What the operators on lines leave as it is.
SameRows(w, v) ==
    /\ v.log = w.log /\ v.pending = w.pending /\ v.last = w.last /\ v.next = w.next
    /\ v.gap = w.gap

\* A step on the lines is a flow.
LEMMA LineFlows ==
    ASSUME NEW u, NEW w, Flows(u, w), NEW v \in Hosts, Steady(v), SameRows(w, v)
    PROVE  Flows(u, v)
  BY FlowFrame DEF SameRows

\* What they may do to requests: tell one that waits, and let one go.
LineStep(w, v) ==
    /\ SameRows(w, v)
    /\ \A x \in Requests :
        /\ On(v, x) = On(w, x) /\ IsFence(v, x) = IsFence(w, x)
        /\ v.req[x].through = w.req[x].through /\ v.req[x].mark = w.req[x].mark
        /\ \/ v.req[x].pc = w.req[x].pc
           \/ w.req[x].pc = "waiting" /\ v.req[x].pc \in {"granted", "cancelled"}
        /\ Stands(v, x) => Stands(w, x)
        /\ x \in ToSet(v.micro) => x \in ToSet(w.micro) \/ w.req[x].pc = "waiting"

\* Steps on lines compose.
LEMMA LineSteps ==
    ASSUME NEW w, NEW v, NEW z, LineStep(w, v), LineStep(v, z)
    PROVE  LineStep(w, z)
  BY DEF LineStep, SameRows

\* The request that comes to the head of its line is granted the thread once.
LEMMA PromoteSteady ==
    ASSUME NEW w \in Hosts, Steady(w), NEW t \in Threads
    PROVE  /\ Promote(w, t) \in Hosts /\ Steady(Promote(w, t)) /\ LineStep(w, Promote(w, t))
           /\ Promote(w, t).line = w.line /\ Promote(w, t).freed = w.freed
           /\ Promote(w, t).pin = w.pin
<1> DEFINE h == Head(w.line[t])
           a == [w EXCEPT !.req[h].pc = "granted"]
           v == [a EXCEPT !.micro = Append(@, h)]
<1>1. CASE ~(w.line[t] # <<>> /\ w.req[h].pc = "waiting")
  <2>1. Promote(w, t) = w  BY <1>1 DEF Promote
  <2> QED  BY <2>1 DEF LineStep, SameRows
<1>2. CASE w.line[t] # <<>> /\ w.req[h].pc = "waiting"
  <2>1. Promote(w, t) = v  BY <1>2 DEF Promote, Wake, At
  <2>2. /\ w.line \in [Threads -> Seq(Requests)] /\ w.micro \in Seq(Requests)
        /\ w.req \in [Requests -> Request]
    BY DEF Hosts
  <2>3. h \in ToSet(w.line[t]) /\ h \in Requests  BY <1>2, <2>2, Split
  <2> DEFINE m == Append(w.micro, h)
             R == [w.req EXCEPT ![h] = [@ EXCEPT !.pc = "granted"]]
  <2>4. h \notin ToSet(w.micro)  BY <1>2 DEF Steady, MicroOK
  <2>5. /\ m \in Seq(Requests) /\ ToSet(m) = ToSet(w.micro) \cup {h} /\ IsInjective(m)
    BY <2>2, <2>3, <2>4, Appended DEF Steady, MicroOK
  <2>6. /\ R \in [Requests -> Request]
        /\ \A x \in Requests : x # h => R[x] = w.req[x]
        /\ R[h].pc = "granted" /\ R[h].on = w.req[h].on /\ R[h].kind = w.req[h].kind
        /\ R[h].through = w.req[h].through /\ R[h].mark = w.req[h].mark
    BY <2>2, <2>3 DEF Request, Pcs, Unsettled, Waiting
  <2>7. a = [w EXCEPT !.req = R] /\ v = [w EXCEPT !.req = R, !.micro = m]
    BY DEF Hosts
  <2> HIDE DEF R, m, a, v, h
  <2>8. /\ v \in Hosts /\ v.req = R /\ v.micro = m /\ v.line = w.line /\ v.freed = w.freed
        /\ v.pin = w.pin /\ SameRows(w, v)
    BY <2>5, <2>6, <2>7 DEF Hosts, SameRows
  <2>9. LinesOK(v)
    <3>1. \A p \in Threads : \A x \in ToSet(w.line[p]) : x \in Requests
      BY <2>2, InSeq
    <3>2. \A p \in Threads : \A x \in ToSet(w.line[p]) : On(v, x) = p /\ v.req[x].pc \in Held
      BY <1>2, <2>6, <2>8, <3>1 DEF Steady, LinesOK, On, Held, Unsettled, Waiting
    <3> QED  BY <2>8, <3>2 DEF Steady, LinesOK
  <2>10. MicroOK(v)
    <3>1. \A x \in ToSet(w.micro) : x # h /\ R[x] = w.req[x]
      <4>1. \A x \in ToSet(w.micro) : x \in Requests  BY <2>2, InSeq
      <4> QED  BY <2>4, <2>6, <4>1
    <3> QED  BY <2>5, <2>6, <2>8, <3>1 DEF Steady, MicroOK
  <2>11. MadeOK(v)
    BY <1>2, <2>3, <2>6, <2>8 DEF Steady, MadeOK, On, IsFence
  <2>12. PinsOK(v)
    BY <1>2, <2>3, <2>6, <2>8, SMTT(30) DEF Steady, PinsOK, On, IsFence, Unsettled, Waiting
  <2>13. LineStep(w, v)
    BY <1>2, <2>3, <2>5, <2>6, <2>8 DEF LineStep, On, IsFence, Stands, h
  <2> QED  BY <2>1, <2>8, <2>9, <2>10, <2>11, <2>12, <2>13 DEF Steady
<1> QED  BY <1>1, <1>2

\* Requests that leave a line are no longer in it; those told of it had been waiting.
LEMMA EvictSteady ==
    ASSUME NEW w \in Hosts, Steady(w), NEW t \in Threads, NEW S
    PROVE  /\ Evict(w, t, S) \in Hosts /\ Steady(Evict(w, t, S)) /\ LineStep(w, Evict(w, t, S))
           /\ ToSet(Evict(w, t, S).line[t]) = ToSet(w.line[t]) \ S
           /\ \A p \in Threads : p # t => Evict(w, t, S).line[p] = w.line[p]
           /\ Evict(w, t, S).freed = w.freed /\ Evict(w, t, S).pin = w.pin
<1> DEFINE W == {x \in S : w.req[x].pc = "waiting"}
           q == Waiters(w, t, S)
           o == Others(w, t, S)
           f == [w.line EXCEPT ![t] = o]
           m == w.micro \o q
           R == Cancel(w, ToSet(q))
           v == [w EXCEPT !.line = f, !.req = R, !.micro = m]
<1>1. /\ w.line \in [Threads -> Seq(Requests)] /\ w.micro \in Seq(Requests)
      /\ w.req \in [Requests -> Request]
  BY DEF Hosts
<1>2. /\ q \in Seq(Requests) /\ ToSet(q) = ToSet(w.line[t]) \cap W
      /\ IsInjective(w.line[t]) => IsInjective(q)
  BY <1>1, KeptFacts DEF Waiters
<1>3. /\ o \in Seq(Requests) /\ ToSet(o) = ToSet(w.line[t]) \cap (Requests \ S)
      /\ IsInjective(w.line[t]) => IsInjective(o)
  BY <1>1, KeptFacts DEF Others
<1>4. IsInjective(w.line[t])  BY DEF Steady, LinesOK
<1>5. ToSet(o) = ToSet(w.line[t]) \ S  BY <1>1, <1>3, InSeq
<1>6. v = Evict(w, t, S)  BY DEF Evict, Hosts
<1> HIDE DEF q, o
<1>7. /\ m \in Seq(Requests) /\ ToSet(m) = ToSet(w.micro) \cup ToSet(q) /\ IsInjective(m)
  <2>1. \A x \in ToSet(q) : x \notin ToSet(w.micro)  BY <1>2 DEF Steady, MicroOK
  <2>2. ToSet(w.micro) \cap ToSet(q) = {}  BY <2>1
  <2>3. IsInjective(w.micro)  BY DEF Steady, MicroOK
  <2> QED  BY <1>1, <1>2, <1>4, <2>2, <2>3, Joined
<1>8. /\ R \in [Requests -> Request]
      /\ \A x \in Requests : x \notin ToSet(q) => R[x] = w.req[x]
      /\ \A x \in Requests : /\ R[x].on = w.req[x].on /\ R[x].kind = w.req[x].kind
                             /\ R[x].through = w.req[x].through /\ R[x].mark = w.req[x].mark
                             /\ R[x].pc = IF x \in ToSet(q) THEN "cancelled" ELSE w.req[x].pc
  BY <1>1, ZenonT(40) DEF Cancel, Request, Pcs, Unsettled, Waiting
<1>9. /\ f \in [Threads -> Seq(Requests)] /\ f[t] = o
      /\ \A p \in Threads : p # t => f[p] = w.line[p]
  BY <1>1, <1>3
<1> HIDE DEF R, m, v, f, W
<1>10. /\ v \in Hosts /\ v.req = R /\ v.micro = m /\ v.line = f /\ v.freed = w.freed
       /\ v.pin = w.pin /\ SameRows(w, v)
  BY <1>7, <1>8, <1>9 DEF v, Hosts, SameRows
<1>11. \A x \in ToSet(q) : x \in Requests /\ x \in ToSet(w.line[t]) /\ x \in S /\ w.req[x].pc = "waiting"
  BY <1>1, <1>2, InSeq DEF W
<1>12. LinesOK(v)
  <2> SUFFICES ASSUME NEW p \in Threads
               PROVE  /\ IsInjective(v.line[p])
                      /\ \A x \in ToSet(v.line[p]) :
                            On(v, x) = p /\ v.req[x].pc \in Held /\ x \notin v.freed
    BY DEF LinesOK
  <2>1. /\ IsInjective(w.line[p])
        /\ \A x \in ToSet(w.line[p]) :
              On(w, x) = p /\ w.req[x].pc \in Held /\ x \notin w.freed /\ x \in Requests
    BY <1>1, InSeq DEF Steady, LinesOK
  <2>2. \A x \in ToSet(q) : On(w, x) = t  BY <1>11 DEF Steady, LinesOK
  <2>3. CASE p = t
    <3>1. \A x \in ToSet(v.line[p]) : x \in ToSet(w.line[p]) /\ x \notin ToSet(q)
      BY <1>5, <1>9, <1>10, <1>11, <2>3
    <3> QED  BY <1>3, <1>8, <1>9, <1>10, <2>1, <2>3, <3>1 DEF On
  <2>4. CASE p # t
    <3>1. \A x \in ToSet(v.line[p]) : x \in ToSet(w.line[p]) /\ x \notin ToSet(q)
      BY <1>9, <1>10, <2>1, <2>2, <2>4
    <3> QED  BY <1>8, <1>9, <1>10, <2>1, <2>4, <3>1 DEF On
  <2> QED  BY <2>3, <2>4
<1>13. MicroOK(v)
  <2>1. \A x \in ToSet(w.micro) : x \in Requests /\ w.req[x].pc \in {"granted", "cancelled"}
    BY <1>1, InSeq DEF Steady, MicroOK
  <2> QED  BY <1>7, <1>8, <1>10, <1>11, <2>1 DEF MicroOK
<1>14. MadeOK(v)
  BY <1>8, <1>10, <1>11 DEF Steady, MadeOK, On, IsFence
<1>15. PinsOK(v)
  BY <1>8, <1>10 DEF Steady, PinsOK, On, IsFence, Unsettled, Waiting
<1>16. LineStep(w, v)
  <2> SUFFICES ASSUME NEW x \in Requests
               PROVE  /\ On(v, x) = On(w, x) /\ IsFence(v, x) = IsFence(w, x)
                      /\ v.req[x].through = w.req[x].through /\ v.req[x].mark = w.req[x].mark
                      /\ \/ v.req[x].pc = w.req[x].pc
                         \/ w.req[x].pc = "waiting" /\ v.req[x].pc \in {"granted", "cancelled"}
                      /\ Stands(v, x) => Stands(w, x)
                      /\ x \in ToSet(v.micro) => x \in ToSet(w.micro) \/ w.req[x].pc = "waiting"
    BY <1>10 DEF LineStep
  <2>1. /\ On(v, x) = On(w, x) /\ IsFence(v, x) = IsFence(w, x)
        /\ v.req[x].through = w.req[x].through /\ v.req[x].mark = w.req[x].mark
        /\ v.req[x].on = On(w, x) /\ w.req[x].on = On(w, x)
        /\ On(w, x) = None \/ On(w, x) \in Threads
    BY <1>1, <1>8, <1>10 DEF On, IsFence, Request
  <2>2. Stands(v, x) => Stands(w, x)
    BY <1>5, <1>9, <1>10, <2>1 DEF Stands
  <2> QED  BY <1>7, <1>8, <1>10, <1>11, <2>1, <2>2
<1>17. Steady(v)  BY <1>12, <1>13, <1>14, <1>15 DEF Steady
<1> QED  BY <1>5, <1>6, <1>9, <1>10, <1>16, <1>17

\* settle: a request leaves its line and the next is promoted.
LEMMA SettleSteady ==
    ASSUME NEW w \in Hosts, Steady(w), NEW x \in Requests
    PROVE  /\ Settle(w, x) \in Hosts /\ Steady(Settle(w, x)) /\ LineStep(w, Settle(w, x))
           /\ ~Stands(Settle(w, x), x)
           /\ Settle(w, x).freed = w.freed /\ Settle(w, x).pin = w.pin
           /\ \A p \in Threads : ToSet(Settle(w, x).line[p]) = ToSet(w.line[p]) \ {x}
<1> DEFINE t == On(w, x)
           a == Evict(w, t, {x})
           v == Promote(a, t)
<1>1. \A p \in Threads : x \in ToSet(w.line[p]) => t = p  BY DEF Steady, LinesOK
<1>2. t \in Threads \cup {None}  BY DEF Hosts, Request, On
<1>3. CASE ~Stands(w, x)
  <2>1. Settle(w, x) = w  BY <1>3 DEF Settle
  <2>2. \A p \in Threads : x \notin ToSet(w.line[p])
    BY <1>1, <1>3, QueueAssumption DEF Stands, On
  <2>3. LineStep(w, w)  BY DEF LineStep, SameRows
  <2> QED  BY <1>3, <2>1, <2>2, <2>3
<1>4. CASE Stands(w, x)
  <2>1. t \in Threads /\ Settle(w, x) = v  BY <1>2, <1>4 DEF Settle, Stands, On
  <2> HIDE DEF t
  <2>2. /\ a \in Hosts /\ Steady(a) /\ LineStep(w, a)
        /\ ToSet(a.line[t]) = ToSet(w.line[t]) \ {x}
        /\ \A p \in Threads : p # t => a.line[p] = w.line[p]
        /\ a.freed = w.freed /\ a.pin = w.pin
    BY <2>1, EvictSteady
  <2> HIDE DEF a
  <2>3. /\ v \in Hosts /\ Steady(v) /\ LineStep(a, v) /\ v.line = a.line
        /\ v.freed = a.freed /\ v.pin = a.pin
    BY <2>1, <2>2, PromoteSteady
  <2> HIDE DEF v
  <2>4. LineStep(w, v)  BY <2>2, <2>3, LineSteps
  <2>5. \A p \in Threads : ToSet(v.line[p]) = ToSet(w.line[p]) \ {x}
    BY <1>1, <2>1, <2>2, <2>3
  <2>6. On(v, x) = t  BY <2>4 DEF LineStep, t
  <2>7. ~Stands(v, x)  BY <2>1, <2>5, <2>6 DEF Stands
  <2> QED  BY <2>1, <2>2, <2>3, <2>4, <2>5, <2>7
<1> QED  BY <1>3, <1>4

\* The pin a line asks for belongs to a reader in it.
LEMMA FencePinFacts ==
    ASSUME NEW w \in Hosts, NEW t \in Threads
    PROVE  /\ FencePin(w, t) \in 0 .. Unpinned
           /\ \/ FencePin(w, t) = Unpinned
              \/ \E x \in ToSet(w.line[t]) : x \in Requests /\ IsFence(w, x)
                                              /\ FencePin(w, t) = w.req[x].through
<1> DEFINE q == Kept(w.line[t], {x \in Requests : IsFence(w, x)})
<1>1. /\ w.line \in [Threads -> Seq(Requests)] /\ w.req \in [Requests -> Request]
      /\ MaxSeq \in Nat
  BY QueueAssumption DEF Hosts
<1>2. q \in Seq(Requests) /\ ToSet(q) = ToSet(w.line[t]) \cap {x \in Requests : IsFence(w, x)}
  BY <1>1, KeptFacts
<1>3. FencePin(w, t) = IF q = <<>> THEN Unpinned ELSE w.req[Head(q)].through
  BY DEF FencePin
<1> HIDE DEF q
<1>4. CASE q = <<>>  BY <1>1, <1>3, <1>4 DEF Unpinned
<1>5. CASE q # <<>>
  <2>1. Head(q) \in ToSet(q)  BY <1>2, <1>5, Split
  <2>2. Head(q) \in Requests /\ Head(q) \in ToSet(w.line[t]) /\ IsFence(w, Head(q))
    BY <1>2, <2>1
  <2>3. w.req[Head(q)].through \in 0 .. MaxSeq  BY <1>1, <2>2 DEF Request
  <2> QED  BY <1>1, <1>3, <1>5, <2>2, <2>3 DEF Unpinned
<1> QED  BY <1>4, <1>5

\* releaseFence: a reader gives up its place, its token and its pin.
LEMMA ReleaseSteady ==
    ASSUME NEW w \in Hosts, Steady(w), NEW x \in Requests, w.req[x].pc # "new"
    PROVE  /\ Release(w, x) \in Hosts /\ Steady(Release(w, x)) /\ LineStep(w, Release(w, x))
           /\ ~Stands(Release(w, x), x) /\ x \in Release(w, x).freed
<1> DEFINE t == On(w, x)
           s == Settle(w, x)
           v == [s EXCEPT !.freed = @ \cup {x}, !.pin[t] = FencePin(s, t)]
<1>1. CASE x \in w.freed
  <2>1. Release(w, x) = w  BY <1>1 DEF Release
  <2>2. ~Stands(w, x)
    <3>1. On(w, x) \in Threads \cup {None}  BY DEF Hosts, Request, On
    <3> QED  BY <1>1, <3>1 DEF Stands, Steady, LinesOK, On
  <2>3. LineStep(w, w)  BY DEF LineStep, SameRows
  <2> QED  BY <1>1, <2>1, <2>2, <2>3
<1>2. CASE x \notin w.freed
  <2>1. Release(w, x) = v  BY <1>2 DEF Release
  <2>2. t \in Threads  BY DEF Steady, MadeOK
  <2>3. /\ s \in Hosts /\ Steady(s) /\ LineStep(w, s) /\ ~Stands(s, x)
        /\ s.freed = w.freed /\ s.pin = w.pin
        /\ \A p \in Threads : ToSet(s.line[p]) = ToSet(w.line[p]) \ {x}
    BY SettleSteady
  <2> HIDE DEF s
  <2>4. /\ FencePin(s, t) \in 0 .. Unpinned
        /\ \/ FencePin(s, t) = Unpinned
           \/ \E y \in ToSet(s.line[t]) : y \in Requests /\ IsFence(s, y)
    BY <2>2, <2>3, FencePinFacts
  <2> DEFINE k == FencePin(s, t)
  <2> HIDE DEF t, k
  <2>5. /\ v \in Hosts /\ v.freed = s.freed \cup {x} /\ v.line = s.line /\ v.req = s.req
        /\ v.micro = s.micro /\ SameRows(s, v)
        /\ v.pin[t] = k /\ \A p \in Threads : p # t => v.pin[p] = s.pin[p]
    <3>1. s.pin \in [Threads -> 0 .. Unpinned] /\ s.freed \subseteq Requests  BY <2>3 DEF Hosts
    <3> DEFINE P == [s.pin EXCEPT ![t] = k]
    <3>2. P \in [Threads -> 0 .. Unpinned] /\ P[t] = k /\ \A p \in Threads : p # t => P[p] = s.pin[p]
      BY <2>2, <2>4, <3>1 DEF k
    <3>3. v = [s EXCEPT !.freed = s.freed \cup {x}, !.pin = P]  BY <2>3 DEF Hosts, k
    <3> HIDE DEF P, v
    <3> QED  BY <2>3, <3>1, <3>2, <3>3 DEF Hosts, SameRows
  <2> HIDE DEF v
  <2>6. LinesOK(v)  BY <2>3, <2>5 DEF Steady, LinesOK, On
  <2>7. MicroOK(v)  BY <2>3, <2>5 DEF Steady, MicroOK
  <2>8. s.req[x].pc # "new" /\ On(s, x) = t  BY <2>3 DEF LineStep, t
  <2>9. MadeOK(v)  BY <2>3, <2>5, <2>8 DEF Steady, MadeOK, On, IsFence
  <2>10. PinsOK(v)
    <3> SUFFICES ASSUME NEW p \in Threads, v.pin[p] # Unpinned
                 PROVE  \E y \in Requests : /\ On(v, y) = p /\ IsFence(v, y)
                                            /\ v.req[y].pc \in Unsettled /\ y \notin v.freed
      BY DEF PinsOK
    <3>1. CASE p = t
      <4>1. PICK y \in ToSet(s.line[t]) : y \in Requests /\ IsFence(s, y)
        BY <2>4, <2>5, <3>1 DEF k
      <4>2. On(s, y) = t /\ s.req[y].pc \in Held /\ y \notin s.freed /\ y # x
        BY <2>2, <2>3, <4>1 DEF Steady, LinesOK
      <4> QED  BY <2>5, <3>1, <4>1, <4>2 DEF On, IsFence, Held
    <3>2. CASE p # t
      <4>1. PICK y \in Requests : On(s, y) = p /\ IsFence(s, y) /\ s.req[y].pc \in Unsettled
                                     /\ y \notin s.freed
        BY <2>3, <2>5, <3>2 DEF Steady, PinsOK
      <4>2. y # x  BY <2>8, <3>2, <4>1
      <4> QED  BY <2>5, <4>1, <4>2 DEF On, IsFence
    <3> QED  BY <3>1, <3>2
  <2>11. LineStep(s, v)  BY <2>5 DEF LineStep, On, IsFence, Stands
  <2>12. LineStep(w, v)  BY <2>3, <2>11, LineSteps
  <2>13. ~Stands(v, x)  BY <2>3, <2>5 DEF Stands, On
  <2> QED  BY <2>1, <2>5, <2>6, <2>7, <2>9, <2>10, <2>12, <2>13 DEF Steady
<1> QED  BY <1>1, <1>2

\* releaseExpiredFences leaves the pins that still have an owner.
LEMMA ExpiredSteady ==
    ASSUME NEW w \in Hosts, Steady(w)
    PROVE  /\ ReleaseExpiredFences(w) \in Hosts /\ Steady(ReleaseExpiredFences(w))
           /\ LineStep(w, ReleaseExpiredFences(w))
           /\ ReleaseExpiredFences(w).req = w.req /\ ReleaseExpiredFences(w).line = w.line
           /\ ReleaseExpiredFences(w).micro = w.micro
<1> DEFINE E == Expired(w)
           P == [t \in Threads |-> IF \E x \in E : On(w, x) = t THEN FencePin(w, t) ELSE w.pin[t]]
           F == w.freed \cup E
           v == [w EXCEPT !.freed = F, !.pin = P]
<1>1. v = ReleaseExpiredFences(w)  BY DEF ReleaseExpiredFences, Hosts
<1>2. P \in [Threads -> 0 .. Unpinned]
  <2>1. \A t \in Threads : FencePin(w, t) \in 0 .. Unpinned  BY FencePinFacts
  <2>2. w.pin \in [Threads -> 0 .. Unpinned]  BY DEF Hosts
  <2> HIDE DEF E
  <2> QED  BY <2>1, <2>2
<1>3. \A t \in Threads : \/ \E x \in E : On(w, x) = t /\ P[t] = FencePin(w, t)
                         \/ ~(\E x \in E : On(w, x) = t) /\ P[t] = w.pin[t]
  <2> HIDE DEF E
  <2> QED  OBVIOUS
<1>4. \A x \in E : /\ x \in Requests /\ w.req[x].pc # "new" /\ x \notin w.freed /\ ~Stands(w, x)
                   /\ On(w, x) \in Threads
  BY DEF Expired, Steady, MadeOK
<1> HIDE DEF E, P, F
<1>5. F \subseteq Requests  BY <1>4 DEF F, Hosts
<1>6. /\ v \in Hosts /\ v.freed = F /\ v.pin = P /\ v.line = w.line /\ v.req = w.req
      /\ v.micro = w.micro /\ SameRows(w, v)
  BY <1>2, <1>5 DEF Hosts, SameRows
<1> HIDE DEF v
<1>7. \A t \in Threads : \A x \in ToSet(w.line[t]) : x \notin E
  <2> SUFFICES ASSUME NEW t \in Threads, NEW x \in ToSet(w.line[t]), x \in E  PROVE FALSE
    OBVIOUS
  <2>1. On(w, x) = t  BY DEF Steady, LinesOK
  <2> QED  BY <1>4, <2>1, QueueAssumption DEF Stands, On
<1>8. LinesOK(v)  BY <1>6, <1>7 DEF Steady, LinesOK, On, F
<1>9. MicroOK(v)  BY <1>6 DEF Steady, MicroOK
<1>10. MadeOK(v)  BY <1>4, <1>6 DEF Steady, MadeOK, On, IsFence, F
<1>11. PinsOK(v)
  <2> SUFFICES ASSUME NEW t \in Threads, P[t] # Unpinned
               PROVE  \E y \in Requests : /\ On(w, y) = t /\ IsFence(w, y)
                                          /\ w.req[y].pc \in Unsettled /\ y \notin F
    BY <1>6 DEF PinsOK, On, IsFence
  <2>1. CASE P[t] = FencePin(w, t)
    <3>1. PICK y \in ToSet(w.line[t]) : y \in Requests /\ IsFence(w, y)
      BY <2>1, FencePinFacts
    <3>2. On(w, y) = t /\ w.req[y].pc \in Held /\ y \notin w.freed
      BY <3>1 DEF Steady, LinesOK
    <3> QED  BY <1>7, <3>1, <3>2 DEF F, Held
  <2>2. CASE ~(\E x \in E : On(w, x) = t) /\ P[t] = w.pin[t]
    <3>1. PICK y \in Requests : On(w, y) = t /\ IsFence(w, y) /\ w.req[y].pc \in Unsettled
                                   /\ y \notin w.freed
      BY <2>2 DEF Steady, PinsOK
    <3> QED  BY <2>2, <3>1 DEF F
  <2> QED  BY <1>3, <2>1, <2>2
<1>12. LineStep(w, v)  BY <1>6 DEF LineStep, On, IsFence, Stands
<1> QED  BY <1>1, <1>6, <1>8, <1>9, <1>10, <1>11, <1>12 DEF Steady

\* preemptFences: no reader of the thread keeps a claim.
LEMMA PreemptSteady ==
    ASSUME NEW w \in Hosts, Steady(w), NEW t \in Threads
    PROVE  Preempt(w, t) \in Hosts /\ Steady(Preempt(w, t)) /\ LineStep(w, Preempt(w, t))
<1> DEFINE S == FencesOf(w, t)
           e == Evict(w, t, S)
           v == [e EXCEPT !.freed = @ \cup S, !.pin[t] = Unpinned]
<1>1. Preempt(w, t) = Promote(v, t)  BY DEF Preempt
<1>2. \A x \in S : x \in Requests /\ On(w, x) = t /\ w.req[x].pc \in Unsettled
  BY DEF FencesOf
<1> HIDE DEF S
<1>3. /\ e \in Hosts /\ Steady(e) /\ LineStep(w, e) /\ ToSet(e.line[t]) = ToSet(w.line[t]) \ S
      /\ e.freed = w.freed /\ e.pin = w.pin
  BY EvictSteady
<1> HIDE DEF e
<1>4. \A x \in S : On(e, x) = t /\ e.req[x].pc # "new"
  BY <1>2, <1>3 DEF LineStep, Unsettled, Waiting
<1> DEFINE P == [e.pin EXCEPT ![t] = Unpinned]
<1>5. e.pin \in [Threads -> 0 .. Unpinned] /\ Unpinned \in 0 .. Unpinned
  <2>1. MaxSeq \in Nat  BY QueueAssumption
  <2>2. Unpinned \in 0 .. Unpinned  BY <2>1 DEF Unpinned
  <2> QED  BY <1>3, <2>2 DEF Hosts
<1>6. /\ P \in [Threads -> 0 .. Unpinned] /\ P[t] = Unpinned
      /\ \A p \in Threads : p # t => P[p] = e.pin[p]
  BY <1>5
<1>7. v = [e EXCEPT !.freed = e.freed \cup S, !.pin = P]  BY <1>3 DEF Hosts
<1> HIDE DEF P, v
<1>8. /\ v \in Hosts /\ v.freed = e.freed \cup S /\ v.pin = P /\ v.line = e.line /\ v.req = e.req
      /\ v.micro = e.micro /\ SameRows(e, v)
  BY <1>2, <1>3, <1>6, <1>7, ZenonT(40) DEF Hosts, SameRows
<1>9. LinesOK(v)
  <2>1. \A p \in Threads : \A x \in ToSet(e.line[p]) : x \notin S
    <3> SUFFICES ASSUME NEW p \in Threads, NEW x \in ToSet(e.line[p]), x \in S  PROVE FALSE
      OBVIOUS
    <3>1. On(e, x) = p  BY <1>3 DEF Steady, LinesOK
    <3> QED  BY <1>3, <1>4, <3>1
  <2> QED  BY <1>3, <1>8, <2>1 DEF Steady, LinesOK, On
<1>10. MicroOK(v)  BY <1>3, <1>8 DEF Steady, MicroOK
<1>11. MadeOK(v)  BY <1>3, <1>4, <1>8 DEF Steady, MadeOK, On, IsFence
<1>12. PinsOK(v)
  <2> SUFFICES ASSUME NEW p \in Threads, p # t, e.pin[p] # Unpinned
               PROVE  \E y \in Requests : /\ On(v, y) = p /\ IsFence(v, y)
                                          /\ v.req[y].pc \in Unsettled /\ y \notin v.freed
    BY <1>6, <1>8 DEF PinsOK
  <2>1. PICK y \in Requests : On(e, y) = p /\ IsFence(e, y) /\ e.req[y].pc \in Unsettled
                                 /\ y \notin e.freed
    BY <1>3 DEF Steady, PinsOK
  <2> QED  BY <1>4, <1>8, <2>1 DEF On, IsFence
<1>13. LineStep(e, v)  BY <1>8 DEF LineStep, On, IsFence, Stands
<1>14. LineStep(w, v)  BY <1>3, <1>13, LineSteps
<1>15. Steady(v)  BY <1>9, <1>10, <1>11, <1>12 DEF Steady
<1>16. Promote(v, t) \in Hosts /\ Steady(Promote(v, t)) /\ LineStep(v, Promote(v, t))
  BY <1>8, <1>15, PromoteSteady
<1> QED  BY <1>1, <1>14, <1>16, LineSteps

\* A request under way keeps its place; one that has left its line and its pin may settle.
LEMMA AtSteady ==
    ASSUME NEW w \in Hosts, Steady(w), NEW x \in Requests, NEW pc \in Pcs \ {"new", "cancelled"},
           w.req[x].pc # "new", x \notin ToSet(w.micro),
           pc \in Held \/ (~Stands(w, x) /\ (IsFence(w, x) => x \in w.freed))
    PROVE  /\ At(w, x, pc) \in Hosts /\ Steady(At(w, x, pc)) /\ SameRows(w, At(w, x, pc))
           /\ At(w, x, pc).micro = w.micro /\ At(w, x, pc).line = w.line
           /\ At(w, x, pc).freed = w.freed /\ At(w, x, pc).pin = w.pin
<1> DEFINE R == [w.req EXCEPT ![x] = [@ EXCEPT !.pc = pc]]
           v == [w EXCEPT !.req = R]
<1>1. w.req \in [Requests -> Request] /\ w.micro \in Seq(Requests)
      /\ w.line \in [Threads -> Seq(Requests)]
  BY DEF Hosts
<1>2. At(w, x, pc) = v  BY DEF At, Hosts
<1>3. /\ R \in [Requests -> Request]
      /\ \A y \in Requests : y # x => R[y] = w.req[y]
      /\ R[x].pc = pc /\ R[x].on = w.req[x].on /\ R[x].kind = w.req[x].kind
      /\ R[x].through = w.req[x].through /\ R[x].mark = w.req[x].mark
  BY <1>1 DEF Request
<1> HIDE DEF R
<1>4. /\ v \in Hosts /\ v.req = R /\ v.micro = w.micro /\ v.line = w.line /\ v.freed = w.freed
      /\ v.pin = w.pin /\ SameRows(w, v)
  BY <1>3 DEF Hosts, SameRows
<1> HIDE DEF v
<1>5. LinesOK(v)
  <2> SUFFICES ASSUME NEW p \in Threads, NEW y \in ToSet(w.line[p])
               PROVE  On(v, y) = p /\ v.req[y].pc \in Held /\ y \notin v.freed
    BY <1>4 DEF LinesOK, Steady
  <2>1. y \in Requests  BY <1>1, InSeq
  <2>2. On(w, y) = p /\ w.req[y].pc \in Held /\ y \notin w.freed  BY DEF Steady, LinesOK
  <2>3. y = x => Stands(w, x)  BY <2>2, QueueAssumption DEF Stands, On
  <2> QED  BY <1>3, <1>4, <2>1, <2>2, <2>3 DEF On
<1>6. MicroOK(v)
  <2>1. \A y \in ToSet(w.micro) : y \in Requests /\ y # x  BY <1>1, InSeq
  <2> QED  BY <1>3, <1>4, <2>1 DEF Steady, MicroOK
<1>7. MadeOK(v)  BY <1>3, <1>4 DEF Steady, MadeOK, On, IsFence
<1>8. PinsOK(v)
  <2> SUFFICES ASSUME NEW p \in Threads, w.pin[p] # Unpinned
               PROVE  \E y \in Requests : /\ On(v, y) = p /\ IsFence(v, y)
                                          /\ v.req[y].pc \in Unsettled /\ y \notin v.freed
    BY <1>4 DEF PinsOK
  <2>1. PICK y \in Requests : On(w, y) = p /\ IsFence(w, y) /\ w.req[y].pc \in Unsettled
                                 /\ y \notin w.freed
    BY DEF Steady, PinsOK
  <2>2. y = x => pc \in Unsettled  BY <2>1 DEF Held
  <2> QED  BY <1>3, <1>4, <2>1, <2>2 DEF On, IsFence
<1> QED  BY <1>2, <1>4, <1>5, <1>6, <1>7, <1>8 DEF Steady

-----------------------------------------------------------------------------
(* Admission.                                                              *)

\* There is an oldest thread in a backlog.
LEMMA OldestFacts ==
    ASSUME NEW w \in Hosts, Backlog(w) # {}
    PROVE  Oldest(w) \in Threads /\ Oldest(w) \in Backlog(w)
<1> DEFINE T == {Head(w.pending[t]) : t \in Backlog(w)}
<1>1. \A t \in Backlog(w) : Head(w.pending[t]) \in Nat
  <2> SUFFICES ASSUME NEW t \in Backlog(w)  PROVE Head(w.pending[t]) \in Nat
    OBVIOUS
  <2>1. w.pending[t] \in Seq(1 .. MaxSeq) /\ w.pending[t] # <<>>  BY DEF Backlog, Hosts
  <2>2. Head(w.pending[t]) \in 1 .. MaxSeq  BY <2>1, Split
  <2> QED  BY <2>2
<1>2. T \in SUBSET Nat /\ T # {}  BY <1>1
<1> HIDE DEF T
<1>3. PICK n \in T : \A m \in T : n <= m  BY <1>2, Smallest
<1> USE DEF T
<1>4. PICK t \in Backlog(w) : n = Head(w.pending[t])  OBVIOUS
<1>5. \A u \in Backlog(w) : Older(w, t, u)  BY <1>3, <1>4 DEF Older
<1>6. Oldest(w) \in Backlog(w)  BY <1>4, <1>5 DEF Oldest
<1> QED  BY <1>6 DEF Backlog

\* Chunks leave the line as it is.
ChunkFrame(w, v) ==
    /\ v.line = w.line /\ v.req = w.req /\ v.micro = w.micro /\ v.freed = w.freed
    /\ v.pin = w.pin /\ v.gap = w.gap /\ v.next = w.next /\ v.tainted = w.tainted
    /\ v.last = w.last

\* A chunk keeps the lines.
LEMMA ChunkKeeps ==
    ASSUME NEW w \in Hosts, NEW t, NEW b, NEW most
    PROVE  ChunkFrame(w, CommitDue(w, t, b, most)) /\ ChunkFrame(w, FlushChunk(w, t, b))
  BY DEF ChunkFrame, FlushChunk, CommitDue, Commit, Hosts

\* relieveCapacity, which takes the thread from its readers first.
LEMMA RelieveFlows ==
    ASSUME NEW u, NEW w, Flows(u, w)
    PROVE  /\ \A t \in Threads : Flows(u, Relieve(w, t))
           /\ Flows(u, RelieveOldest(w))
<1>1. ASSUME NEW t \in Threads  PROVE Flows(u, Relieve(w, t))
  <2>1. w \in Hosts /\ Steady(w)  BY DEF Flows, Sound
  <2>2. Flows(u, Preempt(w, t))
    BY <2>1, PreemptSteady, LineFlows DEF LineStep
  <2>3. MaxSeq \in Int  BY QueueAssumption
  <2> QED  BY <2>2, <2>3, ChunkFlows DEF Relieve
<1>2. Flows(u, RelieveOldest(w))
  BY <1>1, OldestFacts DEF RelieveOldest, Flows, Sound
<1> QED  BY <1>1, <1>2


\* A refusal leaves evidence and no event.
LEMMA RefuseFlows ==
    ASSUME NEW u, NEW w, Flows(u, w), NEW t \in Threads
    PROVE  /\ Flows(u, RecordGap(w, t)) /\ Flows(u, Refuse(w, t)) /\ Flows(u, RefuseAll(w, t))
           /\ Flows(u, Learn(w, t)) /\ Flows(u, [w EXCEPT !.touched = @ \cup {t}])
           /\ \A b \in BOOLEAN : Flows(u, [w EXCEPT !.refusing = b])
<1>1. ASSUME NEW a, Flows(u, a)  PROVE Flows(u, RecordGap(a, t))
  <2> DEFINE v == RecordGap(a, t)
  <2>1. a \in Hosts  BY <1>1 DEF Flows, Sound
  <2>2. /\ v \in Hosts /\ v.line = a.line /\ v.req = a.req /\ v.micro = a.micro
        /\ v.freed = a.freed /\ v.pin = a.pin /\ v.log = a.log /\ v.pending = a.pending
        /\ v.last = a.last /\ v.next = a.next /\ a.gap \subseteq v.gap
    <3>1. CASE t \notin a.failing
      <4> DEFINE z == [a EXCEPT !.gap = @ \cup {t}]
      <4>1. v = z  BY <3>1 DEF RecordGap
      <4>2. z \in Hosts /\ z.gap = a.gap \cup {t}  BY <2>1 DEF Hosts
      <4> QED  BY <2>1, <4>1, <4>2 DEF Hosts
    <3>2. CASE t \in a.failing /\ (t \in a.owed \/ Cardinality(a.owed) < MaxOwed)
      <4> DEFINE z == [a EXCEPT !.owed = @ \cup {t}]
      <4>1. v = z  BY <3>2 DEF RecordGap
      <4>2. z \in Hosts  BY <2>1 DEF Hosts
      <4> QED  BY <2>1, <4>1, <4>2 DEF Hosts
    <3>3. CASE t \in a.failing /\ ~(t \in a.owed \/ Cardinality(a.owed) < MaxOwed)
      <4> DEFINE z == [a EXCEPT !.latched = TRUE, !.refusing = TRUE]
      <4>1. v = z  BY <3>3 DEF RecordGap
      <4>2. z \in Hosts  BY <2>1 DEF Hosts
      <4> QED  BY <2>1, <4>1, <4>2 DEF Hosts
    <3> QED  BY <3>1, <3>2, <3>3
  <2> HIDE DEF v
  <2>3. Flows(u, v)  BY <1>1, <2>2, Plain
  <2> QED  BY <2>3 DEF v
<1>2. Flows(u, Refuse(w, t))
  <2> DEFINE a == [w EXCEPT !.tainted = @ \cup {t}, !.hole = @ \cup {t}]
  <2>1. w \in Hosts  BY DEF Flows, Sound
  <2>2. /\ a \in Hosts /\ a.line = w.line /\ a.req = w.req /\ a.micro = w.micro
        /\ a.freed = w.freed /\ a.pin = w.pin /\ a.log = w.log /\ a.pending = w.pending
        /\ a.last = w.last /\ a.next = w.next /\ w.gap \subseteq a.gap
    BY <2>1 DEF Hosts
  <2> HIDE DEF a
  <2>3. Flows(u, a)  BY <2>2, Plain
  <2>4. Flows(u, RecordGap(a, t))  BY <1>1, <2>3
  <2> QED  BY <2>4 DEF Refuse, a
<1>3. ASSUME NEW a, Flows(u, a), NEW b \in BOOLEAN  PROVE Flows(u, [a EXCEPT !.refusing = b])
  <2> DEFINE v == [a EXCEPT !.refusing = b]
  <2>1. a \in Hosts  BY <1>3 DEF Flows, Sound
  <2>2. /\ v \in Hosts /\ v.line = a.line /\ v.req = a.req /\ v.micro = a.micro
        /\ v.freed = a.freed /\ v.pin = a.pin /\ v.log = a.log /\ v.pending = a.pending
        /\ v.last = a.last /\ v.next = a.next /\ a.gap \subseteq v.gap
    BY <2>1, <1>3 DEF Hosts
  <2> HIDE DEF v
  <2>3. Flows(u, v)  BY <1>3, <2>2, Plain
  <2> QED  BY <2>3 DEF v
<1>4. Flows(u, Learn(w, t))
  <2> DEFINE v == [w EXCEPT !.tainted = @ \cup {t}]
  <2>1. w \in Hosts  BY DEF Flows, Sound
  <2>2. /\ v \in Hosts /\ v.line = w.line /\ v.req = w.req /\ v.micro = w.micro
        /\ v.freed = w.freed /\ v.pin = w.pin /\ v.log = w.log /\ v.pending = w.pending
        /\ v.last = w.last /\ v.next = w.next /\ w.gap \subseteq v.gap
    BY <2>1 DEF Hosts
  <2> HIDE DEF v
  <2>3. Flows(u, v)  BY <2>2, Plain
  <2> QED  BY <2>3 DEF v, Learn
<1>5. Flows(u, [w EXCEPT !.touched = @ \cup {t}])
  <2> DEFINE v == [w EXCEPT !.touched = @ \cup {t}]
  <2>1. w \in Hosts  BY DEF Flows, Sound
  <2>2. /\ v \in Hosts /\ v.line = w.line /\ v.req = w.req /\ v.micro = w.micro
        /\ v.freed = w.freed /\ v.pin = w.pin /\ v.log = w.log /\ v.pending = w.pending
        /\ v.last = w.last /\ v.next = w.next /\ w.gap \subseteq v.gap
    BY <2>1 DEF Hosts
  <2> HIDE DEF v
  <2>3. Flows(u, v)  BY <2>2, Plain
  <2> QED  BY <2>3 DEF v
<1>6. Flows(u, RefuseAll(w, t))  BY <1>2, <1>3 DEF RefuseAll
<1> QED  BY <1>1, <1>2, <1>3, <1>4, <1>5, <1>6

\* The relief a full queue asks for.
LEMMA RoomFlows ==
    ASSUME NEW u, NEW w, Flows(u, w), NEW t \in Threads, NEW backoff
    PROVE  Flows(u, MakeRoom(w, t, backoff)) /\ Flows(u, Settled(w, backoff))
<1>1. Flows(u, MakeRoom(w, t, backoff))  BY RelieveFlows DEF MakeRoom
<1>2. ASSUME NEW v, Flows(u, v)  PROVE Flows(u, [v EXCEPT !.refusing = TRUE])
  BY <1>2, RefuseFlows
<1>3. Flows(u, Settled(w, backoff))  BY <1>2, RelieveFlows DEF Settled
<1> QED  BY <1>1, <1>3

\* The relief an old backlog asks for.
LEMMA AgedFlows ==
    ASSUME NEW u, NEW w, Flows(u, w), NEW age, NEW backoff
    PROVE  Flows(u, Aged(w, age, backoff))
  BY RelieveFlows DEF Aged

\* Nothing done is a flow.
LEMMA Still ==
    ASSUME NEW w, Sound(w)
    PROVE  Flows(w, w)
  BY DEF Flows, Sound, Hosts

\* One event more is accepted, the newest of all.
Grown(u, w, t) ==
    /\ Sound(w)
    /\ u.gap \subseteq w.gap
    /\ \A s \in Threads : Len(u.log[s]) <= Len(w.log[s])
    /\ \A s \in Threads : s # t => All(w, s) = All(u, s)
    /\ u.next \in 1 .. MaxSeq /\ All(w, t) = Append(All(u, t), u.next)

\* An accepted event is the newest of its thread and of all.
LEMMA AcceptGrows ==
    ASSUME NEW u, NEW w, Flows(u, w), NEW t \in Threads, u.next <= MaxSeq
    PROVE  Grown(u, Accept(w, t), t)
<1> DEFINE a == w.log[t]
           b == w.pending[t]
           e == w.next
           c == Append(b, e)
           q == All(w, t)
           f == [w.pending EXCEPT ![t] = c]
           g == [w.last EXCEPT ![t] = e]
           v == [w EXCEPT !.pending = f, !.last = g, !.next = e + 1]
<1>1. w \in Hosts /\ RowsOK(w) /\ Steady(w)  BY DEF Flows, Sound
<1>2. /\ w.pending \in [Threads -> Seq(1 .. MaxSeq)] /\ w.last \in [Threads -> 0 .. MaxSeq]
      /\ a \in Seq(1 .. MaxSeq) /\ b \in Seq(1 .. MaxSeq) /\ e \in 1 .. Unpinned /\ MaxSeq \in Nat
  BY <1>1, QueueAssumption DEF Hosts
<1>3. e = u.next /\ e \in 1 .. MaxSeq /\ e + 1 \in 1 .. Unpinned
  BY <1>2 DEF Flows, Unpinned
<1>4. v = Accept(w, t)  BY <1>1 DEF Accept, Hosts
<1>5. /\ c \in Seq(1 .. MaxSeq) /\ Len(c) = Len(b) + 1 /\ Len(b) \in Nat /\ Len(a) \in Nat
      /\ DOMAIN b = 1 .. Len(b) /\ DOMAIN a = 1 .. Len(a) /\ DOMAIN c = 1 .. Len(b) + 1
      /\ \A i \in 1 .. Len(b) : c[i] = b[i] /\ b[i] \in Nat
      /\ \A i \in 1 .. Len(a) : a[i] \in Nat
      /\ c[Len(b) + 1] = e
  BY <1>2, <1>3, SMTT(30)
<1>6. a \o c = Append(q, e) /\ q \in Seq(1 .. MaxSeq)
  <2> HIDE DEF e
  <2>1. q \in Seq(1 .. MaxSeq)  BY <1>2, ConcatProperties DEF All
  <2>2. LastOfAll(a, b, e)
    <3> HIDE DEF a, b
    <3> QED  BY <1>2, <1>3, AppendedLast
  <2> QED  BY <2>1, <2>2 DEF All, LastOfAll
<1>7. /\ f \in [Threads -> Seq(1 .. MaxSeq)] /\ g \in [Threads -> 0 .. MaxSeq]
      /\ f[t] = c /\ g[t] = e
      /\ \A s \in Threads : s # t => f[s] = w.pending[s] /\ g[s] = w.last[s]
  BY <1>2, <1>3, <1>5
<1> HIDE DEF f, g
<1>8. /\ v \in Hosts /\ v.log = w.log /\ v.pending = f /\ v.last = g /\ v.next = e + 1
      /\ v.gap = w.gap /\ v.line = w.line /\ v.req = w.req /\ v.micro = w.micro
      /\ v.freed = w.freed /\ v.pin = w.pin
  BY <1>1, <1>3, <1>7 DEF Hosts
<1> HIDE DEF v
<1>9. Steady(v)  BY <1>1, <1>8, LineFrame
<1>10. /\ InOrder(q)
       /\ \A i \in DOMAIN a : a[i] < e
       /\ \A j \in DOMAIN b : b[j] <= w.last[t]
       /\ w.last[t] < e /\ w.last[t] \in Nat
  <2>1. w.last[t] \in Nat  BY <1>2, SMTT(30)
  <2> QED  BY <1>1, <2>1 DEF RowsOK
<1>11. /\ All(v, t) = Append(q, e)
       /\ \A s \in Threads : s # t => All(v, s) = All(w, s)
  BY <1>6, <1>7, <1>8 DEF All
<1>12. InOrder(Append(q, e))
  <2>1. ASSUME NEW i \in DOMAIN q  PROVE q[i] < e
    <3>1. \/ i \in DOMAIN a /\ q[i] = a[i]
          \/ i - Len(a) \in DOMAIN b /\ q[i] = b[i - Len(a)]
      BY <1>2, Both DEF All
    <3> HIDE DEF q, a, b, e
    <3>2. \A j \in DOMAIN b : b[j] \in Nat  BY <1>5
    <3> QED  BY <1>2, <1>10, <3>1, <3>2
  <2>2. q \in Seq(Int) /\ e \in Int
    <3>1. 1 .. MaxSeq \subseteq Int  BY <1>2
    <3> QED  BY <1>2, <1>6, <3>1, SeqMonotonic
  <2> HIDE DEF q, e
  <2> QED  BY <1>10, <2>1, <2>2, OrderedLast
<1>13. RowsOK(v)
  <2> SUFFICES ASSUME NEW s \in Threads
               PROVE  /\ InOrder(All(v, s))
                      /\ \A i \in DOMAIN v.log[s] : v.log[s][i] < v.next
                      /\ \A i \in DOMAIN v.pending[s] : v.pending[s][i] <= v.last[s]
                      /\ v.last[s] < v.next
    BY DEF RowsOK
  <2>1. CASE s = t
    <3>1. v.log[s] = a /\ v.pending[s] = c /\ v.last[s] = e /\ v.next = e + 1
      BY <1>7, <1>8, <2>1
    <3>2. InOrder(All(v, s))  BY <1>11, <1>12, <2>1
    <3> HIDE DEF a, b, c, e
    <3>3. \A i \in DOMAIN c : c[i] <= e
      <4>1. ASSUME NEW i \in DOMAIN c  PROVE c[i] <= e
        <5>1. CASE i = Len(b) + 1  BY <1>2, <1>5, <5>1
        <5>2. CASE i \in DOMAIN b
          <6>1. c[i] = b[i] /\ b[i] \in Nat /\ b[i] <= w.last[t]  BY <1>5, <1>10, <5>2
          <6> QED  BY <1>2, <1>10, <6>1
        <5> QED  BY <1>5, <5>1, <5>2
      <4> QED  BY <4>1
    <3>4. \A i \in DOMAIN a : a[i] < e + 1  BY <1>2, <1>5, <1>10
    <3> QED  BY <1>2, <3>1, <3>2, <3>3, <3>4
  <2>2. CASE s # t
    <3>1. /\ InOrder(All(w, s))
          /\ \A i \in DOMAIN w.log[s] : w.log[s][i] < w.next
          /\ \A i \in DOMAIN w.pending[s] : w.pending[s][i] <= w.last[s]
          /\ w.last[s] < w.next
      BY <1>1 DEF RowsOK
    <3>2. \A i \in DOMAIN w.log[s] : w.log[s][i] \in Nat
      <4> DEFINE z == w.log[s]
      <4>1. z \in Seq(1 .. MaxSeq)  BY <1>1 DEF Hosts
      <4> HIDE DEF z
      <4>2. \A i \in DOMAIN z : z[i] \in 1 .. MaxSeq  BY <4>1, LenProperties
      <4>3. 1 .. MaxSeq \subseteq Nat  BY <1>2
      <4> QED  BY <4>2, <4>3 DEF z
    <3>3. w.last[s] \in Nat /\ w.next \in Nat  BY <1>2
    <3>4. \A i \in DOMAIN w.log[s] : w.log[s][i] < w.next + 1
      <4> DEFINE z == w.log[s]
                 N == w.next
      <4> HIDE DEF z, N
      <4>1. \A i \in DOMAIN z : z[i] < N /\ z[i] \in Nat  BY <3>1, <3>2 DEF z, N
      <4>2. \A i \in DOMAIN z : z[i] < N + 1  BY <3>3, <4>1 DEF N
      <4> QED  BY <4>2 DEF z, N
    <3>5. w.last[s] < w.next + 1  BY <3>1, <3>3
    <3> QED  BY <1>7, <1>8, <1>11, <2>2, <3>1, <3>4, <3>5
  <2> QED  BY <2>1, <2>2
<1> QED
  <2>1. Sound(v)  BY <1>8, <1>9, <1>13 DEF Sound
  <2>2. /\ u.gap \subseteq w.gap
        /\ \A s \in Threads : All(w, s) = All(u, s) /\ Len(u.log[s]) <= Len(w.log[s])
    BY DEF Flows
  <2>3. All(v, t) = Append(All(u, t), u.next)  BY <1>3, <1>11, <2>2
  <2>4. Grown(u, v, t)  BY <1>3, <1>8, <1>11, <2>1, <2>2, <2>3 DEF Grown
  <2> QED  BY <1>4, <2>4

\* What is flushed after it is accepted does not reorder it.
LEMMA GrownFlows ==
    ASSUME NEW u \in Hosts, NEW a \in Hosts, NEW t \in Threads, Grown(u, a, t), NEW w, Flows(a, w)
    PROVE  Grown(u, w, t)
<1>1. w \in Hosts  BY DEF Flows, Sound
<1>2. \A z \in Hosts : \A s \in Threads : Len(z.log[s]) \in Nat
  <2>1. \A z \in Hosts : \A s \in Threads : z.log[s] \in Seq(1 .. MaxSeq)  BY DEF Hosts
  <2> QED  BY <2>1, LenProperties
<1>3. ASSUME NEW s \in Threads  PROVE Len(u.log[s]) <= Len(w.log[s])
  <2>1. Len(u.log[s]) <= Len(a.log[s]) /\ Len(a.log[s]) <= Len(w.log[s])  BY DEF Grown, Flows
  <2>2. Len(u.log[s]) \in Nat /\ Len(a.log[s]) \in Nat /\ Len(w.log[s]) \in Nat  BY <1>1, <1>2
  <2> QED  BY <2>1, <2>2, SMTT(30)
<1> QED  BY <1>3 DEF Grown, Flows

\* Enqueue accepts one event or none.
LEMMA EnqueueGrows ==
    ASSUME NEW u \in Hosts, NEW w, Flows(u, w), NEW t \in Threads, u.next <= MaxSeq, NEW backoff
    PROVE  Flows(u, Enqueue(w, t, backoff)) \/ Grown(u, Enqueue(w, t, backoff), t)
<1> DEFINE v == MakeRoom(w, t, backoff)
           a == Accept(v, t)
<1>1. Flows(u, v)  BY RoomFlows
<1> HIDE DEF v
<1>2. Flows(u, RefuseAll(v, t)) /\ Flows(u, Refuse(v, t))  BY <1>1, RefuseFlows
<1>3. Grown(u, a, t)  BY <1>1, AcceptGrows
<1> HIDE DEF a
<1>4. Flows(a, a)  BY <1>3, Still DEF Grown
<1>5. Flows(a, Settled(a, backoff))  BY <1>4, RoomFlows
<1>6. Grown(u, Settled(a, backoff), t)  BY <1>3, <1>5, GrownFlows DEF Grown, Sound
<1>7. Enqueue(w, t, backoff) \in {RefuseAll(v, t), Refuse(v, t), Settled(a, backoff)}
  BY DEF Enqueue, v, a
<1> QED  BY <1>2, <1>6, <1>7

-----------------------------------------------------------------------------
(* From state to state of the abstract log.                                *)

\* The actions of DurableLog for thread t, between two states of the host.
Grew(u, w, t) ==
    /\ \/ All(w, t) = All(u, t)
       \/ \E e \in 1 .. MaxSeq : /\ \A i \in DOMAIN All(u, t) : All(u, t)[i] < e
                                 /\ All(w, t) = Append(All(u, t), e)
    /\ Len(w.log[t]) \in Len(u.log[t]) .. Len(All(w, t))
    /\ t \in u.gap => t \in w.gap
Truncated(u, w, t) ==
    /\ \E n \in Len(u.log[t]) .. Len(All(u, t)), k \in 0 .. Len(All(u, t)) :
        /\ k <= n
        /\ All(w, t) = SubSeq(All(u, t), 1, k) \o SubSeq(All(u, t), n + 1, Len(All(u, t)))
        /\ Len(w.log[t]) = k
    /\ t \in w.gap <=> t \in u.gap
Rebased(u, w, t) == All(w, t) = <<>> /\ Len(w.log[t]) = 0 /\ t \notin w.gap
Acknowledged(u, w, t) ==
    /\ t \in u.gap /\ t \notin w.gap
    /\ All(w, t) = SubSeq(All(u, t), 1, Len(u.log[t])) /\ Len(w.log[t]) = Len(u.log[t])
Repaired(u, w, t) ==
    /\ Truncated(u, w, t) \/ Rebased(u, w, t) \/ Acknowledged(u, w, t)
    /\ \A s \in Threads : s # t => Grew(u, w, s)

Moves(u, w) == (\A t \in Threads : Grew(u, w, t)) \/ (\E t \in Threads : Repaired(u, w, t))
Works(u, w) == Sound(w) /\ Moves(u, w)

\* Rows and queue together are one sequence.
LEMMA AllFacts ==
    ASSUME NEW w \in Hosts, NEW t \in Threads
    PROVE  /\ w.log[t] \in Seq(1 .. MaxSeq) /\ w.pending[t] \in Seq(1 .. MaxSeq)
           /\ All(w, t) \in Seq(1 .. MaxSeq)
           /\ Len(w.log[t]) \in Nat /\ Len(w.pending[t]) \in Nat /\ Len(All(w, t)) \in Nat
           /\ Len(All(w, t)) = Len(w.log[t]) + Len(w.pending[t])
<1> DEFINE a == w.log[t]
           b == w.pending[t]
<1>1. a \in Seq(1 .. MaxSeq) /\ b \in Seq(1 .. MaxSeq)  BY DEF Hosts
<1> HIDE DEF a, b
<1>2. a \o b \in Seq(1 .. MaxSeq) /\ Len(a \o b) = Len(a) + Len(b)  BY <1>1, ConcatProperties
<1>3. Len(a) \in Nat /\ Len(b) \in Nat  BY <1>1, LenProperties
<1>4. Len(a \o b) \in Nat  BY <1>2, <1>3
<1>5. All(w, t) = a \o b  BY DEF All, a, b
<1>6. /\ w.log[t] = a /\ w.pending[t] = b  BY DEF a, b
<1> QED  BY <1>1, <1>2, <1>3, <1>4, <1>5, <1>6

\* The rows are the beginning of that sequence.
LEMMA LogFits ==
    ASSUME NEW u \in Hosts, NEW w \in Hosts, NEW t \in Threads, Len(u.log[t]) <= Len(w.log[t])
    PROVE  Len(w.log[t]) \in Len(u.log[t]) .. Len(All(w, t))
<1>1. Len(u.log[t]) \in Nat /\ Len(w.log[t]) \in Nat /\ Len(w.pending[t]) \in Nat
  BY AllFacts
<1>2. Len(All(w, t)) = Len(w.log[t]) + Len(w.pending[t])  BY AllFacts
<1> DEFINE a == Len(u.log[t])
           b == Len(w.log[t])
           c == Len(w.pending[t])
           d == Len(All(w, t))
<1>3. a \in Nat /\ b \in Nat /\ c \in Nat /\ d = b + c /\ a <= b  BY <1>1, <1>2
<1> HIDE DEF a, b, c, d
<1>4. b \in a .. d  BY <1>3
<1> QED  BY <1>4 DEF a, b, d

\* A flow makes rows of the queue, thread by thread.
LEMMA FlowsGrew ==
    ASSUME NEW u \in Hosts, NEW w, Flows(u, w), NEW t \in Threads
    PROVE  Grew(u, w, t)
<1>1. w \in Hosts /\ All(w, t) = All(u, t) /\ Len(u.log[t]) <= Len(w.log[t]) /\ u.gap \subseteq w.gap
  BY DEF Flows, Sound
<1>2. Len(w.log[t]) \in Len(u.log[t]) .. Len(All(w, t))  BY <1>1, LogFits
<1> QED  BY <1>1, <1>2 DEF Grew

\* A flow is work of the log,
LEMMA FlowsWorks ==
    ASSUME NEW u \in Hosts, NEW w, Flows(u, w)
    PROVE  Works(u, w)
  BY FlowsGrew DEF Works, Moves, Flows

\* and so is an accepted event,
LEMMA GrownWorks ==
    ASSUME NEW u, Sound(u), NEW w, NEW t \in Threads, Grown(u, w, t)
    PROVE  Works(u, w)
<1>1. u \in Hosts /\ w \in Hosts /\ u.gap \subseteq w.gap  BY DEF Grown, Sound
<1>2. ASSUME NEW s \in Threads  PROVE Len(w.log[s]) \in Len(u.log[s]) .. Len(All(w, s))
  <2>1. Len(u.log[s]) <= Len(w.log[s])  BY DEF Grown
  <2> QED  BY <1>1, <2>1, LogFits
<1>3. ASSUME NEW i \in DOMAIN All(u, t)  PROVE All(u, t)[i] < u.next
  <2> DEFINE a == u.log[t]
             b == u.pending[t]
  <2>1. a \in Seq(1 .. MaxSeq) /\ b \in Seq(1 .. MaxSeq)  BY <1>1, AllFacts
  <2>2. /\ \A j \in DOMAIN a : a[j] < u.next
        /\ \A j \in DOMAIN b : b[j] <= u.last[t]
        /\ u.last[t] < u.next
    BY DEF Sound, RowsOK
  <2>3. \/ i \in DOMAIN a /\ All(u, t)[i] = a[i]
        \/ i - Len(a) \in DOMAIN b /\ All(u, t)[i] = b[i - Len(a)]
    BY <2>1, Both DEF All
  <2>4. u.last[t] \in Int /\ u.next \in Int  BY <1>1 DEF Hosts
  <2> HIDE DEF a, b
  <2>5. \A j \in DOMAIN b : b[j] \in Int
    <3>1. \A j \in DOMAIN b : b[j] \in 1 .. MaxSeq  BY <2>1, LenProperties
    <3> QED  BY <3>1, QueueAssumption
  <2>6. CASE i \in DOMAIN a /\ All(u, t)[i] = a[i]  BY <2>2, <2>6
  <2>7. CASE i - Len(a) \in DOMAIN b /\ All(u, t)[i] = b[i - Len(a)]  BY <2>2, <2>4, <2>5, <2>7
  <2> QED  BY <2>3, <2>6, <2>7
<1>4. Grew(u, w, t)
  <2>1. u.next \in 1 .. MaxSeq /\ All(w, t) = Append(All(u, t), u.next)  BY DEF Grown
  <2> QED  BY <1>1, <1>2, <1>3, <2>1 DEF Grew
<1>5. \A s \in Threads : s # t => Grew(u, w, s)  BY <1>1, <1>2 DEF Grown, Grew
<1>6. \A s \in Threads : Grew(u, w, s)  BY <1>4, <1>5
<1> QED  BY <1>6 DEF Works, Moves, Grown

\* and a step on the lines after either.
LEMMA LineWorks ==
    ASSUME NEW u, NEW w, Works(u, w), NEW v \in Hosts, Steady(v), SameRows(w, v)
    PROVE  Works(u, v)
<1>1. Sound(v)  BY RowFrame DEF Works, Sound, SameRows
<1>2. \A t \in Threads : All(v, t) = All(w, t)  BY DEF SameRows, All
<1>3. v.log = w.log /\ v.gap = w.gap  BY DEF SameRows
<1>4. \A t \in Threads : Grew(u, w, t) => Grew(u, v, t)  BY <1>2, <1>3 DEF Grew
<1>5. \A t \in Threads : Truncated(u, w, t) => Truncated(u, v, t)  BY <1>2, <1>3 DEF Truncated
<1>6. \A t \in Threads : Rebased(u, w, t) => Rebased(u, v, t)  BY <1>2, <1>3 DEF Rebased
<1>7. \A t \in Threads : Acknowledged(u, w, t) => Acknowledged(u, v, t)
  BY <1>2, <1>3 DEF Acknowledged
<1>8. \A t \in Threads : Repaired(u, w, t) => Repaired(u, v, t)
  BY <1>4, <1>5, <1>6, <1>7 DEF Repaired
<1>9. Moves(u, v)  BY <1>4, <1>8 DEF Works, Moves
<1> QED  BY <1>1, <1>9 DEF Works

-----------------------------------------------------------------------------
(* Fences and mutations.                                                   *)

\* A request moves on after work on the rows.
LEMMA AtWorks ==
    ASSUME NEW u, NEW w, Works(u, w), NEW x \in Requests, NEW pc \in Pcs \ {"new", "cancelled"},
           w.req[x].pc # "new", x \notin ToSet(w.micro),
           pc \in Held \/ (~Stands(w, x) /\ (IsFence(w, x) => x \in w.freed))
    PROVE  Works(u, At(w, x, pc))
<1>1. w \in Hosts /\ Steady(w)  BY DEF Works, Sound
<1>2. At(w, x, pc) \in Hosts /\ Steady(At(w, x, pc)) /\ SameRows(w, At(w, x, pc))
  BY <1>1, AtSteady
<1> QED  BY <1>2, LineWorks

\* What a request was before an operator on lines it is after it.
LEMMA LineStepMicro ==
    ASSUME NEW w, NEW v, LineStep(w, v), NEW x \in Requests, x \notin ToSet(w.micro),
           w.req[x].pc \notin {"new", "waiting"}
    PROVE  /\ x \notin ToSet(v.micro) /\ v.req[x].pc = w.req[x].pc
           /\ IsFence(v, x) = IsFence(w, x)
  BY DEF LineStep

\* A mutation that ends frees its thread.
LEMMA FinishWorks ==
    ASSUME NEW u, NEW w, Works(u, w), NEW x \in Requests, NEW pc \in {"refused", "done"},
           w.req[x].pc \notin {"new", "waiting"}, x \notin ToSet(w.micro), ~IsFence(w, x)
    PROVE  Works(u, Finish(w, x, pc))
<1> DEFINE v == Settle(w, x)
<1>1. w \in Hosts /\ Steady(w)  BY DEF Works, Sound
<1>2. v \in Hosts /\ Steady(v) /\ LineStep(w, v) /\ ~Stands(v, x)  BY <1>1, SettleSteady
<1> HIDE DEF v
<1>3. Works(u, v)  BY <1>2, LineWorks DEF LineStep
<1>4. x \notin ToSet(v.micro) /\ v.req[x].pc # "new" /\ ~IsFence(v, x)
  BY <1>2, LineStepMicro
<1>5. pc \in Pcs \ {"new", "cancelled"}  BY DEF Pcs
<1>6. Works(u, At(v, x, pc))  BY <1>2, <1>3, <1>4, <1>5, AtWorks
<1> QED  BY <1>6 DEF Finish, v

\* A reader that ends frees its thread and its pin.
LEMMA ReleaseWorks ==
    ASSUME NEW u, NEW w, Works(u, w), NEW x \in Requests, NEW pc \in {"refused", "served"},
           w.req[x].pc \notin {"new", "waiting"}, x \notin ToSet(w.micro)
    PROVE  Works(u, At(Release(w, x), x, pc))
<1> DEFINE v == Release(w, x)
<1>1. w \in Hosts /\ Steady(w)  BY DEF Works, Sound
<1>2. v \in Hosts /\ Steady(v) /\ LineStep(w, v) /\ ~Stands(v, x) /\ x \in v.freed
  BY <1>1, ReleaseSteady
<1> HIDE DEF v
<1>3. Works(u, v)  BY <1>2, LineWorks DEF LineStep
<1>4. x \notin ToSet(v.micro) /\ v.req[x].pc # "new"  BY <1>2, LineStepMicro
<1>5. pc \in Pcs \ {"new", "cancelled"}  BY DEF Pcs
<1>6. Works(u, At(v, x, pc))  BY <1>2, <1>3, <1>4, <1>5, AtWorks
<1> QED  BY <1>6 DEF v

\* flushFence, one round.
LEMMA FenceRoundWorks ==
    ASSUME NEW u \in Hosts, NEW w, Flows(u, w), NEW x \in Requests, NEW late, IsFence(w, x),
           w.req[x].pc \in {"granted", "flushing"}, x \notin ToSet(w.micro)
    PROVE  Works(u, FenceRound(w, x, late))
<1> DEFINE t == On(w, x)
           b == w.req[x].through
           v == FlushChunk(w, t, b)
           l == Learn(w, t)
<1>1. w \in Hosts /\ Steady(w)  BY DEF Flows, Sound
<1>2. t \in Threads /\ b \in Int
  <2>1. w.req[x] \in Request  BY <1>1 DEF Hosts
  <2>2. b \in Int  BY <2>1 DEF Request
  <2> QED  BY <1>1, <2>2 DEF Steady, MadeOK
<1>3. Flows(u, v) /\ Flows(u, l)  BY <1>2, ChunkFlows, RefuseFlows
<1>4. Works(u, w) /\ Works(u, v) /\ Works(u, l)  BY <1>3, FlowsWorks
<1>5. v.req = w.req /\ v.micro = w.micro  BY <1>1, ChunkKeeps DEF ChunkFrame
<1>6. l.req = w.req /\ l.micro = w.micro  BY <1>1 DEF Learn, Hosts
<1> HIDE DEF v, l
<1>7. Works(u, At(Release(w, x), x, "refused")) /\ Works(u, At(Release(l, x), x, "refused"))
  BY <1>4, <1>6, ReleaseWorks
<1>8. \A pc \in {"flushing", "reading"} : Works(u, At(v, x, pc))
  <2> SUFFICES ASSUME NEW pc \in {"flushing", "reading"}  PROVE Works(u, At(v, x, pc))
    OBVIOUS
  <2>1. pc \in Held /\ pc \in Pcs \ {"new", "cancelled"}  BY DEF Held, Unsettled, Waiting, Pcs
  <2>2. v.req[x].pc # "new" /\ x \notin ToSet(v.micro)  BY <1>5
  <2> QED  BY <1>4, <2>1, <2>2, AtWorks
<1>9. \/ FenceRound(w, x, late) = At(Release(w, x), x, "refused")
      \/ FenceRound(w, x, late) = At(Release(l, x), x, "refused")
      \/ \E pc \in {"flushing", "reading"} : FenceRound(w, x, late) = At(v, x, pc)
  BY DEF FenceRound, v, l
<1> QED  BY <1>7, <1>8, <1>9

\* What an applied operation drops: the queue, and the evidence it repairs.
LEMMA SupersedeFacts ==
    ASSUME NEW w, Sound(w), NEW t \in Threads
    PROVE  /\ Sound(Supersede(w, t)) /\ Supersede(w, t).log = w.log
           /\ Supersede(w, t).pending[t] = <<>>
           /\ \A s \in Threads : s # t => Supersede(w, t).pending[s] = w.pending[s]
           /\ Supersede(w, t).gap = w.gap \ {t}
           /\ Supersede(w, t).req = w.req /\ Supersede(w, t).micro = w.micro
<1> DEFINE f == [w.pending EXCEPT ![t] = <<>>]
           g == [w.last EXCEPT ![t] = 0]
           P == [w.pin EXCEPT ![t] = Unpinned]
           v == [w EXCEPT !.pending = f, !.last = g, !.pin = P, !.tainted = @ \ {t},
                          !.owed = @ \ {t}, !.gap = @ \ {t}, !.touched = @ \ {t}, !.hole = @ \ {t}]
<1>1. w \in Hosts /\ RowsOK(w) /\ Steady(w)  BY DEF Sound
<1>2. v = Supersede(w, t)  BY <1>1 DEF Supersede, Discard, Hosts
<1>3. MaxSeq \in Nat  BY QueueAssumption
<1>4. /\ f \in [Threads -> Seq(1 .. MaxSeq)] /\ f[t] = <<>>
      /\ \A s \in Threads : s # t => f[s] = w.pending[s]
  <2>1. w.pending \in [Threads -> Seq(1 .. MaxSeq)]  BY <1>1 DEF Hosts
  <2> QED  BY <2>1
<1>5. /\ g \in [Threads -> 0 .. MaxSeq] /\ g[t] = 0
      /\ \A s \in Threads : s # t => g[s] = w.last[s]
  <2>1. w.last \in [Threads -> 0 .. MaxSeq]  BY <1>1 DEF Hosts
  <2> QED  BY <1>3, <2>1
<1>6. /\ P \in [Threads -> 0 .. Unpinned] /\ P[t] = Unpinned
      /\ \A s \in Threads : s # t => P[s] = w.pin[s]
  <2>1. w.pin \in [Threads -> 0 .. Unpinned]  BY <1>1 DEF Hosts
  <2>2. Unpinned \in 0 .. Unpinned  BY <1>3 DEF Unpinned
  <2> QED  BY <2>1, <2>2
<1> HIDE DEF f, g, P
<1>7. /\ v \in Hosts /\ v.log = w.log /\ v.pending = f /\ v.last = g /\ v.pin = P
      /\ v.next = w.next /\ v.gap = w.gap \ {t} /\ v.line = w.line /\ v.req = w.req
      /\ v.micro = w.micro /\ v.freed = w.freed
  BY <1>1, <1>4, <1>5, <1>6, ZenonT(40) DEF Hosts
<1> HIDE DEF v
<1>8. RowsOK(v)
  <2> SUFFICES ASSUME NEW s \in Threads
               PROVE  /\ InOrder(All(v, s))
                      /\ \A i \in DOMAIN v.log[s] : v.log[s][i] < v.next
                      /\ \A i \in DOMAIN v.pending[s] : v.pending[s][i] <= v.last[s]
                      /\ v.last[s] < v.next
    BY DEF RowsOK
  <2>1. /\ InOrder(All(w, s))
        /\ \A i \in DOMAIN w.log[s] : w.log[s][i] < w.next
        /\ \A i \in DOMAIN w.pending[s] : w.pending[s][i] <= w.last[s]
        /\ w.last[s] < w.next
    BY <1>1 DEF RowsOK
  <2>2. CASE s # t  BY <1>4, <1>5, <1>7, <2>1, <2>2 DEF All
  <2>3. CASE s = t
    <3>1. w.log[t] \in Seq(1 .. MaxSeq) /\ w.pending[t] \in Seq(1 .. MaxSeq)
      BY <1>1, AllFacts
    <3>2. All(v, t) = w.log[t]
      <4>1. w.log[t] \o <<>> = w.log[t]  BY <3>1, ConcatEmptySeq
      <4> QED  BY <1>4, <1>7, <4>1 DEF All
    <3>3. InOrder(w.log[t])
      <4> DEFINE a == w.log[t]
                 b == w.pending[t]
                 q == a \o b
      <4>1. InOrder(q)  BY <2>1, <2>3 DEF All
      <4>2. a \in Seq(1 .. MaxSeq) /\ b \in Seq(1 .. MaxSeq)  BY <3>1
      <4> HIDE DEF a, b
      <4>3. /\ Len(a) \in Nat /\ Len(b) \in Nat /\ DOMAIN a = 1 .. Len(a)
            /\ DOMAIN q = 1 .. Len(a) + Len(b)
            /\ \A i \in 1 .. Len(a) + Len(b) : q[i] = IF i <= Len(a) THEN a[i] ELSE b[i - Len(a)]
        BY <4>2, ConcatProperties, LenProperties
      <4> HIDE DEF q
      <4>4. \A i \in DOMAIN a : i \in DOMAIN q /\ q[i] = a[i]  BY <4>3
      <4>5. InOrder(a)  BY <4>1, <4>4 DEF InOrder
      <4> QED  BY <4>5 DEF a
    <3>4. 0 < w.next  BY <1>1 DEF Hosts
    <3> QED  BY <1>4, <1>5, <1>7, <2>1, <2>3, <3>2, <3>3, <3>4
  <2> QED  BY <2>2, <2>3
<1>9. Steady(v)
  <2>1. LinesOK(v) /\ MicroOK(v) /\ MadeOK(v)
    BY <1>1, <1>7 DEF Steady, LinesOK, MicroOK, MadeOK, On, IsFence
  <2>2. PinsOK(v)  BY <1>1, <1>6, <1>7 DEF Steady, PinsOK, On, IsFence
  <2> QED  BY <2>1, <2>2 DEF Steady
<1> QED  BY <1>2, <1>4, <1>7, <1>8, <1>9 DEF Sound

\* Rows that are cut: after the k-th, the queue stays.
CutAtRow(w, v, t, k) ==
    /\ k \in 0 .. Len(w.log[t])
    /\ v.log[t] = SubSeq(w.log[t], 1, k)
    /\ \A s \in Threads : s # t => v.log[s] = w.log[s]
    /\ v.pending = w.pending /\ v.last = w.last /\ v.next = w.next /\ v.line = w.line
    /\ v.req = w.req /\ v.micro = w.micro /\ v.freed = w.freed /\ v.pin = w.pin
\* Rows cut after the k-th keep their order.
LEMMA CutSound ==
    ASSUME NEW w, Sound(w), NEW t \in Threads, NEW k, NEW v \in Hosts, CutAtRow(w, v, t, k)
    PROVE  Sound(v) /\ ShortensTo(1 .. MaxSeq, w.log[t], w.pending[t], k)
<1>1. w \in Hosts /\ RowsOK(w) /\ Steady(w) /\ CutAtRow(w, v, t, k)  BY DEF Sound
<1> USE DEF CutAtRow
<1>2. w.log[t] \in Seq(1 .. MaxSeq) /\ w.pending[t] \in Seq(1 .. MaxSeq) /\ Len(w.log[t]) \in Nat
  BY <1>1, AllFacts
<1>3. ShortensTo(1 .. MaxSeq, w.log[t], w.pending[t], k)  BY <1>2, Shortened
<1>4. RowsOK(v)
  <2> SUFFICES ASSUME NEW s \in Threads
               PROVE  /\ InOrder(All(v, s))
                      /\ \A i \in DOMAIN v.log[s] : v.log[s][i] < v.next
                      /\ \A i \in DOMAIN v.pending[s] : v.pending[s][i] <= v.last[s]
                      /\ v.last[s] < v.next
    BY DEF RowsOK
  <2>1. /\ InOrder(All(w, s))
        /\ \A i \in DOMAIN w.log[s] : w.log[s][i] < w.next
        /\ \A i \in DOMAIN w.pending[s] : w.pending[s][i] <= w.last[s]
        /\ w.last[s] < w.next
    BY <1>1 DEF RowsOK
  <2>2. CASE s # t  BY <2>1, <2>2 DEF All
  <2>3. CASE s = t
    <3> DEFINE a == w.log[t]
               c == SubSeq(a, 1, k)
    <3>1. InOrder(All(v, t))  BY <1>3, <2>1, <2>3 DEF All, ShortensTo
    <3>2. c \in Seq(1 .. MaxSeq) /\ Len(c) = k /\ \A i \in 1 .. k : c[i] = a[i]
      BY <1>3 DEF ShortensTo
    <3> HIDE DEF c
    <3>3. \A i \in DOMAIN c : i \in DOMAIN a /\ c[i] = a[i]
      <4> HIDE DEF a
      <4>1. DOMAIN c = 1 .. k /\ DOMAIN a = 1 .. Len(a)  BY <1>2, <3>2, LenProperties DEF a
      <4>2. k \in 0 .. Len(a) /\ Len(a) \in Nat  BY <1>2 DEF a
      <4> QED  BY <3>2, <4>1, <4>2
    <3> QED  BY <2>1, <2>3, <3>1, <3>3 DEF c
  <2> QED  BY <2>2, <2>3
<1> QED  BY <1>1, <1>3, <1>4, LineFrame DEF Sound

\* A truncation, after whatever was flushed before it in the same step.
LEMMA CutWorks ==
    ASSUME NEW u \in Hosts, NEW w, Flows(u, w), w.gap = u.gap, NEW t \in Threads,
           NEW k \in 0 .. Len(w.log[t])
    PROVE  LET v == [w EXCEPT !.log[t] = SubSeq(@, 1, k)]
           IN Works(u, v) /\ v.req = w.req /\ v.micro = w.micro
<1> DEFINE a == w.log[t]
           b == w.pending[t]
           c == SubSeq(a, 1, k)
           f == [w.log EXCEPT ![t] = c]
           v == [w EXCEPT !.log = f]
<1>1. w \in Hosts /\ Sound(w)  BY DEF Flows, Sound
<1>2. a \in Seq(1 .. MaxSeq) /\ b \in Seq(1 .. MaxSeq)  BY <1>1, AllFacts
<1>3. ShortensTo(1 .. MaxSeq, a, b, k)  BY <1>2, Shortened
<1>4. v = [w EXCEPT !.log[t] = SubSeq(@, 1, k)]  BY <1>1 DEF Hosts
<1>5. c \in Seq(1 .. MaxSeq) /\ Len(c) = k  BY <1>3 DEF ShortensTo
<1> HIDE DEF c
<1>6. /\ f \in [Threads -> Seq(1 .. MaxSeq)] /\ f[t] = c
      /\ \A s \in Threads : s # t => f[s] = w.log[s]
  <2>1. w.log \in [Threads -> Seq(1 .. MaxSeq)]  BY <1>1 DEF Hosts
  <2> QED  BY <1>5, <2>1
<1> HIDE DEF f
<1>7. /\ v \in Hosts /\ v.log = f /\ v.pending = w.pending /\ v.last = w.last
      /\ v.next = w.next /\ v.line = w.line /\ v.req = w.req /\ v.micro = w.micro
      /\ v.freed = w.freed /\ v.pin = w.pin /\ v.gap = w.gap
  BY <1>1, <1>6 DEF Hosts
<1> HIDE DEF v
<1>8. Sound(v)
  <2>1. v.log[t] = SubSeq(w.log[t], 1, k)  BY <1>6, <1>7 DEF c
  <2>2. \A s \in Threads : s # t => v.log[s] = w.log[s]  BY <1>6, <1>7
  <2>3. CutAtRow(w, v, t, k)  BY <1>7, <2>1, <2>2 DEF CutAtRow
  <2> QED  BY <1>1, <1>7, <2>3, CutSound
<1>9. \A s \in Threads : s # t => Grew(u, v, s)
  <2>1. \A s \in Threads : Grew(u, w, s)  BY FlowsGrew
  <2>2. \A s \in Threads : s # t => All(v, s) = All(w, s) /\ v.log[s] = w.log[s]
    BY <1>6, <1>7 DEF All
  <2> QED  BY <1>7, <2>1, <2>2 DEF Grew
<1>10. Truncated(u, v, t)
  <2>1. All(w, t) = All(u, t) /\ All(w, t) = a \o b  BY DEF Flows, All
  <2>2. All(v, t) = c \o b  BY <1>6, <1>7, SMTT(30) DEF All
  <2> DEFINE q == All(u, t)
             n == Len(a)
  <2>3. c \o b = SubSeq(q, 1, k) \o SubSeq(q, n + 1, Len(q)) /\ n <= Len(q)
    BY <1>3, <2>1 DEF ShortensTo, c
  <2>4. Len(u.log[t]) <= n  BY DEF Flows
  <2>5. Len(u.log[t]) \in Nat /\ Len(q) \in Nat /\ n \in Nat  BY <1>1, AllFacts
  <2>6. n \in Len(u.log[t]) .. Len(q) /\ k \in 0 .. Len(q) /\ k <= n
    <3> DEFINE d == Len(u.log[t])
               e == Len(q)
    <3>1. k \in 0 .. n /\ d <= n /\ n <= e /\ d \in Nat /\ e \in Nat /\ n \in Nat
      BY <2>3, <2>4, <2>5
    <3> HIDE DEF d, e, n
    <3>2. n \in d .. e /\ k \in 0 .. e /\ k <= n  BY <3>1
    <3> QED  BY <3>2 DEF d, e
  <2>7. Len(v.log[t]) = k  BY <1>5, <1>6, <1>7
  <2>8. v.gap = u.gap  BY <1>7
  <2> HIDE DEF q, n
  <2> QED  BY <2>2, <2>3, <2>6, <2>7, <2>8 DEF Truncated, q
<1>11. Works(u, v)  BY <1>8, <1>9, <1>10 DEF Works, Moves, Repaired
<1> QED  BY <1>4, <1>7, <1>11

\* A rebase or a deletion: the rows go with the queue.
Emptied(w, t, v) ==
    \/ v = [Supersede(w, t) EXCEPT !.log[t] = <<>>]
    \/ v = [Supersede(w, t) EXCEPT !.log[t] = <<>>, !.gone = @ \cup {t}]
\* A transcript replaced or deleted goes with its queue and its gap.
LEMMA RebaseWorks ==
    ASSUME NEW u \in Hosts, NEW w, Flows(u, w), NEW t \in Threads, NEW v, Emptied(w, t, v)
    PROVE  Works(u, v) /\ v.req = w.req /\ v.micro = w.micro
<1> DEFINE z == Supersede(w, t)
           f == [z.log EXCEPT ![t] = <<>>]
<1>1. Sound(w)  BY DEF Flows
<1>2. /\ Sound(z) /\ z.log = w.log /\ z.pending[t] = <<>>
      /\ \A s \in Threads : s # t => z.pending[s] = w.pending[s]
      /\ z.gap = w.gap \ {t} /\ z.req = w.req /\ z.micro = w.micro
  BY <1>1, SupersedeFacts
<1> HIDE DEF z
<1>3. z \in Hosts  BY <1>2 DEF Sound
<1>4. /\ f \in [Threads -> Seq(1 .. MaxSeq)] /\ f[t] = <<>>
      /\ \A s \in Threads : s # t => f[s] = z.log[s]
  <2>1. z.log \in [Threads -> Seq(1 .. MaxSeq)]  BY <1>3 DEF Hosts
  <2> QED  BY <2>1
<1>5. /\ v \in Hosts /\ v.log = f /\ v.pending = z.pending /\ v.last = z.last
      /\ v.next = z.next /\ v.line = z.line /\ v.req = z.req /\ v.micro = z.micro
      /\ v.freed = z.freed /\ v.pin = z.pin /\ v.gap = z.gap
  <2>1. v = [z EXCEPT !.log = f] \/ v = [z EXCEPT !.log = f, !.gone = @ \cup {t}]
    BY <1>3 DEF Hosts, z, Emptied
  <2> HIDE DEF f
  <2>2. CASE v = [z EXCEPT !.log = f]  BY <1>3, <1>4, <2>2 DEF Hosts
  <2>3. CASE v = [z EXCEPT !.log = f, !.gone = @ \cup {t}]  BY <1>3, <1>4, <2>3 DEF Hosts
  <2> QED  BY <2>1, <2>2, <2>3
<1> HIDE DEF f
<1>6. Sound(v)
  <2>1. Len(z.log[t]) \in Nat  BY <1>3, AllFacts
  <2> DEFINE k == 0
  <2>2. k \in 0 .. Len(z.log[t])  BY <2>1
  <2>3. SubSeq(z.log[t], 1, k) = <<>>  BY SubSeqEmpty
  <2>4. v.log[t] = SubSeq(z.log[t], 1, k)  BY <1>4, <1>5, <2>3
  <2> HIDE DEF k
  <2>5. \A s \in Threads : s # t => v.log[s] = z.log[s]  BY <1>4, <1>5
  <2>6. CutAtRow(z, v, t, k)  BY <1>5, <2>2, <2>4, <2>5 DEF CutAtRow
  <2> QED  BY <1>2, <1>5, <2>6, CutSound
<1>7. All(v, t) = <<>> /\ Len(v.log[t]) = 0 /\ t \notin v.gap
  <2>1. <<>> \o <<>> = <<>>  BY EmptySeq, ConcatEmptySeq
  <2> QED  BY <1>2, <1>4, <1>5, <2>1 DEF All
<1>8. \A s \in Threads : s # t => Grew(u, v, s)
  <2>1. \A s \in Threads : Grew(u, w, s)  BY FlowsGrew
  <2>2. \A s \in Threads : s # t => All(v, s) = All(w, s) /\ v.log[s] = w.log[s]
    BY <1>2, <1>4, <1>5 DEF All
  <2> QED  BY <1>2, <1>5, <2>1, <2>2 DEF Grew
<1>9. Works(u, v)  BY <1>6, <1>7, <1>8 DEF Works, Moves, Repaired, Rebased
<1> QED  BY <1>2, <1>5, <1>9

\* Rows that were all there before are the beginning of what is.
LEMMA RowsFirst ==
    ASSUME NEW R, NEW a \in Seq(R), NEW b \in Seq(R)
    PROVE  SubSeq(a \o b, 1, Len(a)) = a
<1>1. Len(a) \in Nat  BY LenProperties
<1>2. CASE Len(a) = 0
  <2>1. SubSeq(a \o b, 1, Len(a)) = <<>>  BY <1>2, SubSeqEmpty
  <2>2. a = <<>>  BY <1>2, EmptySeq
  <2> QED  BY <2>1, <2>2
<1>3. CASE Len(a) # 0
  <2>1. 1 \in 1 .. Len(a) /\ Len(a) \in 1 .. Len(a)  BY <1>1, <1>3
  <2>2. SubSeq(a \o b, 1, Len(a)) = SubSeq(a, 1, Len(a))  BY <2>1, SubSeqOfConcat1
  <2>3. SubSeq(a, 1, Len(a)) = a  BY SubSeqFull
  <2> QED  BY <2>2, <2>3
<1> QED  BY <1>2, <1>3

\* An acknowledgement: the rows there are become the transcript.
LEMMA AcknowledgeWorks ==
    ASSUME NEW u \in Hosts, NEW w, Flows(u, w), NEW t \in Threads, t \in u.gap,
           Len(w.log[t]) = Len(u.log[t])
    PROVE  /\ Works(u, Supersede(w, t)) /\ Supersede(w, t).req = w.req
           /\ Supersede(w, t).micro = w.micro
<1> DEFINE v == Supersede(w, t)
<1>1. Sound(w) /\ w \in Hosts  BY DEF Flows, Sound
<1>2. /\ Sound(v) /\ v.log = w.log /\ v.pending[t] = <<>>
      /\ \A s \in Threads : s # t => v.pending[s] = w.pending[s]
      /\ v.gap = w.gap \ {t} /\ v.req = w.req /\ v.micro = w.micro
  BY <1>1, SupersedeFacts
<1> HIDE DEF v
<1>3. \A s \in Threads : s # t => Grew(u, v, s)
  <2>1. \A s \in Threads : Grew(u, w, s)  BY FlowsGrew
  <2>2. \A s \in Threads : s # t => All(v, s) = All(w, s)  BY <1>2 DEF All
  <2> QED  BY <1>2, <2>1, <2>2 DEF Grew
<1>4. All(v, t) = SubSeq(All(u, t), 1, Len(u.log[t]))
  <2> DEFINE a == w.log[t]
             b == w.pending[t]
  <2>1. a \in Seq(1 .. MaxSeq) /\ b \in Seq(1 .. MaxSeq) /\ Len(a) \in Nat  BY <1>1, AllFacts
  <2>2. All(u, t) = a \o b  BY DEF Flows, All
  <2>3. All(v, t) = a
    <3>1. a \o <<>> = a  BY <2>1, ConcatEmptySeq
    <3> QED  BY <1>2, <3>1 DEF All
  <2>4. SubSeq(a \o b, 1, Len(a)) = a
    <3> DEFINE R == 1 .. MaxSeq
    <3>1. a \in Seq(R) /\ b \in Seq(R)  BY <2>1
    <3> HIDE DEF a, b, R
    <3> QED  BY <3>1, RowsFirst
  <2>5. Len(u.log[t]) = Len(a)  OBVIOUS
  <2> HIDE DEF a, b
  <2> QED  BY <2>2, <2>3, <2>4, <2>5
<1>5. Acknowledged(u, v, t)  BY <1>2, <1>4 DEF Acknowledged
<1>6. Works(u, v)  BY <1>2, <1>3, <1>5 DEF Works, Moves, Repaired
<1> QED  BY <1>2, <1>6 DEF v

\* A mutation whose turn it is.
Mutating(w, x) ==
    /\ x \in Requests /\ ~IsFence(w, x)
    /\ w.req[x].pc \notin {"new", "waiting"} /\ x \notin ToSet(w.micro)

\* A request that is no fence and was made is a mutation.
LEMMA MutationKind ==
    ASSUME NEW w \in Hosts, Steady(w), NEW x, Mutating(w, x)
    PROVE  On(w, x) \in Threads /\ w.req[x].kind \in Mutations
<1>1. w.req[x] \in Request  BY DEF Mutating, Hosts
<1>2. w.req[x].kind \in Kinds \cup {"none"}  BY <1>1 DEF Request
<1>3. On(w, x) \in Threads /\ w.req[x].kind # "none" /\ w.req[x].kind # "read"
  BY DEF Mutating, Steady, MadeOK, IsFence
<1> QED  BY <1>2, <1>3, LimitsAssumption DEF Mutations

\* A mutation ends after its operation.
LEMMA DoneWorks ==
    ASSUME NEW u, NEW w, Works(u, w), NEW x, Mutating(w, x), NEW pc \in {"refused", "done"}
    PROVE  Works(u, Finish(w, x, pc))
  BY FinishWorks DEF Mutating

\* The synchronous operation of a mutation, applied or refused.
LEMMA ApplyWorks ==
    ASSUME NEW u \in Hosts, NEW w, Flows(u, w), w.gap = u.gap, NEW x, Mutating(w, x), NEW keep \in Nat,
           w.req[x].kind = "acknowledge" /\ On(w, x) \in u.gap
              => Len(w.log[On(w, x)]) = Len(u.log[On(w, x)])
    PROVE  Works(u, Apply(w, x, keep))
<1> DEFINE t == On(w, x)
           kind == w.req[x].kind
           k == Least(keep, Len(w.log[t]))
           c == [w EXCEPT !.log[t] = SubSeq(@, 1, k)]
           r == [Supersede(w, t) EXCEPT !.log[t] = <<>>]
           d == [Supersede(w, t) EXCEPT !.log[t] = <<>>, !.gone = @ \cup {t}]
           a == Supersede(w, t)
<1>1. w \in Hosts /\ Steady(w)  BY DEF Flows, Sound
<1>2. t \in Threads /\ kind \in Mutations  BY <1>1, MutationKind
<1>3. Works(u, Finish(w, x, "refused"))  BY FlowsWorks, DoneWorks
<1>4. Works(u, Finish(c, x, "done"))
  <2>1. Len(w.log[t]) \in Nat  BY <1>1, <1>2, AllFacts
  <2>2. k \in 0 .. Len(w.log[t])  BY <2>1 DEF Least
  <2> HIDE DEF k, t
  <2>3. Works(u, c) /\ c.req = w.req /\ c.micro = w.micro  BY <1>2, <2>2, CutWorks
  <2> HIDE DEF c
  <2>4. Mutating(c, x)  BY <2>3 DEF Mutating, IsFence
  <2> QED  BY <2>3, <2>4, DoneWorks
<1>5. Works(u, Finish(r, x, "done"))
  <2>1. Emptied(w, t, r)  BY DEF Emptied
  <2> HIDE DEF r
  <2>2. Works(u, r) /\ r.req = w.req /\ r.micro = w.micro  BY <1>2, <2>1, RebaseWorks
  <2>3. Mutating(r, x)  BY <2>2 DEF Mutating, IsFence
  <2> QED  BY <2>2, <2>3, DoneWorks
<1>6. Works(u, Finish(d, x, "done"))
  <2>1. Emptied(w, t, d)  BY DEF Emptied
  <2> HIDE DEF d
  <2>2. Works(u, d) /\ d.req = w.req /\ d.micro = w.micro  BY <1>2, <2>1, RebaseWorks
  <2>3. Mutating(d, x)  BY <2>2 DEF Mutating, IsFence
  <2> QED  BY <2>2, <2>3, DoneWorks
<1>7. ASSUME kind = "acknowledge", t \in w.gap  PROVE Works(u, Finish(a, x, "done"))
  <2>1. Works(u, a) /\ a.req = w.req /\ a.micro = w.micro  BY <1>2, <1>7, AcknowledgeWorks
  <2> HIDE DEF a
  <2>2. Mutating(a, x)  BY <2>1 DEF Mutating, IsFence
  <2> QED  BY <2>1, <2>2, DoneWorks
<1>8. \/ Apply(w, x, keep) \in {Finish(w, x, "refused"), Finish(c, x, "done"),
                                Finish(r, x, "done"), Finish(d, x, "done")}
      \/ kind = "acknowledge" /\ t \in w.gap /\ Apply(w, x, keep) = Finish(a, x, "done")
  <2>1. c = [w EXCEPT !.log[t] = SubSeq(@, 1, Least(keep, Len(@)))]  OBVIOUS
  <2> DEFINE A == Apply(w, x, keep)
             z == CASE kind = "truncate" -> c
                    [] kind = "rebase" -> r
                    [] kind = "delete" -> d
                    [] OTHER -> a
  <2>2. A = IF t \in w.failing \/ (kind = "acknowledge" /\ t \notin w.gap)
            THEN Finish(w, x, "refused") ELSE Finish(z, x, "done")
    BY <2>1 DEF Apply
  <2> HIDE DEF c, r, d, a, A, t, kind
  <2>3. z \in {c, r, d} \/ (kind = "acknowledge" /\ z = a)  BY <1>2 DEF Mutations
  <2> HIDE DEF z
  <2>4. A \in {Finish(w, x, "refused"), Finish(c, x, "done"), Finish(r, x, "done"), Finish(d, x, "done")}
        \/ (kind = "acknowledge" /\ t \in w.gap /\ A = Finish(a, x, "done"))
    BY <2>2, <2>3
  <2> QED  BY <2>4 DEF A
<1> HIDE DEF c, r, d, a, t, kind
<1> QED  BY <1>3, <1>4, <1>5, <1>6, <1>7, <1>8

\* flushPrefix, one round, and the operation behind it.
LEMMA RoundWorks ==
    ASSUME NEW u \in Hosts, NEW w, Flows(u, w), w.gap = u.gap, NEW x, Mutating(w, x),
           NEW keep \in Nat, NEW late
    PROVE  Works(u, MutationRound(w, x, keep, late))
<1> DEFINE t == On(w, x)
           v == FlushChunk(w, t, MaxSeq)
           l == Learn(w, t)
<1>1. w \in Hosts /\ Steady(w)  BY DEF Flows, Sound
<1>2. t \in Threads  BY <1>1, MutationKind
<1>3. MaxSeq \in Int  BY QueueAssumption
<1>4. Flows(u, v) /\ Flows(u, l)  BY <1>2, <1>3, ChunkFlows, RefuseFlows
<1>5. v.req = w.req /\ v.micro = w.micro /\ v.gap = w.gap
  BY <1>1, ChunkKeeps DEF ChunkFrame
<1>6. l.req = w.req /\ l.micro = w.micro  BY <1>1 DEF Learn, Hosts
<1> HIDE DEF v, l
<1>7. Mutating(v, x) /\ Mutating(l, x)  BY <1>5, <1>6 DEF Mutating, IsFence
<1>8. /\ Works(u, Finish(w, x, "refused")) /\ Works(u, Finish(v, x, "refused"))
      /\ Works(u, Finish(l, x, "refused"))
  BY <1>4, <1>7, FlowsWorks, DoneWorks
<1>9. Works(u, At(v, x, "flushing"))
  <2>1. "flushing" \in Held /\ "flushing" \in Pcs \ {"new", "cancelled"}
    BY DEF Held, Unsettled, Waiting, Pcs
  <2> DEFINE pc == "flushing"
  <2> HIDE DEF pc
  <2>2. Works(u, At(v, x, pc))  BY <1>4, <1>7, <2>1, FlowsWorks, AtWorks DEF Mutating, pc
  <2> QED  BY <2>2 DEF pc
<1>10. ASSUME ~Blocked(w, t)  PROVE Works(u, Apply(v, x, keep))
  <2>1. On(v, x) = t  BY <1>5 DEF On
  <2>2. t \notin u.gap  BY <1>10 DEF Blocked
  <2> QED  BY <1>4, <1>5, <1>7, <2>1, <2>2, ApplyWorks
<1>11. \/ MutationRound(w, x, keep, late) \in {Finish(l, x, "refused"), Finish(w, x, "refused"),
                                              Finish(v, x, "refused"), At(v, x, "flushing")}
       \/ ~Blocked(w, t) /\ MutationRound(w, x, keep, late) = Apply(v, x, keep)
  BY DEF MutationRound, v, l
<1> HIDE DEF t
<1> QED  BY <1>8, <1>9, <1>10, <1>11

\* executeMutation.
LEMMA StartWorks ==
    ASSUME NEW u \in Hosts, NEW w, Flows(u, w), w.gap = u.gap, w.log = u.log, NEW x, Mutating(w, x),
           NEW keep \in Nat, NEW late
    PROVE  Works(u, MutationStart(w, x, keep, late))
<1> DEFINE t == On(w, x)
           F == {y \in ToSet(w.line[t]) : IsFence(w, y)}
           e == Evict(w, t, F)
           l == Learn(w, t)
<1>1. w \in Hosts /\ Steady(w)  BY DEF Flows, Sound
<1>2. t \in Threads  BY <1>1, MutationKind
<1> HIDE DEF F
<1>3. e \in Hosts /\ Steady(e) /\ LineStep(w, e)  BY <1>1, <1>2, EvictSteady
<1> HIDE DEF e
<1>4. Flows(u, e) /\ e.gap = u.gap /\ e.log = u.log  BY <1>3, LineFlows DEF LineStep, SameRows
<1>5. Mutating(e, x)  BY <1>3, LineStepMicro DEF Mutating
<1>6. /\ Flows(u, l) /\ l.req = w.req /\ l.micro = w.micro /\ l.gap = u.gap /\ l.log = u.log
  BY <1>1, <1>2, RefuseFlows DEF Learn, Hosts
<1> HIDE DEF l
<1>7. Mutating(l, x)  BY <1>6 DEF Mutating, IsFence
<1>8. Works(u, Apply(e, x, keep)) /\ Works(u, Apply(l, x, keep))
  BY <1>4, <1>5, <1>6, <1>7, ApplyWorks
<1>9. Works(u, MutationRound(w, x, keep, late))  BY RoundWorks
<1>10. MutationStart(w, x, keep, late) \in {Apply(e, x, keep), Apply(l, x, keep),
                                           MutationRound(w, x, keep, late)}
  BY DEF MutationStart, e, l, F
<1> QED  BY <1>8, <1>9, <1>10

-----------------------------------------------------------------------------
(* New requests.                                                           *)

\* A request nobody has made yet is nowhere.
LEMMA NewNowhere ==
    ASSUME NEW w \in Hosts, LinesOK(w), MicroOK(w), MadeOK(w), NEW x \in Requests, w.req[x].pc = "new"
    PROVE  x \notin ToSet(w.micro) /\ x \notin w.freed /\ \A t \in Threads : x \notin ToSet(w.line[t])
  BY DEF LinesOK, MicroOK, MadeOK, Held, Unsettled, Waiting

\* A request that is made has a thread and a kind of its own.
LEMMA NewRequest ==
    ASSUME NEW w \in Hosts, NEW x \in Requests, NEW t \in Threads, w.last[t] < w.next,
           NEW kind \in Kinds, NEW pc \in {"waiting", "refused"}
    PROVE  LET R == [w.req EXCEPT ![x] = New(w, t, kind, pc)]
           IN /\ R \in [Requests -> Request]
              /\ \A y \in Requests : y # x => R[y] = w.req[y]
              /\ R[x].on = t /\ R[x].kind = kind /\ R[x].pc = pc
              /\ kind = "read" => R[x].through < R[x].mark
<1> DEFINE r == New(w, t, kind, pc)
<1>1. w.req \in [Requests -> Request] /\ w.last[t] \in 0 .. MaxSeq /\ w.next \in 1 .. Unpinned
  BY DEF Hosts
<1>2. pc \in Pcs  BY DEF Pcs, Unsettled, Waiting
<1>3. MaxSeq \in Nat  BY QueueAssumption
<1>4. /\ r.on = t /\ r.kind = kind /\ r.pc = pc
      /\ r.through = w.last[t] /\ r.mark = IF kind = "read" THEN w.next ELSE 0
      /\ r = [on |-> t, kind |-> kind, through |-> w.last[t],
               mark |-> IF kind = "read" THEN w.next ELSE 0, pc |-> pc]
  BY DEF New
<1>5. (IF kind = "read" THEN w.next ELSE 0) \in 0 .. Unpinned  BY <1>1, <1>3 DEF Unpinned
<1>6. r \in Request  BY <1>1, <1>2, <1>4, <1>5 DEF Request
<1> HIDE DEF r
<1>7. kind = "read" => r.through < r.mark  BY <1>4
<1> DEFINE R == [w.req EXCEPT ![x] = r]
<1>8. /\ R \in [Requests -> Request] /\ R[x] = r
      /\ \A y \in Requests : y # x => R[y] = w.req[y]
  BY <1>1, <1>6
<1>9. R = [w.req EXCEPT ![x] = New(w, t, kind, pc)]  BY DEF r
<1> HIDE DEF R
<1>10. /\ R[x].on = t /\ R[x].kind = kind /\ R[x].pc = pc
       /\ kind = "read" => R[x].through < R[x].mark
  BY <1>4, <1>7, <1>8
<1> QED  BY <1>8, <1>9, <1>10

\* The pin of thread t may be its new reader's.
PinsBut(w, t) ==
    \A p \in Threads :
        \/ p = t \/ w.pin[p] = Unpinned
        \/ \E x \in Requests : On(w, x) = p /\ IsFence(w, x) /\ w.req[x].pc \in Unsettled
                                   /\ x \notin w.freed

\* A request that joins a line is its last.
LEMMA JoinSteady ==
    ASSUME NEW w \in Hosts, RowsOK(w), LinesOK(w), MicroOK(w), MadeOK(w), NEW x \in Requests,
           w.req[x].pc = "new", NEW t \in Threads, NEW kind \in Kinds,
           PinsOK(w) \/ (kind = "read" /\ PinsBut(w, t))
    PROVE  /\ Join(w, x, t, kind) \in Hosts /\ Steady(Join(w, x, t, kind))
           /\ SameRows(w, Join(w, x, t, kind))
<1> DEFINE R == [w.req EXCEPT ![x] = New(w, t, kind, "waiting")]
           q == Append(w.line[t], x)
           f == [w.line EXCEPT ![t] = q]
           v == [w EXCEPT !.req = R, !.line = f]
<1>1. w.last[t] < w.next /\ w.line \in [Threads -> Seq(Requests)]  BY DEF RowsOK, Hosts
<1>2. /\ R \in [Requests -> Request]
      /\ \A y \in Requests : y # x => R[y] = w.req[y]
      /\ R[x].on = t /\ R[x].kind = kind /\ R[x].pc = "waiting"
      /\ kind = "read" => R[x].through < R[x].mark
  BY <1>1, NewRequest
<1>3. x \notin ToSet(w.micro) /\ x \notin w.freed /\ \A p \in Threads : x \notin ToSet(w.line[p])
  BY NewNowhere
<1>4. /\ q \in Seq(Requests) /\ ToSet(q) = ToSet(w.line[t]) \cup {x} /\ IsInjective(q)
  BY <1>1, <1>3, Appended DEF LinesOK
<1> HIDE DEF R, q
<1>5. f \in [Threads -> Seq(Requests)] /\ f[t] = q /\ \A p \in Threads : p # t => f[p] = w.line[p]
  BY <1>1, <1>4
<1>6. v = Join(w, x, t, kind)  BY DEF Join, Hosts, R, q
<1> HIDE DEF f
<1>7. /\ v \in Hosts /\ v.req = R /\ v.line = f /\ v.micro = w.micro /\ v.freed = w.freed
      /\ v.pin = w.pin /\ SameRows(w, v)
  BY <1>2, <1>5 DEF Hosts, SameRows
<1> HIDE DEF v
<1>8. LinesOK(v)
  <2> SUFFICES ASSUME NEW p \in Threads
               PROVE  /\ IsInjective(f[p])
                      /\ \A y \in ToSet(f[p]) : R[y].on = p /\ R[y].pc \in Held /\ y \notin w.freed
    BY <1>7 DEF LinesOK, On
  <2>1. /\ IsInjective(w.line[p])
        /\ \A y \in ToSet(w.line[p]) : /\ w.req[y].on = p /\ w.req[y].pc \in Held /\ y \notin w.freed
                                       /\ y \in Requests /\ y # x
    BY <1>1, <1>3, InSeq DEF LinesOK, On
  <2>2. R[x].pc \in Held  BY <1>2 DEF Held, Unsettled, Waiting
  <2>3. CASE p = t  BY <1>2, <1>3, <1>4, <1>5, <2>1, <2>2, <2>3
  <2>4. CASE p # t  BY <1>2, <1>5, <2>1, <2>4
  <2> QED  BY <2>3, <2>4
<1>9. MicroOK(v)
  <2>1. \A y \in ToSet(w.micro) : y \in Requests /\ y # x
    <3>1. w.micro \in Seq(Requests)  BY DEF Hosts
    <3> QED  BY <1>3, <3>1, InSeq
  <2> QED  BY <1>2, <1>7, <2>1 DEF MicroOK
<1>10. MadeOK(v)
  <2> SUFFICES ASSUME NEW y \in Requests
               PROVE  /\ R[y].pc # "new" => R[y].on \in Threads /\ R[y].kind # "none"
                      /\ y \in w.freed => R[y].pc # "new"
                      /\ R[y].kind = "read" => R[y].through < R[y].mark
    BY <1>7 DEF MadeOK, On, IsFence
  <2>1. kind # "none"  BY LimitsAssumption DEF Mutations
  <2>2. CASE y = x  BY <1>2, <1>3, <2>1, <2>2
  <2>3. CASE y # x  BY <1>2, <2>3 DEF MadeOK, On, IsFence
  <2> QED  BY <2>2, <2>3
<1>11. PinsOK(v)
  <2> SUFFICES ASSUME NEW p \in Threads, w.pin[p] # Unpinned
               PROVE  \E y \in Requests : /\ R[y].on = p /\ R[y].kind = "read"
                                          /\ R[y].pc \in Unsettled /\ y \notin w.freed
    BY <1>7 DEF PinsOK, On, IsFence
  <2>1. CASE p = t /\ kind = "read"
    BY <1>2, <1>3, <2>1 DEF Unsettled, Waiting
  <2>2. CASE ~(p = t /\ kind = "read")
    <3>1. PICK y \in Requests : On(w, y) = p /\ IsFence(w, y) /\ w.req[y].pc \in Unsettled
                                   /\ y \notin w.freed
      BY <2>2 DEF PinsOK, PinsBut
    <3>2. y # x  BY <3>1 DEF Unsettled, Waiting
    <3> QED  BY <1>2, <3>1, <3>2 DEF On, IsFence
  <2> QED  BY <2>1, <2>2
<1> QED  BY <1>6, <1>7, <1>8, <1>9, <1>10, <1>11 DEF Steady

\* A request refused at once stands nowhere.
LEMMA RejectSteady ==
    ASSUME NEW w \in Hosts, RowsOK(w), Steady(w), NEW x \in Requests, w.req[x].pc = "new",
           NEW t \in Threads, NEW kind \in Kinds
    PROVE  /\ Reject(w, x, t, kind) \in Hosts /\ Steady(Reject(w, x, t, kind))
           /\ SameRows(w, Reject(w, x, t, kind)) /\ Reject(w, x, t, kind).line = w.line
           /\ \A y \in Requests : y # x => Reject(w, x, t, kind).req[y] = w.req[y]
<1> DEFINE R == [w.req EXCEPT ![x] = New(w, t, kind, "refused")]
           v == [w EXCEPT !.req = R]
<1>1. w.last[t] < w.next /\ w.line \in [Threads -> Seq(Requests)] /\ w.micro \in Seq(Requests)
  BY DEF RowsOK, Hosts
<1>2. /\ R \in [Requests -> Request]
      /\ \A y \in Requests : y # x => R[y] = w.req[y]
      /\ R[x].on = t /\ R[x].kind = kind /\ R[x].pc = "refused"
      /\ kind = "read" => R[x].through < R[x].mark
  BY <1>1, NewRequest
<1>3. x \notin ToSet(w.micro) /\ x \notin w.freed /\ \A p \in Threads : x \notin ToSet(w.line[p])
  BY NewNowhere DEF Steady
<1> HIDE DEF R
<1>4. v = Reject(w, x, t, kind)  BY DEF Reject, Hosts, R
<1>5. /\ v \in Hosts /\ v.req = R /\ v.line = w.line /\ v.micro = w.micro /\ v.freed = w.freed
      /\ v.pin = w.pin /\ SameRows(w, v)
  BY <1>2 DEF Hosts, SameRows
<1> HIDE DEF v
<1>6. LinesOK(v)
  <2>1. \A p \in Threads : \A y \in ToSet(w.line[p]) : y \in Requests /\ y # x
    BY <1>1, <1>3, InSeq
  <2> QED  BY <1>2, <1>5, <2>1 DEF Steady, LinesOK, On
<1>7. MicroOK(v)
  <2>1. \A y \in ToSet(w.micro) : y \in Requests /\ y # x  BY <1>1, <1>3, InSeq
  <2> QED  BY <1>2, <1>5, <2>1 DEF Steady, MicroOK
<1>8. MadeOK(v)
  <2> SUFFICES ASSUME NEW y \in Requests
               PROVE  /\ R[y].pc # "new" => R[y].on \in Threads /\ R[y].kind # "none"
                      /\ y \in w.freed => R[y].pc # "new"
                      /\ R[y].kind = "read" => R[y].through < R[y].mark
    BY <1>5 DEF MadeOK, On, IsFence
  <2>1. kind # "none"  BY LimitsAssumption DEF Mutations
  <2>2. CASE y = x  BY <1>2, <1>3, <2>1, <2>2
  <2>3. CASE y # x  BY <1>2, <2>3 DEF Steady, MadeOK, On, IsFence
  <2> QED  BY <2>2, <2>3
<1>9. PinsOK(v)
  <2> SUFFICES ASSUME NEW p \in Threads, w.pin[p] # Unpinned
               PROVE  \E y \in Requests : /\ R[y].on = p /\ R[y].kind = "read"
                                          /\ R[y].pc \in Unsettled /\ y \notin w.freed
    BY <1>5 DEF PinsOK, On, IsFence
  <2>1. PICK y \in Requests : On(w, y) = p /\ IsFence(w, y) /\ w.req[y].pc \in Unsettled
                                 /\ y \notin w.freed
    BY DEF Steady, PinsOK
  <2>2. y # x  BY <2>1 DEF Unsettled, Waiting
  <2> QED  BY <1>2, <2>1, <2>2 DEF On, IsFence
<1> QED  BY <1>2, <1>4, <1>5, <1>6, <1>7, <1>8, <1>9 DEF Steady

\* The pin of a thread may be set to what its line asks for.
LEMMA PinSteady ==
    ASSUME NEW w \in Hosts, Steady(w), NEW t \in Threads, NEW k \in 0 .. Unpinned,
           k = Unpinned \/ \E y \in ToSet(w.line[t]) : y \in Requests /\ IsFence(w, y)
    PROVE  LET v == [w EXCEPT !.pin[t] = k]
           IN v \in Hosts /\ Steady(v) /\ SameRows(w, v)
<1> DEFINE P == [w.pin EXCEPT ![t] = k]
           v == [w EXCEPT !.pin = P]
<1>1. w.pin \in [Threads -> 0 .. Unpinned]  BY DEF Hosts
<1>2. P \in [Threads -> 0 .. Unpinned] /\ P[t] = k /\ \A p \in Threads : p # t => P[p] = w.pin[p]
  BY <1>1
<1>3. v = [w EXCEPT !.pin[t] = k]  BY DEF Hosts
<1> HIDE DEF P
<1>4. /\ v \in Hosts /\ v.req = w.req /\ v.line = w.line /\ v.micro = w.micro
      /\ v.freed = w.freed /\ v.pin = P /\ SameRows(w, v)
  BY <1>2 DEF Hosts, SameRows
<1> HIDE DEF v
<1>5. LinesOK(v) /\ MicroOK(v) /\ MadeOK(v)
  BY <1>4 DEF Steady, LinesOK, MicroOK, MadeOK, On, IsFence
<1>6. PinsOK(v)
  <2> SUFFICES ASSUME NEW p \in Threads, P[p] # Unpinned
               PROVE  \E y \in Requests : /\ On(w, y) = p /\ IsFence(w, y)
                                          /\ w.req[y].pc \in Unsettled /\ y \notin w.freed
    BY <1>4 DEF PinsOK, On, IsFence
  <2>1. CASE p = t
    <3>1. PICK y \in ToSet(w.line[t]) : y \in Requests /\ IsFence(w, y)  BY <1>2, <2>1
    <3>2. On(w, y) = t /\ w.req[y].pc \in Held /\ y \notin w.freed  BY DEF Steady, LinesOK
    <3> QED  BY <2>1, <3>1, <3>2 DEF Held
  <2>2. CASE p # t  BY <1>2, <2>2 DEF Steady, PinsOK
  <2> QED  BY <2>1, <2>2
<1> QED  BY <1>3, <1>4, <1>5, <1>6 DEF Steady

-----------------------------------------------------------------------------
(* The steps of the host on its rows.                                      *)

\* A request that stands in a line is one of its thread and under way.
LEMMA StandsSound ==
    ASSUME Sound(host)
    PROVE  host \in Hosts /\ Steady(host) /\ RowsOK(host) /\ Flows(host, host) /\ Works(host, host)
  BY Still, FlowsWorks DEF Sound

\* admit
LEMMA AdmitWorks ==
    ASSUME Sound(host), NEW t \in Threads, NEW age, NEW backoff,
           Admit(t, age, backoff) \/ DropRebase(t) \/ Barrier(t)
    PROVE  Works(host, host')
<1>1. host \in Hosts /\ Flows(host, host)  BY StandsSound
<1>2. CASE Admit(t, age, backoff)
  <2> DEFINE w == Aged(host, age, backoff)
             v == [w EXCEPT !.touched = @ \cup {t}]
             e == Enqueue(v, t, backoff)
  <2>1. Flows(host, w)  BY <1>1, AgedFlows
  <2> HIDE DEF w
  <2>2. /\ Flows(host, Refuse(w, t)) /\ Flows(host, RecordGap(w, t)) /\ Flows(host, RefuseAll(w, t))
        /\ Flows(host, v)
    BY <2>1, RefuseFlows
  <2> HIDE DEF v
  <2>3. Flows(host, Refuse(v, t))  BY <2>2, RefuseFlows
  <2>4. host.next <= MaxSeq  BY <1>2 DEF Admit
  <2>5. Flows(host, e) \/ Grown(host, e, t)  BY <1>1, <2>2, <2>4, EnqueueGrows
  <2> HIDE DEF e
  <2>6. Works(host, e)  BY <1>1, <2>5, FlowsWorks, GrownWorks
  <2>7. host' \in {Refuse(w, t), RecordGap(w, t), RefuseAll(w, t), w, Refuse(v, t), e}
    BY <1>2 DEF Admit, Step, w, v, e
  <2> QED  BY <1>1, <2>1, <2>2, <2>3, <2>6, <2>7, FlowsWorks
<1>3. CASE DropRebase(t)  BY <1>1, <1>3, RefuseFlows, FlowsWorks DEF DropRebase, Step
<1>4. CASE Barrier(t)
  <2>1. MaxSeq \in Nat /\ MaxSeq \in Int  BY QueueAssumption
  <2>2. Flows(host, CommitDue(host, t, MaxSeq, MaxSeq))  BY <1>1, <2>1, DueFlows
  <2> QED  BY <1>1, <1>4, <2>2, FlowsWorks DEF Barrier, Step
<1> QED  BY <1>2, <1>3, <1>4

\* runFlushCycle
LEMMA FlushCycleWorks ==
    ASSUME Sound(host), NEW G, NEW rollback \in Rollbacks, NEW age, NEW healthy \in BOOLEAN,
           FlushCycle(G, rollback, age, healthy)
    PROVE  Works(host, host')
<1>1. host \in Hosts /\ Steady(host) /\ Flows(host, host)  BY StandsSound
<1> DEFINE u == ReleaseExpiredFences(host)
           a == [u EXCEPT !.refusing = @ /\ ~healthy]
           v == Aged(a, age, FALSE)
           w == [v EXCEPT !.refusing = @ \/ (age = "old" /\ Backlog(v) # {})]
<1>2. u \in Hosts /\ Steady(u) /\ SameRows(host, u)  BY <1>1, ExpiredSteady DEF LineStep
<1> HIDE DEF u
<1>3. Flows(host, u)  BY <1>1, <1>2, LineFlows
<1>4. ASSUME NEW z, Flows(host, z), NEW b \in BOOLEAN
      PROVE  Flows(host, [z EXCEPT !.refusing = b])
  <2> DEFINE y == [z EXCEPT !.refusing = b]
  <2>1. z \in Hosts  BY <1>4 DEF Flows, Sound
  <2>2. /\ y \in Hosts /\ y.line = z.line /\ y.req = z.req /\ y.micro = z.micro
        /\ y.freed = z.freed /\ y.pin = z.pin /\ y.log = z.log /\ y.pending = z.pending
        /\ y.last = z.last /\ y.next = z.next /\ z.gap \subseteq y.gap
    BY <1>4, <2>1 DEF Hosts
  <2> HIDE DEF y
  <2>3. Flows(host, y)  BY <1>4, <2>2, Plain
  <2> QED  BY <2>3 DEF y
<1>5. Flows(host, a)
  <2> DEFINE b == u.refusing /\ ~healthy
  <2>1. b \in BOOLEAN  BY <1>2 DEF Hosts
  <2>2. a = [u EXCEPT !.refusing = b]  OBVIOUS
  <2> HIDE DEF b, a
  <2> QED  BY <1>3, <1>4, <2>1, <2>2
<1> HIDE DEF a
<1>6. Flows(host, v)  BY <1>5, AgedFlows
<1> HIDE DEF v
<1>7. Flows(host, w)
  <2> DEFINE b == v.refusing \/ (age = "old" /\ Backlog(v) # {})
  <2>1. b \in BOOLEAN  BY <1>6 DEF Flows, Sound, Hosts
  <2>2. w = [v EXCEPT !.refusing = b]  OBVIOUS
  <2> HIDE DEF b, w
  <2> QED  BY <1>4, <1>6, <2>1, <2>2
<1> HIDE DEF w
<1>8. Flows(host, FlushBudgeted(w, G, rollback))  BY <1>7, BudgetedFlows
<1>9. host' \in {w, FlushBudgeted(w, G, rollback)}  BY DEF FlushCycle, Step, w, v, a, u
<1> QED  BY <1>1, <1>7, <1>8, <1>9, FlowsWorks

\* beginFence
LEMMA BeginFenceWorks ==
    ASSUME Sound(host), NEW x \in Requests, NEW t \in Threads, BeginFence(x, t)
    PROVE  Works(host, host')
<1>1. host \in Hosts /\ Steady(host) /\ RowsOK(host) /\ Works(host, host)  BY StandsSound
<1>2. "read" \in Kinds /\ host.req[x].pc = "new"  BY DEF BeginFence
<1> DEFINE k == Least(host.pin[t], host.last[t])
           P == [host.pin EXCEPT ![t] = k]
           p == [host EXCEPT !.pin = P]
           w == Join(p, x, t, "read")
           e == ReleaseExpiredFences(w)
           v == ReleaseExpiredFences(host)
           l == Learn(v, t)
           r == Reject(l, x, t, "read")
           q == [r EXCEPT !.pin[t] = FencePin(v, t)]
<1>3. Works(host, Promote(e, t))
  <2>1. /\ P \in [Threads -> 0 .. Unpinned]
        /\ \A s \in Threads : s # t => P[s] = host.pin[s]
    <3>1. host.pin \in [Threads -> 0 .. Unpinned] /\ host.last[t] \in 0 .. MaxSeq
      BY <1>1 DEF Hosts
    <3>2. MaxSeq \in Nat  BY QueueAssumption
    <3>3. k \in 0 .. Unpinned  BY <3>1, <3>2 DEF Least, Unpinned
    <3> HIDE DEF k
    <3> QED  BY <3>1, <3>3
  <2> HIDE DEF P
  <2>2. /\ p \in Hosts /\ p.line = host.line /\ p.req = host.req /\ p.micro = host.micro
        /\ p.freed = host.freed /\ p.pin = P /\ SameRows(host, p)
    BY <1>1, <2>1 DEF Hosts, SameRows
  <2> HIDE DEF p
  <2>3. LinesOK(p) /\ MicroOK(p) /\ MadeOK(p)
    BY <1>1, <2>2 DEF Steady, LinesOK, MicroOK, MadeOK, On, IsFence
  <2>4. PinsBut(p, t)
    BY <1>1, <2>1, <2>2 DEF Steady, PinsOK, PinsBut, On, IsFence
  <2>5. RowsOK(p)  BY <1>1, <2>2, RowFrame DEF SameRows
  <2> DEFINE kind == "read"
  <2>6. kind \in Kinds /\ kind = "read"  BY <1>2
  <2> HIDE DEF kind
  <2>7. p.req[x].pc = "new"  BY <1>2, <2>2
  <2>8. /\ Join(p, x, t, kind) \in Hosts /\ Steady(Join(p, x, t, kind))
        /\ SameRows(p, Join(p, x, t, kind))
    BY <2>2, <2>3, <2>4, <2>5, <2>6, <2>7, JoinSteady
  <2>9. w \in Hosts /\ Steady(w) /\ SameRows(host, w)  BY <2>2, <2>6, <2>8 DEF SameRows
  <2> HIDE DEF w
  <2>10. e \in Hosts /\ Steady(e) /\ SameRows(w, e)  BY <2>9, ExpiredSteady DEF LineStep
  <2> HIDE DEF e
  <2>11. /\ Promote(e, t) \in Hosts /\ Steady(Promote(e, t)) /\ SameRows(e, Promote(e, t))
    BY <2>10, PromoteSteady DEF LineStep
  <2>12. SameRows(host, Promote(e, t))  BY <2>9, <2>10, <2>11 DEF SameRows
  <2> QED  BY <1>1, <2>11, <2>12, LineWorks
<1>4. Works(host, Reject(host, x, t, "read"))
  <2> DEFINE kind == "read"
  <2>1. kind \in Kinds  BY <1>2
  <2> HIDE DEF kind
  <2>2. Works(host, Reject(host, x, t, kind))  BY <1>1, <1>2, <2>1, RejectSteady, LineWorks
  <2> QED  BY <2>2 DEF kind
<1>5. Works(host, q)
  <2>1. /\ v \in Hosts /\ Steady(v) /\ SameRows(host, v) /\ v.req = host.req /\ v.line = host.line
    BY <1>1, ExpiredSteady DEF LineStep
  <2> HIDE DEF v
  <2>2. Flows(host, v)  BY <1>1, <2>1, LineFlows, StandsSound
  <2>3. Flows(host, l) /\ l.req = v.req /\ l.line = v.line
    BY <2>1, <2>2, RefuseFlows DEF Learn, Hosts
  <2> HIDE DEF l
  <2>4. l \in Hosts /\ RowsOK(l) /\ Steady(l) /\ Works(host, l)
    BY <1>1, <2>3, FlowsWorks DEF Flows, Sound
  <2> DEFINE kind == "read"
             z == Reject(l, x, t, kind)
  <2>5. kind \in Kinds  BY <1>2
  <2>6. r = z  OBVIOUS
  <2> HIDE DEF kind
  <2>7. /\ z \in Hosts /\ Steady(z) /\ SameRows(l, z) /\ z.line = l.line
        /\ \A y \in Requests : y # x => z.req[y] = l.req[y]
    <3>1. l.req[x].pc = "new"  BY <1>2, <2>1, <2>3
    <3> QED  BY <2>4, <2>5, <3>1, RejectSteady
  <2> HIDE DEF z, r
  <2>8. Works(host, z)  BY <2>4, <2>7, LineWorks
  <2> DEFINE j == FencePin(v, t)
  <2>9. /\ j \in 0 .. Unpinned
        /\ j = Unpinned \/ \E y \in ToSet(z.line[t]) : y \in Requests /\ IsFence(z, y)
    <3>1. /\ j \in 0 .. Unpinned
          /\ j = Unpinned \/ \E y \in ToSet(v.line[t]) : y \in Requests /\ IsFence(v, y)
      BY <2>1, FencePinFacts
    <3>2. x \notin ToSet(v.line[t])
      BY <1>2, <2>1, NewNowhere DEF Steady
    <3>3. \A y \in ToSet(v.line[t]) : y \in Requests /\ IsFence(v, y)
                                          => y \in ToSet(z.line[t]) /\ IsFence(z, y)
      BY <2>3, <2>7, <3>2 DEF IsFence
    <3> QED  BY <3>1, <3>3
  <2> HIDE DEF j
  <2> DEFINE g == [z EXCEPT !.pin[t] = j]
  <2>10. g \in Hosts /\ Steady(g) /\ SameRows(z, g)  BY <2>7, <2>9, PinSteady
  <2>11. q = g  BY <2>6 DEF j
  <2> HIDE DEF g, q
  <2> QED  BY <2>8, <2>10, <2>11, LineWorks
<1>6. host' \in {Reject(host, x, t, "read"), q, Promote(e, t)}
  <2>1. p = [host EXCEPT !.pin[t] = Least(@, host.last[t])]  BY <1>1 DEF Hosts
  <2> HIDE DEF p
  <2> QED  BY <2>1 DEF BeginFence, Step
<1> HIDE DEF e, q
<1> QED  BY <1>3, <1>4, <1>5, <1>6

\* runMutation
LEMMA RequestWorks ==
    ASSUME Sound(host), NEW x \in Requests, NEW t \in Threads, NEW kind, RequestMutation(x, t, kind)
    PROVE  Works(host, host')
<1>1. host \in Hosts /\ Steady(host) /\ RowsOK(host) /\ Works(host, host)  BY StandsSound
<1>2. kind \in Kinds /\ host.req[x].pc = "new"  BY DEF RequestMutation
<1> DEFINE j == Join(host, x, t, kind)
           r == Reject(host, x, t, kind)
<1>3. r \in Hosts /\ Steady(r) /\ SameRows(host, r)  BY <1>1, <1>2, RejectSteady
<1>4. j \in Hosts /\ Steady(j) /\ SameRows(host, j)  BY <1>1, <1>2, JoinSteady DEF Steady
<1> HIDE DEF j, r
<1>5. Promote(j, t) \in Hosts /\ Steady(Promote(j, t)) /\ SameRows(j, Promote(j, t))
  BY <1>4, PromoteSteady DEF LineStep
<1>6. SameRows(host, Promote(j, t))  BY <1>4, <1>5 DEF SameRows
<1>7. host' \in {r, Promote(j, t)}  BY DEF RequestMutation, Step, r, j
<1> QED  BY <1>1, <1>3, <1>5, <1>6, <1>7, LineWorks

-----------------------------------------------------------------------------
(* Continuations, yields, workers and deadlines.                           *)

\* The rows a truncation keeps are counted.
LEMMA KeepsAreNat == \A keep \in Keeps : keep \in Nat
  BY QueueAssumption DEF Keeps

\* The host after its next continuation was taken off the list.
LEMMA Taking ==
    ASSUME Sound(host), host.micro # <<>>, NEW x, x = Head(host.micro),
           NEW w, w = [host EXCEPT !.micro = Tail(@)]
    PROVE  /\ Flows(host, w) /\ x \in Requests /\ x \notin ToSet(w.micro)
           /\ w.log = host.log /\ w.gap = host.gap /\ w.req = host.req /\ w.line = host.line
           /\ w.req[x].pc \in {"granted", "cancelled"}
<1>1. host \in Hosts /\ Steady(host) /\ Flows(host, host)  BY StandsSound
<1>2. host.micro \in Seq(Requests)  BY <1>1 DEF Hosts
<1>3. IsInjective(host.micro) /\ \A y \in ToSet(host.micro) : host.req[y].pc \in {"granted", "cancelled"}
  BY <1>1 DEF Steady, MicroOK
<1> DEFINE m == Tail(host.micro)
<1>4. /\ x \in ToSet(host.micro) /\ x \in Requests /\ m \in Seq(Requests)
      /\ ToSet(m) \subseteq ToSet(host.micro) /\ IsInjective(m) /\ x \notin ToSet(m)
  BY <1>2, <1>3, Split
<1> HIDE DEF m
<1>5. /\ w \in Hosts /\ w.micro = m /\ w.line = host.line /\ w.req = host.req
      /\ w.freed = host.freed /\ w.pin = host.pin /\ SameRows(host, w)
  BY <1>1, <1>4 DEF m, Hosts, SameRows
<1>6. Steady(w)
  <2>1. LinesOK(w)  BY <1>1, <1>5 DEF Steady, LinesOK, On
  <2>2. MicroOK(w)  BY <1>3, <1>4, <1>5 DEF MicroOK
  <2>3. MadeOK(w)  BY <1>1, <1>5 DEF Steady, MadeOK, On, IsFence
  <2>4. PinsOK(w)  BY <1>1, <1>5 DEF Steady, PinsOK, On, IsFence
  <2> QED  BY <2>1, <2>2, <2>3, <2>4 DEF Steady
<1>7. Flows(host, w)  BY <1>1, <1>5, <1>6, LineFlows
<1> QED  BY <1>3, <1>4, <1>5, <1>7 DEF SameRows

\* The continuations the last step resolved.
LEMMA ContinueWorks ==
    ASSUME Sound(host), NEW keep \in Keeps, NEW late \in BOOLEAN, Continue(keep, late)
    PROVE  Works(host, host')
<1> DEFINE x == Head(host.micro)
           w == [host EXCEPT !.micro = Tail(@)]
<1>1. host.micro # <<>>  BY DEF Continue
<1>2. /\ Flows(host, w) /\ x \in Requests /\ x \notin ToSet(w.micro)
      /\ w.log = host.log /\ w.gap = host.gap /\ w.req = host.req
      /\ w.req[x].pc \in {"granted", "cancelled"}
  BY <1>1, Taking
<1>3. host' = IF w.req[x].pc = "cancelled"
              THEN At(IF IsFence(w, x) THEN Release(w, x) ELSE w, x, "refused")
              ELSE IF IsFence(w, x) THEN FenceRound(w, x, late)
              ELSE MutationStart(w, x, keep, late)
  BY DEF Continue, Step
<1> HIDE DEF w, x
<1>4. host \in Hosts /\ Works(host, w) /\ keep \in Nat  BY <1>2, StandsSound, FlowsWorks, KeepsAreNat
<1>5. CASE w.req[x].pc = "cancelled" /\ IsFence(w, x)
  <2>1. host' = At(Release(w, x), x, "refused")  BY <1>3, <1>5
  <2> QED  BY <1>2, <1>4, <1>5, <2>1, ReleaseWorks
<1>6. CASE w.req[x].pc = "cancelled" /\ ~IsFence(w, x)
  <2> DEFINE pc == "refused"
  <2>1. host' = At(w, x, pc)  BY <1>3, <1>6
  <2>2. w \in Hosts /\ Steady(w)  BY <1>2 DEF Flows, Sound
  <2>3. ~Stands(w, x)
    <3>1. On(w, x) \in Threads \cup {None}  BY <1>2, <2>2 DEF Hosts, Request, On
    <3> QED  BY <1>6, <2>2, <3>1 DEF Stands, Steady, LinesOK, On, Held
  <2>4. pc \in Pcs \ {"new", "cancelled"}  BY DEF Pcs
  <2> HIDE DEF pc
  <2> QED  BY <1>2, <1>4, <1>6, <2>1, <2>3, <2>4, AtWorks
<1>7. CASE w.req[x].pc = "granted" /\ IsFence(w, x)
  <2>1. host' = FenceRound(w, x, late)  BY <1>3, <1>7
  <2> QED  BY <1>2, <1>4, <1>7, <2>1, FenceRoundWorks
<1>8. CASE w.req[x].pc = "granted" /\ ~IsFence(w, x)
  <2>1. host' = MutationStart(w, x, keep, late)  BY <1>3, <1>8
  <2>2. Mutating(w, x)  BY <1>2, <1>8 DEF Mutating
  <2> QED  BY <1>2, <1>4, <2>1, <2>2, StartWorks
<1> QED  BY <1>2, <1>5, <1>6, <1>7, <1>8

\* An idle event loop owes no continuation.
LEMMA IdleMicro ==
    ASSUME Idle
    PROVE  \A x : x \notin ToSet(host.micro)
<1>1. host.micro = <<>>  BY DEF Idle
<1>2. DOMAIN <<>> = {}  OBVIOUS
<1> QED  BY <1>1, <1>2 DEF ToSet

\* The yields between two chunks.
LEMMA ResumeWorks ==
    ASSUME Sound(host), NEW x \in Requests, NEW keep \in Keeps, NEW late \in BOOLEAN,
           Resume(x, keep, late)
    PROVE  Works(host, host')
<1>1. Flows(host, host) /\ host \in Hosts /\ keep \in Nat  BY StandsSound, KeepsAreNat
<1>2. host.req[x].pc = "flushing" /\ x \notin ToSet(host.micro)  BY IdleMicro DEF Resume
<1>3. host' = IF IsFence(host, x) THEN FenceRound(host, x, late)
              ELSE MutationRound(host, x, keep, late)
  BY DEF Resume, Step
<1>4. CASE IsFence(host, x)
  <2>1. host' = FenceRound(host, x, late)  BY <1>3, <1>4
  <2> QED  BY <1>1, <1>2, <1>4, <2>1, FenceRoundWorks
<1>5. CASE ~IsFence(host, x)
  <2>1. host' = MutationRound(host, x, keep, late)  BY <1>3, <1>5
  <2>2. Mutating(host, x)  BY <1>2, <1>5 DEF Mutating
  <2> QED  BY <1>1, <2>1, <2>2, RoundWorks
<1> QED  BY <1>4, <1>5

\* expire
LEMMA ExpireWorks ==
    ASSUME Sound(host), NEW x \in Requests, Expire(x)
    PROVE  Works(host, host')
<1>1. host \in Hosts /\ Steady(host) /\ Works(host, host)  BY StandsSound
<1>2. host' = Settle(host, x)  BY DEF Expire, Step
<1>3. Settle(host, x) \in Hosts /\ Steady(Settle(host, x)) /\ SameRows(host, Settle(host, x))
  BY <1>1, SettleSteady DEF LineStep
<1> QED  BY <1>1, <1>2, <1>3, LineWorks

\* The worker of a reader changes no row.
LEMMA WorkerWorks ==
    ASSUME Sound(host), NEW x \in Requests, WorkerReads(x)
    PROVE  Works(host, host')
<1>1. host \in Hosts /\ Steady(host) /\ Works(host, host)  BY StandsSound
<1>2. host.req[x].pc = "reading"  BY DEF WorkerReads
<1> DEFINE pc == "read"
           v == At(host, x, pc)
<1>3. pc \in Held /\ pc \in Pcs \ {"new", "cancelled"}  BY DEF Held, Unsettled, Pcs
<1>4. x \notin ToSet(host.micro)
  BY <1>1, <1>2 DEF Steady, MicroOK
<1> HIDE DEF pc
<1>5. Works(host, v)  BY <1>1, <1>2, <1>3, <1>4, AtWorks
<1>6. host' = [v EXCEPT !.inexact = IF host.log[On(host, x)] = Expected(host, x) THEN @ ELSE @ \cup {x}]
  BY DEF WorkerReads, Step, pc
<1> HIDE DEF v
<1>7. v \in Hosts /\ Steady(v)  BY <1>5 DEF Works, Sound
<1> DEFINE I == IF host.log[On(host, x)] = Expected(host, x) THEN v.inexact ELSE v.inexact \cup {x}
<1>8. I \subseteq Requests  BY <1>7 DEF Hosts
<1>9. host' = [v EXCEPT !.inexact = I]  BY <1>6
<1> HIDE DEF I
<1>10. /\ host' \in Hosts /\ SameRows(v, host') /\ host'.line = v.line /\ host'.req = v.req
       /\ host'.micro = v.micro /\ host'.freed = v.freed /\ host'.pin = v.pin
  BY <1>7, <1>8, <1>9 DEF Hosts, SameRows
<1>11. Steady(host')  BY <1>7, <1>10, LineFrame
<1> QED  BY <1>5, <1>10, <1>11, LineWorks

\* The answer of a reader changes no row.
LEMMA AnswerWorks ==
    ASSUME Sound(host), NEW x \in Requests, Answer(x)
    PROVE  Works(host, host')
<1>1. host \in Hosts /\ Steady(host) /\ Flows(host, host)  BY StandsSound
<1>2. host.req[x].pc = "read" /\ x \notin ToSet(host.micro)  BY IdleMicro DEF Answer
<1> DEFINE t == On(host, x)
           l == Learn(host, t)
<1>3. t \in Threads  BY <1>1, <1>2 DEF Steady, MadeOK
<1>4. Works(host, l)  BY <1>1, <1>3, RefuseFlows, FlowsWorks
<1>5. l.req = host.req /\ l.micro = host.micro  BY <1>1 DEF Learn, Hosts
<1>6. \E pc \in {"refused", "served"} : host' = At(Release(l, x), x, pc)
  BY DEF Answer, Step, l, t
<1> HIDE DEF l
<1>7. PICK pc \in {"refused", "served"} : host' = At(Release(l, x), x, pc)  BY <1>6
<1> QED  BY <1>2, <1>4, <1>5, <1>7, ReleaseWorks

\* tryRunMutationSync
LEMMA TruncateNowWorks ==
    ASSUME Sound(host), NEW t \in Threads, NEW keep, TruncateNow(t, keep)
    PROVE  Works(host, host')
<1> DEFINE w == CommitDue(host, t, MaxSeq, MaxSeq)
<1>1. host \in Hosts /\ Flows(host, host)  BY StandsSound
<1>2. MaxSeq \in Int /\ MaxSeq \in Nat  BY QueueAssumption
<1>3. Flows(host, w)  BY <1>1, <1>2, DueFlows
<1>4. w.gap = host.gap  BY <1>1, ChunkKeeps DEF ChunkFrame
<1>5. keep \in 0 .. Len(w.log[t]) /\ host' = [w EXCEPT !.log[t] = SubSeq(@, 1, keep)]
  BY DEF TruncateNow, Step
<1> HIDE DEF w
<1> QED  BY <1>1, <1>3, <1>4, <1>5, CutWorks

\* Refused resets, barriers, and disk faults that begin and end.
LEMMA DiskWorks ==
    ASSUME Sound(host), NEW S, S \subseteq Threads, NEW t, Break(S) \/ Heal(t)
    PROVE  Works(host, host')
<1>1. host \in Hosts /\ Flows(host, host)  BY StandsSound
<1>2. \E F \in SUBSET Threads : host' = [host EXCEPT !.failing = F]
  <2>1. CASE Break(S)  BY <2>1 DEF Break, Step
  <2>2. CASE Heal(t)
    <3>1. host.failing \ {t} \subseteq Threads  BY <1>1 DEF Hosts
    <3>2. host' = [host EXCEPT !.failing = host.failing \ {t}]  BY <2>2 DEF Heal, Step
    <3> QED  BY <3>1, <3>2
  <2> QED  BY <2>1, <2>2
<1>3. PICK F \in SUBSET Threads : host' = [host EXCEPT !.failing = F]  BY <1>2
<1>4. /\ host' \in Hosts /\ host'.line = host.line /\ host'.req = host.req
      /\ host'.micro = host.micro /\ host'.freed = host.freed /\ host'.pin = host.pin
      /\ host'.log = host.log /\ host'.pending = host.pending /\ host'.last = host.last
      /\ host'.next = host.next /\ host'.gap = host.gap
  BY <1>1, <1>3 DEF Hosts
<1>5. Flows(host, host')  BY <1>1, <1>4, Plain
<1> QED  BY <1>1, <1>5, FlowsWorks

-----------------------------------------------------------------------------
(* Close, crash and boot.                                                  *)

\* SetToSeq lists a finite set once.
LEMMA Listed ==
    ASSUME NEW S \in SUBSET Requests
    PROVE  /\ SetToSeq(S) \in Seq(Requests) /\ IsInjective(SetToSeq(S))
           /\ ToSet(SetToSeq(S)) \subseteq S
<1> DEFINE n == Cardinality(S)
           q == SetToSeq(S)
<1>1. IsFiniteSet(S)  BY QueueAssumption, FS_Subset
<1>2. n \in Nat /\ ExistsBijection(1 .. n, S)  BY <1>1, FS_CardinalityType
<1>3. \E f \in [1 .. n -> S] : IsInjective(f)
  BY <1>2 DEF ExistsBijection, Bijection, Injection
<1>4. q \in [1 .. n -> S] /\ IsInjective(q)  BY <1>3 DEF SetToSeq
<1> HIDE DEF n, q
<1>5. q \in Seq(Requests)  BY <1>2, <1>4, SeqDef
<1>6. ToSet(q) \subseteq S  BY <1>4 DEF ToSet
<1> QED  BY <1>4, <1>5, <1>6 DEF q

\* Once every line is disposed nobody stops a flush.
LEMMA DisposeFlows ==
    ASSUME Sound(host), Idle,
           NEW w, w = CancelActive([host EXCEPT !.phase = "closing"])
    PROVE  Flows(host, w) /\ \A t \in Threads : w.pin[t] = Unpinned
<1> DEFINE c == [host EXCEPT !.phase = "closing"]
           live == {x \in Requests : IsFence(c, x) /\ c.req[x].pc \in Unsettled /\ x \notin c.freed}
           told == {x \in Requests : c.req[x].pc = "waiting"}
           P == [t \in Threads |-> IF \E x \in live : On(c, x) = t THEN Unpinned ELSE c.pin[t]]
           L == [t \in Threads |-> <<>>]
           R == Cancel(c, told)
           F == c.freed \cup live
           m == SetToSeq(told)
<1>1. host \in Hosts /\ Steady(host) /\ Flows(host, host)  BY StandsSound
<1>2. /\ c \in Hosts /\ c.line = host.line /\ c.req = host.req /\ c.micro = host.micro
      /\ c.freed = host.freed /\ c.pin = host.pin /\ SameRows(host, c)
  BY <1>1 DEF Hosts, SameRows
<1>3. w = [c EXCEPT !.freed = F, !.pin = P, !.line = L, !.micro = m, !.req = R]
  BY <1>2 DEF CancelActive, Hosts
<1> HIDE DEF c
<1>4. Steady(c)  BY <1>1, <1>2, LineFrame
<1>5. c.req \in [Requests -> Request] /\ c.freed \subseteq Requests
  BY <1>2 DEF Hosts
<1>6. m \in Seq(Requests) /\ IsInjective(m) /\ ToSet(m) \subseteq told  BY Listed
<1>7. told \subseteq Requests /\ live \subseteq Requests  OBVIOUS
<1>8. \A t \in Threads : P[t] = Unpinned
  <2> SUFFICES ASSUME NEW t \in Threads, c.pin[t] # Unpinned  PROVE \E x \in live : On(c, x) = t
    OBVIOUS
  <2> QED  BY <1>4 DEF Steady, PinsOK
<1>9. Unpinned \in 0 .. Unpinned
  <2>1. MaxSeq \in Nat  BY QueueAssumption
  <2> QED  BY <2>1 DEF Unpinned
<1>10. P \in [Threads -> 0 .. Unpinned]
  <2>1. \A t \in Threads : P[t] \in 0 .. Unpinned  BY <1>8, <1>9
  <2>2. P = [t \in Threads |-> P[t]]  OBVIOUS
  <2> HIDE DEF P
  <2> QED  BY <2>1, <2>2
<1>11. L \in [Threads -> Seq(Requests)] /\ \A t \in Threads : ToSet(L[t]) = {}
  <2>1. DOMAIN <<>> = {} /\ <<>> \in Seq(Requests)  OBVIOUS
  <2>2. ToSet(<<>>) = {}  BY <2>1 DEF ToSet
  <2> QED  BY <2>1, <2>2
<1>12. /\ R \in [Requests -> Request]
       /\ \A x \in Requests : /\ R[x].on = c.req[x].on /\ R[x].kind = c.req[x].kind
                              /\ R[x].through = c.req[x].through /\ R[x].mark = c.req[x].mark
                              /\ R[x].pc = IF x \in told THEN "cancelled" ELSE c.req[x].pc
  <2>1. "cancelled" \in Pcs  BY DEF Pcs, Unsettled
  <2> HIDE DEF told
  <2> QED  BY <1>5, <2>1 DEF Cancel, Request
<1> HIDE DEF P, L, m, R
<1>13. F \subseteq Requests /\ \A x \in F : x \in c.freed \/ x \in live  BY <1>5
<1>14. \A x \in live : c.req[x].pc # "new"  BY DEF Unsettled, Waiting
<1>15. \A x \in told : c.req[x].pc = "waiting"  OBVIOUS
<1> HIDE DEF F, told, live
<1>16. /\ w \in Hosts /\ w.line = L /\ w.req = R /\ w.micro = m /\ w.freed = F /\ w.pin = P
       /\ SameRows(c, w)
  <2> DEFINE a == [c EXCEPT !.line = L, !.micro = m, !.req = R]
             b == [a EXCEPT !.freed = F, !.pin = P]
  <2>1. /\ a \in Hosts /\ a.line = L /\ a.req = R /\ a.micro = m /\ SameRows(c, a)
    BY <1>2, <1>6, <1>11, <1>12 DEF Hosts, SameRows
  <2>2. w = b  BY <1>2, <1>3 DEF Hosts
  <2> HIDE DEF a
  <2>3. /\ b \in Hosts /\ b.line = L /\ b.req = R /\ b.micro = m /\ b.freed = F /\ b.pin = P
        /\ SameRows(a, b)
    BY <1>10, <1>13, <2>1 DEF Hosts, SameRows
  <2> QED  BY <2>1, <2>2, <2>3 DEF SameRows
<1>17. LinesOK(w)
  <2>1. \A t \in Threads : IsInjective(L[t])
    <3>1. DOMAIN <<>> = {}  OBVIOUS
    <3> QED  BY <3>1 DEF L, IsInjective
  <2> QED  BY <1>11, <1>16, <2>1 DEF LinesOK
<1>18. MicroOK(w)  BY <1>6, <1>7, <1>12, <1>16 DEF MicroOK
<1>19. MadeOK(w)
  BY <1>4, <1>7, <1>12, <1>13, <1>14, <1>15, <1>16 DEF Steady, MadeOK, On, IsFence
<1>20. PinsOK(w)  BY <1>8, <1>16 DEF PinsOK
<1>21. SameRows(host, w)  BY <1>2, <1>16 DEF SameRows
<1>22. Flows(host, w)  BY <1>1, <1>16, <1>17, <1>18, <1>19, <1>20, <1>21, LineFlows DEF Steady
<1> QED  BY <1>8, <1>16, <1>22

\* What is left of a process: rows in order, and nobody under way.
LEMMA ExitSound ==
    ASSUME NEW w, Sound(w), NEW v, v = Exit(w)
    PROVE  /\ Sound(v) /\ v.log = w.log /\ v.gap = w.gap /\ v.phase = "down"
           /\ \A t \in Threads : All(v, t) = w.log[t]
<1> DEFINE R == [x \in Requests |-> IF w.req[x].pc \in Unsettled
                                    THEN [w.req[x] EXCEPT !.pc = "refused"] ELSE w.req[x]]
           E == [t \in Threads |-> <<>>]
           Z == [t \in Threads |-> 0]
           P == [t \in Threads |-> Unpinned]
<1>1. w \in Hosts /\ RowsOK(w) /\ Steady(w)  BY DEF Sound
<1>2. v = [w EXCEPT !.phase = "down", !.pending = E, !.last = Z, !.pin = P, !.line = E,
                    !.alone = FALSE, !.micro = <<>>, !.freed = {}, !.tainted = {}, !.owed = {},
                    !.latched = FALSE, !.touched = {}, !.refusing = FALSE, !.req = R]
  BY <1>1 DEF Exit, Hosts
<1>3. w.req \in [Requests -> Request]  BY <1>1 DEF Hosts
<1>4. /\ R \in [Requests -> Request]
      /\ \A x \in Requests : /\ R[x].on = w.req[x].on /\ R[x].kind = w.req[x].kind
                             /\ R[x].through = w.req[x].through /\ R[x].mark = w.req[x].mark
                             /\ R[x].pc # "new" => w.req[x].pc # "new"
  <2>1. "refused" \in Pcs /\ "new" \notin Unsettled  BY DEF Pcs, Unsettled, Waiting
  <2> QED  BY <1>3, <2>1 DEF Request
<1> HIDE DEF R
<1>5. DOMAIN <<>> = {} /\ <<>> \in Seq(Requests) /\ <<>> \in Seq(1 .. MaxSeq)  OBVIOUS
<1>6. /\ E \in [Threads -> Seq(Requests)] /\ E \in [Threads -> Seq(1 .. MaxSeq)]
      /\ \A t \in Threads : E[t] = <<>>
  BY <1>5
<1>7. Z \in [Threads -> 0 .. MaxSeq] /\ P \in [Threads -> 0 .. Unpinned]
      /\ \A t \in Threads : Z[t] = 0 /\ P[t] = Unpinned
  <2>1. MaxSeq \in Nat  BY QueueAssumption
  <2>2. 0 \in 0 .. MaxSeq /\ Unpinned \in 0 .. Unpinned  BY <2>1 DEF Unpinned
  <2> QED  BY <2>2
<1> HIDE DEF E, Z, P
<1>8. /\ v \in Hosts /\ v.log = w.log /\ v.gap = w.gap /\ v.phase = "down" /\ v.pending = E
      /\ v.last = Z /\ v.pin = P /\ v.line = E /\ v.micro = <<>> /\ v.freed = {} /\ v.req = R
      /\ v.next = w.next
  <2> DEFINE a == [w EXCEPT !.phase = "down", !.pending = E, !.last = Z, !.pin = P]
             b == [a EXCEPT !.line = E, !.micro = <<>>, !.freed = {}, !.req = R]
             c == [b EXCEPT !.alone = FALSE, !.tainted = {}, !.owed = {}]
             d == [c EXCEPT !.latched = FALSE, !.touched = {}, !.refusing = FALSE]
  <2>1. v = d  BY <1>1, <1>2 DEF Hosts
  <2>2. /\ a \in Hosts /\ a.log = w.log /\ a.gap = w.gap /\ a.phase = "down" /\ a.pending = E
        /\ a.last = Z /\ a.pin = P /\ a.next = w.next
    BY <1>1, <1>6, <1>7 DEF Hosts
  <2> HIDE DEF a
  <2>3. /\ b \in Hosts /\ b.log = w.log /\ b.gap = w.gap /\ b.phase = "down" /\ b.pending = E
        /\ b.last = Z /\ b.pin = P /\ b.next = w.next
        /\ b.line = E /\ b.micro = <<>> /\ b.freed = {} /\ b.req = R
    BY <1>4, <1>5, <1>6, <2>2 DEF Hosts
  <2> HIDE DEF b
  <2>4. /\ c \in Hosts /\ c.log = w.log /\ c.gap = w.gap /\ c.phase = "down" /\ c.pending = E
        /\ c.last = Z /\ c.pin = P /\ c.next = w.next
        /\ c.line = E /\ c.micro = <<>> /\ c.freed = {} /\ c.req = R
    BY <2>3 DEF Hosts
  <2> HIDE DEF c
  <2>5. /\ d \in Hosts /\ d.log = w.log /\ d.gap = w.gap /\ d.phase = "down" /\ d.pending = E
        /\ d.last = Z /\ d.pin = P /\ d.next = w.next
        /\ d.line = E /\ d.micro = <<>> /\ d.freed = {} /\ d.req = R
    BY <2>4 DEF Hosts
  <2> QED  BY <2>1, <2>5
<1>9. ASSUME NEW t \in Threads
      PROVE  /\ All(v, t) = w.log[t] /\ InOrder(w.log[t])
             /\ \A i \in DOMAIN w.log[t] : w.log[t][i] < w.next
  <2> DEFINE a == w.log[t]
             b == w.pending[t]
  <2>1. a \in Seq(1 .. MaxSeq) /\ b \in Seq(1 .. MaxSeq)  BY <1>1 DEF Hosts
  <2>2. InOrder(a \o b) /\ \A i \in DOMAIN a : a[i] < w.next  BY <1>1 DEF RowsOK, All
  <2>3. All(v, t) = a \o <<>>  BY <1>6, <1>8 DEF All
  <2> HIDE DEF a, b
  <2>4. a \o <<>> = a  BY <2>1
  <2>5. /\ DOMAIN a \subseteq DOMAIN (a \o b)
        /\ \A i \in DOMAIN a : (a \o b)[i] = a[i]
    <3>1. Len(a) \in Nat /\ Len(b) \in Nat /\ DOMAIN a = 1 .. Len(a)  BY <2>1, LenProperties
    <3>2. /\ DOMAIN (a \o b) = 1 .. Len(a) + Len(b)
          /\ \A n \in 1 .. Len(a) + Len(b) : (a \o b)[n] = IF n <= Len(a) THEN a[n] ELSE b[n - Len(a)]
      BY <2>1, ConcatProperties, LenProperties
    <3> QED  BY <3>1, <3>2
  <2>6. InOrder(a)
    <3> SUFFICES ASSUME NEW i \in DOMAIN a, NEW j \in DOMAIN a, i < j  PROVE a[i] < a[j]
      BY DEF InOrder
    <3>1. (a \o b)[i] < (a \o b)[j]  BY <2>2, <2>5 DEF InOrder
    <3> QED  BY <2>5, <3>1
  <2> QED  BY <2>2, <2>3, <2>4, <2>6 DEF a
<1>10. RowsOK(v)
  <2>1. \A t \in Threads : v.last[t] < v.next
    <3>1. w.next \in 1 .. Unpinned  BY <1>1 DEF Hosts
    <3> QED  BY <1>7, <1>8, <3>1
  <2> QED  BY <1>5, <1>6, <1>8, <1>9, <2>1 DEF RowsOK
<1>11. ToSet(<<>>) = {} /\ IsInjective(<<>>)  BY <1>5 DEF ToSet, IsInjective
<1>12. LinesOK(v) /\ MicroOK(v)  BY <1>6, <1>8, <1>11 DEF LinesOK, MicroOK
<1>13. MadeOK(v)  BY <1>1, <1>4, <1>8 DEF Steady, MadeOK, On, IsFence
<1>14. PinsOK(v)  BY <1>7, <1>8 DEF PinsOK
<1> QED  BY <1>8, <1>9, <1>10, <1>12, <1>13, <1>14 DEF Sound, Steady

\* An orderly end wrote everything; any other end leaves the rows and the gaps there were.
Wrote(u, w) ==
    /\ Sound(w) /\ w.phase = "down"
    /\ \A t \in Threads : /\ Grew(u, w, t) /\ All(w, t) = All(u, t)
                          /\ Len(w.log[t]) = Len(All(w, t))
Lost(u, w) ==
    /\ Sound(w) /\ w.phase = "down" /\ w.gap = u.gap
    /\ \A t \in Threads : /\ All(w, t) = SubSeq(All(u, t), 1, Len(u.log[t]))
                          /\ Len(w.log[t]) = Len(u.log[t])

\* A flush keeps the phase.
PhaseIs(w, p) == "phase" \in DOMAIN w /\ w.phase = p
\* Only a close and a boot change it.
LEMMA PhaseKept ==
    ASSUME NEW w, NEW p, PhaseIs(w, p), NEW n, NEW G, NEW rollback \in Rollbacks
    PROVE  PhaseIs(Commit(w, n), p) /\ PhaseIs(FlushBudgeted(w, G, rollback), p)
<1>1. \A v, m : PhaseIs(v, p) => PhaseIs(Commit(v, m), p)  BY DEF PhaseIs, Commit
<1>2. \A v, a : PhaseIs(v, p) => PhaseIs([v EXCEPT !.alone = a], p)  BY DEF PhaseIs
<1>3. \A v : PhaseIs(v, p) => PhaseIs(FlushAlone(v, G), p)
  BY <1>1, <1>2 DEF FlushAlone, CommitEach
<1>4. PhaseIs(FlushGroup(w, G, rollback), p)
  BY <1>1, <1>2, <1>3 DEF FlushGroup, CommitEach, Rollbacks
<1> QED  BY <1>1, <1>3, <1>4 DEF FlushBudgeted

\* closeDatabase flushes, or ends the process with everything written.
LEMMA CloseEnds ==
    ASSUME Sound(host), NEW G, NEW rollback \in Rollbacks, CloseDatabase(G, rollback)
    PROVE  \/ Works(host, host') /\ host'.phase # "down"
           \/ Wrote(host, host')
<1> DEFINE c == [host EXCEPT !.phase = "closing"]
           w == CancelActive(c)
           n == [t \in Threads |-> Due(w, t, MaxSeq)]
           d == Commit(w, n)
           v == FlushOwed(d)
           z == Exit(v)
<1>1. host \in Hosts  BY StandsSound
<1>2. Flows(host, w) /\ \A t \in Threads : w.pin[t] = Unpinned
  BY DisposeFlows DEF CloseDatabase
<1> DEFINE p == "closing"
<1> HIDE DEF p
<1>15. PhaseIs(w, p)
  <2>1. PhaseIs(c, p)  BY <1>1 DEF PhaseIs, Hosts, p
  <2> HIDE DEF c
  <2> QED  BY <2>1 DEF PhaseIs, CancelActive
<1> HIDE DEF c
<1>3. \/ host' = FlushBudgeted(w, G, rollback)
      \/ host' = v
      \/ host' = z
  BY DEF CloseDatabase, Step, z, v, d, n, w, c
<1> HIDE DEF w
<1>4. w \in Hosts /\ RowsOK(w)  BY <1>2 DEF Flows, Sound
<1>16. PhaseIs(FlushBudgeted(w, G, rollback), p) /\ PhaseIs(v, p)
  <2>1. PhaseIs(FlushBudgeted(w, G, rollback), p) /\ PhaseIs(d, p)  BY <1>15, PhaseKept
  <2> HIDE DEF d
  <2>2. PhaseIs(v, p)  BY <2>1 DEF PhaseIs, FlushOwed
  <2> QED  BY <2>1, <2>2
<1>5. CASE host' = FlushBudgeted(w, G, rollback)
  <2>1. Works(host, host')  BY <1>1, <1>2, <1>5, BudgetedFlows, FlowsWorks
  <2> QED  BY <1>5, <1>16, <2>1 DEF PhaseIs, p
<1>6. ASSUME NEW t \in Threads
      PROVE  n[t] = Len(w.pending[t]) /\ n[t] \in Nat
  <2>1. MaxSeq \in Int  BY QueueAssumption
  <2> DEFINE b == MaxSeq
  <2> HIDE DEF b
  <2>2. b \in Int /\ b = MaxSeq  BY <2>1 DEF b
  <2>3. Due(w, t, b) = Len(w.pending[t])  BY <1>2, <1>4, <2>2, DueFacts
  <2>4. Len(w.pending[t]) \in Nat  BY <1>4, AllFacts
  <2> QED  BY <2>2, <2>3, <2>4
<1>7. n \in [Threads -> Nat] /\ \A t \in Threads : n[t] <= Len(w.pending[t])
  <2>1. \A t \in Threads : n[t] <= Len(w.pending[t])
    <3> HIDE DEF n
    <3> QED  BY <1>6
  <2> QED  BY <1>6, <2>1
<1>8. Flows(host, d)
  <2> HIDE DEF n
  <2> QED  BY <1>2, <1>7, CommitFacts
<1>9. \A t \in Threads : d.pending[t] = <<>>
  <2> SUFFICES ASSUME NEW t \in Threads  PROVE d.pending[t] = <<>>
    OBVIOUS
  <2> DEFINE q == w.pending[t]
  <2>1. d.pending[t] = SubSeq(q, n[t] + 1, Len(q))
    <3> HIDE DEF n
    <3> QED  BY <1>4 DEF Commit, Hosts
  <2>2. d.pending[t] = SubSeq(q, Len(q) + 1, Len(q)) /\ Len(q) \in Nat  BY <1>6, <2>1
  <2> HIDE DEF q
  <2>3. SubSeq(q, Len(q) + 1, Len(q)) = <<>>  BY <2>2, SubSeqEmpty
  <2> QED  BY <2>2, <2>3
<1> HIDE DEF d
<1>10. d \in Hosts  BY <1>8 DEF Flows, Sound
<1>11. /\ v \in Hosts /\ v.line = d.line /\ v.req = d.req /\ v.micro = d.micro
       /\ v.freed = d.freed /\ v.pin = d.pin /\ v.log = d.log /\ v.pending = d.pending
       /\ v.last = d.last /\ v.next = d.next /\ d.gap \subseteq v.gap
  <2> DEFINE g == d.gap \cup (d.owed \ d.failing)
             o == d.owed \cap d.failing
  <2>1. v = [d EXCEPT !.gap = g, !.owed = o]  BY <1>10 DEF FlushOwed, Hosts
  <2>2. g \subseteq Threads /\ o \subseteq Threads /\ d.gap \subseteq g  BY <1>10 DEF Hosts
  <2> HIDE DEF g, o, v
  <2> QED  BY <1>10, <2>1, <2>2 DEF Hosts
<1> HIDE DEF v
<1>12. Flows(host, v)  BY <1>8, <1>11, Plain
<1>13. CASE host' = v
  <2>1. Works(host, host')  BY <1>1, <1>12, <1>13, FlowsWorks
  <2> QED  BY <1>13, <1>16, <2>1 DEF PhaseIs, p
<1>14. CASE host' = z
  <2>1. /\ Sound(z) /\ z.log = v.log /\ z.gap = v.gap /\ z.phase = "down"
        /\ \A t \in Threads : All(z, t) = v.log[t]
    BY <1>12, ExitSound DEF Flows
  <2> HIDE DEF z
  <2>2. v \in Hosts /\ z \in Hosts  BY <2>1, <1>12 DEF Flows, Sound
  <2>3. ASSUME NEW t \in Threads
        PROVE  Grew(host, z, t) /\ All(z, t) = All(host, t) /\ Len(z.log[t]) = Len(All(z, t))
    <3>1. All(v, t) = v.log[t]
      <4>1. v.log[t] \in Seq(1 .. MaxSeq)  BY <1>11, AllFacts
      <4>2. v.pending[t] = <<>>  BY <1>9, <1>11
      <4>3. v.log[t] \o <<>> = v.log[t]  BY <4>1, ConcatEmptySeq
      <4> QED  BY <4>2, <4>3 DEF All
    <3>2. /\ All(v, t) = All(host, t) /\ Len(host.log[t]) <= Len(v.log[t])
          /\ host.gap \subseteq v.gap
      BY <1>12 DEF Flows
    <3>3. All(z, t) = All(host, t) /\ z.log[t] = All(z, t)  BY <2>1, <3>1, <3>2
    <3>4. Len(z.log[t]) \in Len(host.log[t]) .. Len(All(z, t))
      BY <1>1, <2>1, <2>2, <3>2, LogFits
    <3> QED  BY <2>1, <3>2, <3>3, <3>4 DEF Grew
  <2> QED  BY <1>14, <2>1, <2>3 DEF Wrote
<1> QED  BY <1>3, <1>5, <1>13, <1>14

\* A process that is killed leaves the rows that were written.
LEMMA CrashEnds ==
    ASSUME Sound(host), Crash
    PROVE  Lost(host, host')
<1> DEFINE z == Exit(host)
           H == z.hole \cap host.gap
<1>1. /\ Sound(z) /\ z.log = host.log /\ z.gap = host.gap /\ z.phase = "down"
      /\ \A t \in Threads : All(z, t) = host.log[t]
  BY ExitSound
<1>2. host' = [z EXCEPT !.hole = H]  BY DEF Crash, Step
<1> HIDE DEF z
<1>3. z \in Hosts /\ RowsOK(z) /\ Steady(z)  BY <1>1 DEF Sound
<1>4. H \subseteq Threads  BY <1>3 DEF Hosts
<1> HIDE DEF H
<1>5. /\ host' \in Hosts /\ host'.line = z.line /\ host'.req = z.req /\ host'.micro = z.micro
      /\ host'.freed = z.freed /\ host'.pin = z.pin /\ host'.log = z.log
      /\ host'.pending = z.pending /\ host'.last = z.last /\ host'.next = z.next
      /\ host'.gap = z.gap /\ host'.phase = z.phase
  BY <1>2, <1>3, <1>4 DEF Hosts
<1>6. Sound(host')  BY <1>3, <1>5, RowFrame, LineFrame DEF Sound
<1>7. ASSUME NEW t \in Threads
      PROVE  All(host', t) = SubSeq(All(host, t), 1, Len(host.log[t]))
  <2>1. All(host', t) = host.log[t]  BY <1>1, <1>5 DEF All
  <2>2. host.log[t] \in Seq(1 .. MaxSeq) /\ host.pending[t] \in Seq(1 .. MaxSeq)
    BY StandsSound, AllFacts
  <2>3. SubSeq(All(host, t), 1, Len(host.log[t])) = host.log[t]
    <3> DEFINE R == 1 .. MaxSeq
               a == host.log[t]
               b == host.pending[t]
    <3>1. a \in Seq(R) /\ b \in Seq(R)  BY <2>2
    <3> HIDE DEF a, b, R
    <3>2. SubSeq(a \o b, 1, Len(a)) = a  BY <3>1, RowsFirst
    <3> QED  BY <3>2 DEF All, a, b
  <2> QED  BY <2>1, <2>3
<1> QED  BY <1>1, <1>5, <1>6, <1>7 DEF Lost

\* A boot finds the rows there are.
LEMMA BootBegins ==
    ASSUME Sound(host), Boot
    PROVE  /\ Sound(host') /\ host'.phase = "open" /\ host'.log = host.log
           /\ host'.pending = host.pending /\ host'.gap = host.gap
<1>1. host \in Hosts /\ RowsOK(host) /\ Steady(host)  BY StandsSound
<1>2. host' = [host EXCEPT !.phase = "open"]  BY DEF Boot, Step
<1>3. /\ host' \in Hosts /\ host'.line = host.line /\ host'.req = host.req
      /\ host'.micro = host.micro /\ host'.freed = host.freed /\ host'.pin = host.pin
      /\ host'.log = host.log /\ host'.pending = host.pending /\ host'.last = host.last
      /\ host'.next = host.next /\ host'.gap = host.gap /\ host'.phase = "open"
  BY <1>1, <1>2 DEF Hosts
<1> QED  BY <1>1, <1>3, RowFrame, LineFrame DEF Sound

-----------------------------------------------------------------------------
(* The abstract log.                                                       *)

\* Accepting and writing events is a step of each thread of the abstract log.
LEMMA GrowMaps ==
    ASSUME NEW t \in Threads, Grew(host, host', t)
    PROVE  Durable!Grow(t)
  BY DEF Durable!Grow, Durable!Later, Grew, All

\* A repair is a step of one thread of it.
LEMMA RepairMaps ==
    ASSUME NEW t \in Threads, Repaired(host, host', t)
    PROVE  /\ Durable!Truncate(t) \/ Durable!Rebase(t) \/ Durable!Acknowledge(t)
           /\ \A s \in Threads \ {t} : Durable!Grow(s)
<1>1. ASSUME Truncated(host, host', t)  PROVE Durable!Truncate(t)
  BY <1>1 DEF Truncated, Durable!Truncate, Durable!Prefix, All
<1>2. ASSUME Rebased(host, host', t)  PROVE Durable!Rebase(t)
  BY <1>2 DEF Rebased, Durable!Rebase, All
<1>3. ASSUME Acknowledged(host, host', t)  PROVE Durable!Acknowledge(t)
  BY <1>3 DEF Acknowledged, Durable!Acknowledge, Durable!LoseSuffix, Durable!Prefix, All
<1>4. \A s \in Threads \ {t} : Durable!Grow(s)  BY GrowMaps DEF Repaired
<1> QED  BY <1>1, <1>2, <1>3, <1>4 DEF Repaired

\* A step of the host that keeps its process is a step of the log.
LEMMA WorksMaps ==
    ASSUME Works(host, host'), Up(host') = Up(host)
    PROVE  Durable!Next
<1>1. CASE \A t \in Threads : Grew(host, host', t)
  <2>1. \A t \in Threads : Durable!Grow(t)  BY <1>1, GrowMaps
  <2> QED  BY <2>1 DEF Durable!Next
<1>2. CASE \E t \in Threads : Repaired(host, host', t)
  <2>1. \E t \in Threads :
            /\ Durable!Truncate(t) \/ Durable!Rebase(t) \/ Durable!Acknowledge(t)
            /\ \A s \in Threads \ {t} : Durable!Grow(s)
    BY <1>2, RepairMaps
  <2> QED  BY <2>1 DEF Durable!Next
<1> QED  BY <1>1, <1>2 DEF Works, Moves

\* The end of a process is its death or its close.
LEMMA EndMaps ==
    ASSUME Up(host), Wrote(host, host') \/ Lost(host, host')
    PROVE  Durable!Next
<1>1. ~Up(host')  BY DEF Wrote, Lost, Up
<1>2. CASE Wrote(host, host')
  <2>1. \A t \in Threads : Durable!Grow(t)  BY <1>2, GrowMaps DEF Wrote
  <2>2. Durable!Close  BY <1>2, <2>1 DEF Wrote, Durable!Close, All
  <2> QED  BY <1>1, <2>2 DEF Durable!Next
<1>3. CASE Lost(host, host')
  <2>1. Durable!Die
    BY <1>3 DEF Lost, Durable!Die, Durable!LoseSuffix, Durable!Prefix, All
  <2> QED  BY <1>1, <2>1 DEF Durable!Next
<1> QED  BY <1>2, <1>3

\* A boot is its restart.
LEMMA BootMaps ==
    ASSUME ~Up(host), host'.phase = "open", host'.log = host.log, host'.pending = host.pending,
           host'.gap = host.gap
    PROVE  Durable!Next
  BY DEF Durable!Next, Up

-----------------------------------------------------------------------------
(* Theorems about the log.                                                 *)

\* What a step of the host is: work of a process that goes on, its end, or a boot.
HostSteps ==
    \/ Works(host, host') /\ Up(host') = Up(host)
    \/ Up(host) /\ (Wrote(host, host') \/ Lost(host, host'))
    \/ /\ ~Up(host) /\ Sound(host') /\ host'.phase = "open" /\ host'.log = host.log
       /\ host'.pending = host.pending /\ host'.gap = host.gap

\* Every action, in the order of Next.
LEMMA HostStepwise ==
    ASSUME RInv, Sound(host), Next
    PROVE  HostSteps
<1>1. ASSUME Goes(host, host'), Works(host, host'), Up(host)  PROVE HostSteps
  BY <1>1 DEF Goes, HostSteps, Up
<1>2. ASSUME NEW t \in Threads, NEW age \in Ages, NEW backoff \in BOOLEAN, Admit(t, age, backoff)
      PROVE  HostSteps
  BY <1>1, <1>2, AdmitGoes, AdmitWorks DEF Admit, Idle
<1>3. ASSUME NEW G \in SUBSET Threads, NEW rollback \in Rollbacks, NEW age \in Ages,
             NEW healthy \in BOOLEAN, FlushCycle(G, rollback, age, healthy)
      PROVE  HostSteps
  <2>1. Goes(host, host')  BY <1>3, FlushCycleGoes
  <2>2. Works(host, host')  BY <1>3, FlushCycleWorks
  <2>3. Up(host)  BY <1>3 DEF FlushCycle, Idle
  <2> QED  BY <1>1, <2>1, <2>2, <2>3
<1>4. ASSUME NEW t \in Threads, DropRebase(t) \/ Barrier(t)  PROVE HostSteps
  BY <1>1, <1>4, AdmitGoes, AdmitWorks DEF DropRebase, Barrier, Idle
<1>5. ASSUME NEW t, NEW S \in SUBSET Threads, Break(S) \/ Heal(t)  PROVE HostSteps
  <2>1. Works(host, host')  BY <1>5, DiskWorks
  <2>2. host' = [host EXCEPT !.failing = S] \/ host' = [host EXCEPT !.failing = @ \ {t}]
    BY <1>5 DEF Break, Heal, Step
  <2>3. host'.phase = host.phase  BY <2>2, StandsSound DEF Hosts
  <2> QED  BY <2>1, <2>3 DEF HostSteps, Up
<1>6. ASSUME NEW x \in Requests, NEW t \in Threads, BeginFence(x, t)  PROVE HostSteps
  BY <1>1, <1>6, RequestGoes, BeginFenceWorks DEF BeginFence, Idle
<1>7. ASSUME NEW x \in Requests, NEW t \in Threads, NEW kind \in Mutations, RequestMutation(x, t, kind)
      PROVE  HostSteps
  BY <1>1, <1>7, RequestGoes, RequestWorks DEF RequestMutation, Idle
<1>8. ASSUME NEW x \in Requests, WorkerReads(x) \/ Expire(x)  PROVE HostSteps
  BY <1>1, <1>8, WorkerGoes, WorkerWorks, ExpireWorks DEF WorkerReads, Expire, Idle
<1>9. ASSUME NEW x \in Requests, Answer(x)  PROVE HostSteps
  <2>1. Works(host, host') /\ Up(host)  BY <1>9, AnswerWorks DEF Answer, Idle
  <2>2. Up(host')
    <3> DEFINE v == Release(Learn(host, On(host, x)), x)
    <3>1. Goes(host, v)  BY <2>1, Standing, LearnGoes, ReleaseGoes
    <3>2. \E pc : host' = At(v, x, pc)  BY <1>9 DEF Answer, Step
    <3> HIDE DEF v
    <3> QED  BY <3>1, <3>2 DEF At, Goes, Shaped, Fields, Up
  <2> QED  BY <2>1, <2>2 DEF HostSteps
<1>10. ASSUME NEW keep \in Keeps, NEW late \in BOOLEAN, Continue(keep, late)  PROVE HostSteps
  BY <1>1, <1>10, ContinueGoes, ContinueWorks DEF Continue
<1>11. ASSUME NEW x \in Requests, NEW keep \in Keeps, NEW late \in BOOLEAN, Resume(x, keep, late)
       PROVE  HostSteps
  BY <1>1, <1>11, ContinueGoes, ResumeWorks DEF Resume, Idle
<1>12. ASSUME NEW t \in Threads, NEW keep \in Keeps, TruncateNow(t, keep)  PROVE HostSteps
  BY <1>1, <1>12, WorkerGoes, TruncateNowWorks DEF TruncateNow, Idle
<1>13. ASSUME NEW G \in SUBSET Threads, NEW rollback \in Rollbacks, CloseDatabase(G, rollback)
       PROVE  HostSteps
  BY <1>13, CloseEnds DEF HostSteps, CloseDatabase, Idle, Up
<1>14. CASE Crash  BY <1>14, CrashEnds DEF HostSteps, Crash
<1>15. CASE Boot  BY <1>15, BootBegins DEF HostSteps, Boot
<1> QED
  BY <1>2, <1>3, <1>4, <1>5, <1>6, <1>7, <1>8, <1>9, <1>10, <1>11, <1>12, <1>13, <1>14, <1>15
  DEF Next

\* The counters stay within their bounds.
Counted == faults \in 0 .. MaxFaults /\ boots \in 0 .. MaxBoots + 1 /\ spoiled \subseteq Requests

\* No action lets a counter pass its bound.
LEMMA CountedKept ==
    ASSUME Counted, Next
    PROVE  Counted'
<1>1. ASSUME spoiled' = spoiled \cup Misaligned(host'),
             faults' = faults \/ (faults < MaxFaults /\ faults' = faults + 1),
             boots' = boots \/ (boots < MaxBoots /\ boots' = boots + 1)
      PROVE  Counted'
  <2>1. spoiled' \subseteq Requests  BY <1>1 DEF Misaligned, Counted
  <2>2. faults' \in 0 .. MaxFaults /\ boots' \in 0 .. MaxBoots + 1
    BY <1>1, LimitsAssumption DEF Counted
  <2> QED  BY <2>1, <2>2 DEF Counted
<1>2. ASSUME NEW w, Step(w)  PROVE spoiled' = spoiled \cup Misaligned(host')
  BY <1>2 DEF Step
<1>3. ASSUME NEW w, Step(w), UNCHANGED <<faults, boots>>  PROVE Counted'
  BY <1>1, <1>2, <1>3
<1>4. ASSUME NEW t \in Threads, NEW age \in Ages, NEW backoff \in BOOLEAN, Admit(t, age, backoff)
      PROVE  Counted'
  BY <1>3, <1>4 DEF Admit
<1>5. ASSUME NEW G \in SUBSET Threads, NEW rollback \in Rollbacks, NEW age \in Ages,
             NEW healthy \in BOOLEAN, FlushCycle(G, rollback, age, healthy)
      PROVE  Counted'
  BY <1>3, <1>5 DEF FlushCycle
<1>6. ASSUME NEW t \in Threads, DropRebase(t) \/ Barrier(t) \/ Heal(t)  PROVE Counted'
  BY <1>3, <1>6 DEF DropRebase, Barrier, Heal
<1>7. ASSUME NEW S \in SUBSET Threads, Break(S)  PROVE Counted'
  BY <1>1, <1>2, <1>7 DEF Break
<1>8. ASSUME NEW x \in Requests, NEW t \in Threads, BeginFence(x, t)  PROVE Counted'
  BY <1>3, <1>8 DEF BeginFence
<1>9. ASSUME NEW x \in Requests, NEW t \in Threads, NEW kind \in Mutations, RequestMutation(x, t, kind)
      PROVE  Counted'
  BY <1>3, <1>9 DEF RequestMutation
<1>10. ASSUME NEW x \in Requests, WorkerReads(x) \/ Answer(x) \/ Expire(x)  PROVE Counted'
  BY <1>3, <1>10 DEF WorkerReads, Answer, Expire
<1>11. ASSUME NEW keep \in Keeps, NEW late \in BOOLEAN, Continue(keep, late)  PROVE Counted'
  BY <1>3, <1>11 DEF Continue
<1>12. ASSUME NEW x \in Requests, NEW keep \in Keeps, NEW late \in BOOLEAN, Resume(x, keep, late)
       PROVE  Counted'
  BY <1>3, <1>12 DEF Resume
<1>13. ASSUME NEW t \in Threads, NEW keep \in Keeps, TruncateNow(t, keep)  PROVE Counted'
  BY <1>3, <1>13 DEF TruncateNow
<1>14. ASSUME NEW G \in SUBSET Threads, NEW rollback \in Rollbacks, CloseDatabase(G, rollback)
       PROVE  Counted'
  BY <1>3, <1>14 DEF CloseDatabase
<1>15. CASE Crash  BY <1>3, <1>15 DEF Crash
<1>16. CASE Boot  BY <1>1, <1>2, <1>16 DEF Boot
<1> QED
  BY <1>4, <1>5, <1>6, <1>7, <1>8, <1>9, <1>10, <1>11, <1>12, <1>13, <1>14, <1>15, <1>16 DEF Next

\* The inductive invariant: no refused event is forgotten, rows, queue, lines, continuations and
\* pins fit together, and the counters are bounded.
LogInv == RInv /\ Sound(host) /\ Counted

\* It holds initially.
LEMMA LogInitially == Init => LogInv
<1> SUFFICES ASSUME Init  PROVE LogInv
  OBVIOUS
<1>1. RInv  BY Initially
<1>2. Counted  BY LimitsAssumption DEF Init, Counted
<1>3. /\ MaxSeq \in Nat /\ 0 \in 0 .. MaxSeq /\ Unpinned \in 0 .. Unpinned /\ 1 \in 1 .. Unpinned
      /\ 0 \in 0 .. Unpinned
  BY QueueAssumption DEF Unpinned
<1>4. DOMAIN <<>> = {} /\ <<>> \in Seq(Requests) /\ <<>> \in Seq(1 .. MaxSeq)  OBVIOUS
<1>5. NoRequest \in Request
  BY <1>3 DEF NoRequest, Request, Pcs
<1>6. host \in Hosts  BY <1>3, <1>4, <1>5 DEF Init, Hosts
<1>7. <<>> \o <<>> = <<>>  OBVIOUS
<1>8. ToSet(<<>>) = {} /\ IsInjective(<<>>) /\ InOrder(<<>>)
  BY <1>4 DEF ToSet, IsInjective, InOrder
<1>9. RowsOK(host)  BY <1>4, <1>7, <1>8 DEF Init, RowsOK, All
<1>10. LinesOK(host)  BY <1>8 DEF Init, LinesOK
<1>11. MicroOK(host)  BY <1>8 DEF Init, MicroOK
<1>12. MadeOK(host)  BY DEF Init, MadeOK, NoRequest, IsFence
<1>13. PinsOK(host)  BY DEF Init, PinsOK
<1> QED  BY <1>1, <1>2, <1>6, <1>9, <1>10, <1>11, <1>12, <1>13 DEF LogInv, Sound, Steady

\* Every step keeps it and is a step of the abstract log or leaves that unchanged.
LEMMA LogStepwise == LogInv /\ [Next]_vars => LogInv' /\ [Durable!Next]_(Durable!vars)
<1> SUFFICES ASSUME LogInv, [Next]_vars  PROVE LogInv' /\ [Durable!Next]_(Durable!vars)
  OBVIOUS
<1>1. RInv /\ Sound(host) /\ Counted  BY DEF LogInv
<1>2. RInv'  BY <1>1, Stepwise
<1>3. CASE Next
  <2>1. HostSteps  BY <1>1, <1>3, HostStepwise
  <2>2. Sound(host')  BY <2>1 DEF HostSteps, Works, Wrote, Lost
  <2>3. Durable!Next  BY <2>1, WorksMaps, EndMaps, BootMaps DEF HostSteps
  <2>4. Counted'  BY <1>1, <1>3, CountedKept
  <2> QED  BY <1>2, <2>2, <2>3, <2>4 DEF LogInv
<1>4. CASE UNCHANGED vars
  <2>1. host' = host /\ faults' = faults /\ boots' = boots /\ spoiled' = spoiled
    BY <1>4 DEF vars
  <2>2. UNCHANGED Durable!vars  BY <2>1 DEF Durable!vars, Up
  <2>3. LogInv'  BY <1>1, <1>2, <2>1 DEF LogInv, Counted
  <2> QED  BY <2>2, <2>3
<1> QED  BY <1>3, <1>4

\* Rows, queue, lines, continuations and pins always fit together: what is accepted is in order
\* and numbered below the counter, a line holds requests under way, a continuation is owed to a
\* request granted or cancelled, and a pin has an owner (runtimeWriteQueue.ts,
\* runtimeThreadAccessScheduler.ts).
THEOREM LogInvariant == Spec => []LogInv
<1>1. LogInv /\ [Next]_vars => LogInv'  BY LogStepwise
<1> QED  BY LogInitially, <1>1, PTL DEF Spec

\* It implies the type invariant.
LEMMA SoundTyped == LogInv => TypeOK
<1> SUFFICES ASSUME LogInv  PROVE TypeOK
  OBVIOUS
<1>1. host \in Hosts /\ RowsOK(host) /\ LinesOK(host) /\ Counted  BY DEF LogInv, Sound, Steady
<1>2. ASSUME NEW t \in Threads
      PROVE  /\ \A x \in ToSet(host.line[t]) : On(host, x) = t /\ host.req[x].pc \in Unsettled
             /\ InOrder(host.log[t] \o host.pending[t]) /\ IsInjective(host.line[t])
             /\ ToSet(host.pending[t]) \subseteq 1 .. host.last[t]
  <2>1. host.pending[t] \in Seq(1 .. MaxSeq) /\ host.last[t] \in 0 .. MaxSeq  BY <1>1 DEF Hosts
  <2>2. \A i \in DOMAIN host.pending[t] : host.pending[t][i] \in 1 .. MaxSeq
    BY <2>1, LenProperties
  <2>3. \A i \in DOMAIN host.pending[t] : host.pending[t][i] <= host.last[t]  BY <1>1 DEF RowsOK
  <2>4. \A i \in DOMAIN host.pending[t] : host.pending[t][i] \in 1 .. host.last[t]
    <3> MaxSeq \in Nat  BY QueueAssumption
    <3> QED  BY <2>1, <2>2, <2>3
  <2>5. ToSet(host.pending[t]) \subseteq 1 .. host.last[t]  BY <2>4 DEF ToSet
  <2>6. InOrder(host.log[t] \o host.pending[t])  BY <1>1 DEF RowsOK, All
  <2> QED  BY <1>1, <2>5, <2>6 DEF LinesOK, Held
<1> QED  BY <1>1, <1>2 DEF TypeOK, Counted

\* The state of the host always has its type, with every request of a line on its thread and
\* unsettled (runtimeThreadAccessScheduler.ts) and nothing pending beyond what was accepted
\* (runtimeWriteQueue.ts, enqueue).
THEOREM TypeCorrect == Spec => []TypeOK
  BY LogInvariant, SoundTyped, PTL

\* The host implements the abstract log: whatever is flushed in groups, retried alone, cut,
\* rebased, relieved or closed, no accepted event is lost, repeated or reordered without the
\* gap row that says so (runtimeWriteQueueFlush.ts, runtimePersistenceController.ts).
THEOREM LogImplemented == Spec => ImplementsDurableLog
<1>1. Init => Durable!Init
  <2> SUFFICES ASSUME Init  PROVE Durable!Init
    OBVIOUS
  <2>1. \A t \in Threads : host.log[t] \o host.pending[t] = <<>> /\ Len(host.log[t]) = 0
    BY DEF Init
  <2>2. host.gap = {} /\ Up(host)  BY DEF Init, Up
  <2> QED  BY <2>1, <2>2 DEF Durable!Init
<1>2. LogInv /\ [Next]_vars => [Durable!Next]_(Durable!vars)  BY LogStepwise
<1> QED  BY LogInvariant, <1>1, <1>2, PTL DEF Spec, ImplementsDurableLog, Durable!Spec

-----------------------------------------------------------------------------
(* What a reader reads.                                                    *)

\* If the elements of a are in S and those of b are not, a is kept.
LEMMA KeptFirst ==
    ASSUME NEW R, NEW a \in Seq(R), NEW b \in Seq(R), NEW S,
           \A e \in ToSet(a) : e \in S, \A e \in ToSet(b) : e \notin S
    PROVE  Kept(a \o b, S) = a
<1> DEFINE s == a \o b
<1>1. /\ Len(a) \in Nat /\ Len(b) \in Nat /\ s \in Seq(R) /\ Len(s) = Len(a) + Len(b)
      /\ \A i \in 1 .. Len(s) : s[i] = IF i <= Len(a) THEN a[i] ELSE b[i - Len(a)]
  BY ConcatProperties, LenProperties
<1>2. /\ \A i \in 1 .. Len(a) : a[i] \in S
      /\ \A i \in 1 .. Len(b) : b[i] \notin S
  BY LenProperties DEF ToSet
<1> HIDE DEF s
<1>3. ASSUME NEW i \in 1 .. Len(s)
      PROVE  /\ i <= Len(a) => s[i] = a[i] /\ s[i] \in S
             /\ i > Len(a) => s[i] \notin S
  <2>1. CASE i <= Len(a)
    <3>1. i \in 1 .. Len(a)  BY <1>1, <2>1
    <3> QED  BY <1>1, <1>2, <2>1, <3>1
  <2>2. CASE i > Len(a)
    <3>1. i - Len(a) \in 1 .. Len(b)  BY <1>1, <2>2
    <3>2. s[i] = b[i - Len(a)]  BY <1>1, <2>2
    <3> QED  BY <1>1, <1>2, <2>2, <3>1, <3>2
  <2> QED  BY <1>1, <2>1, <2>2
<1>4. Len(s) \in Nat  BY <1>1
<1>5. PICK f : /\ f = [m \in 0 .. Len(s) |-> KeptStep(s, S, f, m)]
               /\ Kept(s, S) = f[Len(s)]
  BY <1>4, KeptDefined
<1>6. \A m \in 0 .. Len(s) : f[m] = KeptStep(s, S, f, m)  BY <1>5, Zenon
<1>7. /\ f[0] = <<>>
      /\ \A m \in 1 .. Len(s) : f[m] = IF s[m] \in S THEN Append(f[m - 1], s[m]) ELSE f[m - 1]
  BY <1>4, <1>6 DEF KeptStep
<1>8. /\ SubSeq(a, 1, 0) = <<>> /\ SubSeq(a, 1, Len(a)) = a
      /\ \A n \in 1 .. Len(a) : Append(SubSeq(a, 1, n - 1), a[n]) = SubSeq(a, 1, n)
  BY <1>1
<1> DEFINE Good(n) == f[n] = SubSeq(a, 1, IF n <= Len(a) THEN n ELSE Len(a))
           T == {n \in 0 .. Len(s) : ~Good(n)}
<1>9. Good(0)
  BY <1>1, <1>7, <1>8
<1>10. ASSUME NEW n \in 1 .. Len(s), Good(n - 1)  PROVE Good(n)
  <2>1. CASE n <= Len(a)
    <3>1. f[n - 1] = SubSeq(a, 1, n - 1)  BY <1>1, <1>10, <2>1
    <3>2. f[n] = Append(f[n - 1], a[n])  BY <1>3, <1>7, <2>1
    <3>3. n \in 1 .. Len(a)  BY <2>1
    <3>4. f[n] = SubSeq(a, 1, n)  BY <1>8, <3>1, <3>2, <3>3
    <3> QED  BY <2>1, <3>4
  <2>2. CASE n > Len(a)
    <3>1. f[n] = f[n - 1]  BY <1>3, <1>7, <2>2
    <3>2. n - 1 >= Len(a) /\ n \in Int  BY <1>1, <2>2
    <3>3. f[n - 1] = SubSeq(a, 1, Len(a))  BY <1>1, <1>10, <3>2
    <3> QED  BY <1>1, <2>2, <3>1, <3>3
  <2> QED  BY <1>1, <2>1, <2>2
<1> HIDE DEF Good
<1>11. T = {}
  <2> SUFFICES ASSUME T # {}  PROVE FALSE
    OBVIOUS
  <2>1. T \in SUBSET Nat  BY <1>1
  <2> HIDE DEF T
  <2>2. PICK k \in T : \A m \in T : k <= m  BY <2>1, Smallest
  <2> USE DEF T
  <2>3. k # 0  BY <1>9, <2>2
  <2>4. k \in 1 .. Len(s) /\ k - 1 \notin T /\ k - 1 \in 0 .. Len(s)  BY <1>1, <2>2, <2>3
  <2> QED  BY <1>10, <2>2, <2>4
<1>12. Good(Len(s))  BY <1>1, <1>11
<1>13. (IF Len(s) <= Len(a) THEN Len(s) ELSE Len(a)) = Len(a)  BY <1>1
<1>14. f[Len(s)] = a
  BY <1>8, <1>12, <1>13 DEF Good
<1> QED  BY <1>5, <1>14 DEF s

\* Requests from u to w: what they are stays, a waiting one may be told, and one may lose its
\* place.
Same1(u, w, x) ==
    /\ On(w, x) = On(u, x) /\ IsFence(w, x) = IsFence(u, x)
    /\ w.req[x].through = u.req[x].through /\ w.req[x].mark = u.req[x].mark
Told1(u, w, x) ==
    /\ Same1(u, w, x)
    /\ \/ w.req[x].pc = u.req[x].pc
       \/ u.req[x].pc = "waiting" /\ w.req[x].pc \in {"granted", "cancelled"}
    /\ Stands(w, x) => Stands(u, x)

\* Rows from u to w: a new row was there before or is within the pin, and an event pending now
\* was pending or is new.
Clean(u, w) ==
    /\ u.next <= w.next
    /\ \A t \in Threads :
        /\ \A e \in ToSet(w.log[t]) : e \in ToSet(u.log[t]) \/ e <= w.pin[t]
        /\ \A e \in ToSet(w.pending[t]) : e \in ToSet(u.pending[t]) \/ e >= u.next

\* The requests X may have gone on.  Where a pin never falls, steps compose.
Tracks(u, w, X) ==
    /\ w \in Hosts /\ Clean(u, w)
    /\ \A x \in Requests : Same1(u, w, x)
    /\ \A x \in Requests \ X : Told1(u, w, x)
Rises(u, w, X) == Tracks(u, w, X) /\ \A t \in Threads : u.pin[t] <= w.pin[t]

\* Requests that are told once may be told again.
LEMMA ToldOn ==
    ASSUME NEW u, NEW w, NEW v, NEW x, Told1(u, w, x), Told1(w, v, x)
    PROVE  Told1(u, v, x)
  BY DEF Told1, Same1

\* Pins, counters and events are numbers.
LEMMA HostNumbers ==
    ASSUME NEW w \in Hosts, NEW t \in Threads
    PROVE  /\ w.pin[t] \in Int /\ w.next \in Int
           /\ \A e \in ToSet(w.log[t]) : e \in Int
           /\ \A e \in ToSet(w.pending[t]) : e \in Int
<1> DEFINE R == 1 .. MaxSeq
<1>1. w.log[t] \in Seq(R) /\ w.pending[t] \in Seq(R)  BY DEF Hosts
<1>2. w.pin[t] \in 0 .. Unpinned /\ w.next \in 1 .. Unpinned  BY DEF Hosts
<1> HIDE DEF R
<1>3. /\ \A e \in ToSet(w.log[t]) : e \in R
      /\ \A e \in ToSet(w.pending[t]) : e \in R
  BY <1>1, InSeq
<1> QED  BY <1>2, <1>3, QueueAssumption DEF Unpinned, R

\* A step in which pins do not fall may follow.
LEMMA TracksOn ==
    ASSUME NEW u \in Hosts, NEW w, NEW v, NEW X, Tracks(u, w, X), Rises(w, v, X)
    PROVE  Tracks(u, v, X)
<1>1. w \in Hosts /\ v \in Hosts /\ Clean(u, w) /\ Clean(w, v)  BY DEF Tracks, Rises
<1>2. /\ \A x \in Requests \ X : Told1(u, v, x)
      /\ \A x \in Requests : Same1(u, v, x)
  BY ToldOn DEF Tracks, Rises, Same1
<1>3. u.next \in Int /\ w.next \in Int /\ v.next \in Int /\ MaxSeq \in Int
  BY <1>1, QueueAssumption DEF Hosts, Unpinned
<1>4. u.next <= v.next  BY <1>1, <1>3 DEF Clean
<1>5. ASSUME NEW t \in Threads, NEW e \in ToSet(v.log[t])
      PROVE  e \in ToSet(u.log[t]) \/ e <= v.pin[t]
  <2>1. e \in ToSet(w.log[t]) \/ e <= v.pin[t]  BY <1>1, <1>5 DEF Clean
  <2>2. e \in ToSet(w.log[t]) => e \in ToSet(u.log[t]) \/ e <= w.pin[t]  BY <1>1 DEF Clean
  <2>3. w.pin[t] <= v.pin[t]  BY DEF Rises
  <2>4. e \in Int /\ w.pin[t] \in Int /\ v.pin[t] \in Int  BY <1>1, <1>5, HostNumbers
  <2> QED  BY <2>1, <2>2, <2>3, <2>4
<1>6. ASSUME NEW t \in Threads, NEW e \in ToSet(v.pending[t])
      PROVE  e \in ToSet(u.pending[t]) \/ e >= u.next
  <2>1. e \in ToSet(w.pending[t]) \/ e >= w.next  BY <1>1, <1>6 DEF Clean
  <2>2. e \in ToSet(w.pending[t]) => e \in ToSet(u.pending[t]) \/ e >= u.next  BY <1>1 DEF Clean
  <2>3. u.next <= w.next  BY <1>1 DEF Clean
  <2>4. e \in Int  BY <1>1, <1>6, HostNumbers
  <2> QED  BY <1>3, <2>1, <2>2, <2>3, <2>4
<1> QED  BY <1>1, <1>2, <1>4, <1>5, <1>6 DEF Tracks, Clean

\* Two such steps are one.
LEMMA RisesOn ==
    ASSUME NEW u \in Hosts, NEW w, NEW v, NEW X, Rises(u, w, X), Rises(w, v, X)
    PROVE  Rises(u, v, X)
<1>1. Tracks(u, v, X)  BY TracksOn DEF Rises
<1>2. ASSUME NEW t \in Threads  PROVE u.pin[t] <= v.pin[t]
  <2>1. u.pin[t] <= w.pin[t] /\ w.pin[t] <= v.pin[t]  BY DEF Rises
  <2>2. u.pin[t] \in Int /\ w.pin[t] \in Int /\ v.pin[t] \in Int
    BY HostNumbers DEF Rises, Tracks
  <2> QED  BY <2>1, <2>2
<1> QED  BY <1>1, <1>2 DEF Rises

\* More requests may be set apart.
LEMMA Apart ==
    ASSUME NEW u, NEW w, NEW X, NEW Y, X \subseteq Y
    PROVE  /\ Tracks(u, w, X) => Tracks(u, w, Y)
           /\ Rises(u, w, X) => Rises(u, w, Y)
  BY DEF Tracks, Rises

\* Steps on the lines, whatever they do to the pins.
LEMMA LineTracks ==
    ASSUME NEW u \in Hosts, NEW w \in Hosts, LineStep(u, w), NEW X
    PROVE  Tracks(u, w, X) /\ (w.pin = u.pin => Rises(u, w, X))
<1>1. w.log = u.log /\ w.pending = u.pending /\ w.next = u.next  BY DEF LineStep, SameRows
<1>2. u.next <= w.next
  <2>1. u.next \in Int  BY QueueAssumption DEF Hosts, Unpinned
  <2> QED  BY <1>1, <2>1
<1>3. Clean(u, w)  BY <1>1, <1>2 DEF Clean
<1>4. \A x \in Requests : Told1(u, w, x)  BY DEF LineStep, Told1, Same1
<1>5. w.pin = u.pin => \A t \in Threads : u.pin[t] <= w.pin[t]  BY HostNumbers
<1> QED  BY <1>3, <1>4, <1>5 DEF Tracks, Rises, Told1

\* Steps on the fields that have no part in it.
Ground(w, v) ==
    /\ v.log = w.log /\ v.pending = w.pending /\ v.next = w.next
    /\ v.line = w.line /\ v.req = w.req /\ v.pin = w.pin
\* They move no pin and tell nobody.
LEMMA GroundRises ==
    ASSUME NEW w \in Hosts, NEW v \in Hosts, Ground(w, v), NEW X
    PROVE  Rises(w, v, X)
<1>1. \A x \in Requests : Told1(w, v, x)  BY DEF Ground, Told1, Same1, On, IsFence, Stands
<1>2. w.next <= v.next
  <2>1. w.next \in Int  BY QueueAssumption DEF Hosts, Unpinned
  <2> QED  BY <2>1 DEF Ground
<1>3. Clean(w, v)  BY <1>2 DEF Clean, Ground
<1>4. \A t \in Threads : w.pin[t] <= v.pin[t]  BY HostNumbers DEF Ground
<1> QED  BY <1>1, <1>3, <1>4 DEF Rises, Tracks, Told1

-----------------------------------------------------------------------------
(* Writing, and what readers see of it.                                    *)

\* A flow in which pins do not fall.
Smooth(u, w) == u \in Hosts /\ Flows(u, w) /\ Rises(u, w, {})

\* A flow may go on with a step in which pins do not fall.
LEMMA SmoothOn ==
    ASSUME NEW u, NEW w, Smooth(u, w), NEW v, Flows(u, v), Rises(w, v, {})
    PROVE  Smooth(u, v)
  BY RisesOn DEF Smooth

\* What a flow leaves is in order.
LEMMA SmoothHosts ==
    ASSUME NEW u, NEW w, Smooth(u, w)
    PROVE  w \in Hosts /\ RowsOK(w) /\ Steady(w) /\ Flows(u, w) /\ Sound(w)
  BY DEF Smooth, Flows, Sound

\* Nothing done is such a flow.
LEMMA SmoothStart ==
    ASSUME NEW w, Sound(w)
    PROVE  Smooth(w, w)
<1>1. w \in Hosts /\ Ground(w, w)  BY DEF Sound, Ground
<1> QED  BY <1>1, Still, GroundRises DEF Smooth

\* Rows written within the pins.
LEMMA CommitRises ==
    ASSUME NEW w \in Hosts, NEW n \in [Threads -> Nat], Commit(w, n) \in Hosts,
           \A t \in Threads : n[t] <= Len(w.pending[t]),
           \A t \in Threads : \A i \in 1 .. n[t] : w.pending[t][i] <= w.pin[t]
    PROVE  Rises(w, Commit(w, n), {})
<1> DEFINE v == Commit(w, n)
           R == 1 .. MaxSeq
<1>1. ASSUME NEW t \in Threads
      PROVE  /\ v.log[t] = Taken(w.log[t], w.pending[t], n[t])
             /\ v.pending[t] = Left(w.pending[t], n[t])
  BY DEF Commit, Taken, Left, Hosts
<1>2. /\ v.next = w.next /\ v.line = w.line /\ v.req = w.req /\ v.pin = w.pin
  BY DEF Commit, Hosts
<1>3. v \in Hosts  OBVIOUS
<1> HIDE DEF v
<1>4. ASSUME NEW t \in Threads
      PROVE  /\ \A e \in ToSet(v.log[t]) : e \in ToSet(w.log[t]) \/ e <= v.pin[t]
             /\ \A e \in ToSet(v.pending[t]) : e \in ToSet(w.pending[t])
  <2> DEFINE a == w.log[t]
             b == w.pending[t]
             k == n[t]
             c == v.log[t]
             d == v.pending[t]
  <2>1. a \in Seq(R) /\ b \in Seq(R)  BY DEF Hosts
  <2>2. Len(a) \in Nat /\ Len(b) \in Nat /\ k \in 0 .. Len(b)  BY <2>1, LenProperties
  <2>3. \A i \in 1 .. k : b[i] <= v.pin[t]  BY <1>2
  <2>4. c = Taken(a, b, k) /\ d = Left(b, k)  BY <1>1
  <2> HIDE DEF R, a, b, c, d, k
  <2>5. CutsAt(R, a, b, k)  BY <2>1, <2>2, CutFacts
  <2>6. /\ c \in Seq(R) /\ Len(c) = Len(a) + k /\ d \in Seq(R) /\ Len(d) = Len(b) - k
        /\ \A i \in 1 .. Len(a) : c[i] = a[i]
        /\ \A i \in 1 .. k : c[Len(a) + i] = b[i]
        /\ \A i \in 1 .. Len(b) - k : d[i] = b[k + i]
    BY <2>4, <2>5 DEF CutsAt
  <2>7. /\ DOMAIN a = 1 .. Len(a) /\ DOMAIN b = 1 .. Len(b)
        /\ DOMAIN c = 1 .. Len(c) /\ DOMAIN d = 1 .. Len(d)
    BY <2>1, <2>6, LenProperties
  <2>8. ASSUME NEW i \in DOMAIN c  PROVE c[i] \in ToSet(a) \/ c[i] <= v.pin[t]
    <3>1. CASE i <= Len(a)
      <4>1. i \in 1 .. Len(a)  BY <2>2, <2>6, <2>7, <3>1
      <4> QED  BY <2>6, <2>7, <4>1 DEF ToSet
    <3>2. CASE i > Len(a)
      <4>1. i - Len(a) \in 1 .. k  BY <2>2, <2>6, <2>7, <3>2
      <4>2. Len(a) + (i - Len(a)) = i  BY <2>2, <2>6, <2>7
      <4>3. c[i] = b[i - Len(a)]  BY <2>6, <4>1, <4>2
      <4> QED  BY <2>3, <4>1, <4>3
    <3> QED  BY <2>2, <2>6, <2>7, <3>1, <3>2
  <2>9. ASSUME NEW i \in DOMAIN d  PROVE d[i] \in ToSet(b)
    <3>1. i \in 1 .. Len(b) - k /\ k + i \in 1 .. Len(b)  BY <2>2, <2>6, <2>7
    <3>2. d[i] = b[k + i]  BY <2>6, <3>1
    <3> QED  BY <2>7, <3>1, <3>2 DEF ToSet
  <2>10. \A e \in ToSet(c) : e \in ToSet(a) \/ e <= v.pin[t]
    BY <2>8 DEF ToSet
  <2>11. \A e \in ToSet(d) : e \in ToSet(b)
    BY <2>9 DEF ToSet
  <2> QED  BY <2>10, <2>11 DEF a, b, c, d
<1>5. w.next <= v.next
  <2>1. w.next \in Int  BY QueueAssumption DEF Hosts, Unpinned
  <2> QED  BY <1>2, <2>1
<1>6. Clean(w, v)  BY <1>4, <1>5 DEF Clean
<1>7. \A x \in Requests : Told1(w, v, x)  BY <1>2 DEF Told1, Same1, On, IsFence, Stands
<1>8. \A t \in Threads : w.pin[t] <= v.pin[t]  BY <1>2, HostNumbers
<1> QED  BY <1>3, <1>6, <1>7, <1>8 DEF Rises, Tracks, Told1, v

\* Whatever is due is within the pin.
LEMMA DueWithin ==
    ASSUME NEW w \in Hosts, RowsOK(w), NEW t \in Threads, NEW b \in Int, NEW i \in 1 .. Due(w, t, b)
    PROVE  w.pending[t][i] <= w.pin[t]
<1>1. /\ Due(w, t, b) \in 0 .. Len(w.pending[t])
      /\ \A j \in DOMAIN w.pending[t] :
            w.pending[t][j] <= Least(b, w.pin[t]) <=> j <= Due(w, t, b)
  BY DueFacts
<1>2. w.pending[t] \in Seq(1 .. MaxSeq) /\ Len(w.pending[t]) \in Nat
  BY DEF Hosts
<1>3. i \in DOMAIN w.pending[t] /\ i <= Due(w, t, b)  BY <1>1, <1>2
<1>4. w.pending[t][i] <= Least(b, w.pin[t])  BY <1>1, <1>3
<1>5. w.pending[t][i] \in ToSet(w.pending[t])  BY <1>3 DEF ToSet
<1>6. w.pending[t][i] \in Int /\ w.pin[t] \in Int  BY <1>5, HostNumbers
<1> QED  BY <1>4, <1>6 DEF Least

\* So is a flush of one thread up to a boundary,
LEMMA DueSmooth ==
    ASSUME NEW u, NEW w, Smooth(u, w), NEW t, NEW b \in Int, NEW most \in Nat
    PROVE  Smooth(u, CommitDue(w, t, b, most))
<1> DEFINE n == Only(t, Least(Due(w, t, b), most))
           v == Commit(w, n)
<1>1. w \in Hosts /\ RowsOK(w) /\ Flows(u, w)  BY SmoothHosts
<1>2. ASSUME NEW x \in Threads
      PROVE  /\ n[x] \in Nat /\ n[x] <= Len(w.pending[x])
             /\ \A i \in 1 .. n[x] : w.pending[x][i] <= w.pin[x]
  <2>1. Len(w.pending[x]) \in Nat  BY <1>1 DEF Hosts
  <2>2. CASE x = t
    <3>1. Due(w, t, b) \in 0 .. Len(w.pending[t])  BY <1>1, <2>2, DueFacts
    <3>2. n[x] = Least(Due(w, t, b), most)  BY <2>2 DEF Only
    <3>3. n[x] \in Nat /\ n[x] <= Due(w, t, b)  BY <2>1, <3>1, <3>2 DEF Least
    <3>4. ASSUME NEW i \in 1 .. n[x]  PROVE i \in 1 .. Due(w, t, b)
      BY <2>1, <3>1, <3>3
    <3> QED  BY <1>1, <2>1, <2>2, <3>1, <3>3, <3>4, DueWithin
  <2>3. CASE x # t  BY <2>1, <2>3 DEF Only
  <2> QED  BY <2>2, <2>3
<1>3. n \in [Threads -> Nat]  BY <1>2 DEF Only
<1> HIDE DEF n
<1>4. Flows(u, v)  BY <1>1, <1>2, <1>3, CommitFacts
<1>5. v \in Hosts  BY <1>4 DEF Flows, Sound
<1>6. Rises(w, v, {})  BY <1>1, <1>2, <1>3, <1>5, CommitRises
<1>7. Smooth(u, v)  BY <1>4, <1>6, SmoothOn
<1> QED  BY <1>7 DEF CommitDue, n

\* flushThreadThrough,
LEMMA ChunkSmooth ==
    ASSUME NEW u, NEW w, Smooth(u, w), NEW t, NEW b \in Int
    PROVE  Smooth(u, FlushChunk(w, t, b))
<1>1. Chunk \in Nat  BY QueueAssumption
<1> QED  BY <1>1, DueSmooth DEF FlushChunk

\* a group commit,
LEMMA EachSmooth ==
    ASSUME NEW u, NEW w, Smooth(u, w), NEW G
    PROVE  Smooth(u, CommitEach(w, G))
<1> DEFINE n == [t \in Threads |-> IF t \in G THEN Least(Due(w, t, MaxSeq), Chunk) ELSE 0]
           v == Commit(w, n)
<1>1. w \in Hosts /\ RowsOK(w) /\ Flows(u, w) /\ MaxSeq \in Int /\ Chunk \in Nat
  BY SmoothHosts, QueueAssumption
<1>2. ASSUME NEW x \in Threads
      PROVE  /\ n[x] \in Nat /\ n[x] <= Len(w.pending[x])
             /\ \A i \in 1 .. n[x] : w.pending[x][i] <= w.pin[x]
  <2>1. Due(w, x, MaxSeq) \in 0 .. Len(w.pending[x])  BY <1>1, DueFacts
  <2>2. Len(w.pending[x]) \in Nat  BY <1>1 DEF Hosts
  <2>3. n[x] \in Nat /\ n[x] <= Due(w, x, MaxSeq)  BY <1>1, <2>1, <2>2 DEF Least
  <2>4. ASSUME NEW i \in 1 .. n[x]  PROVE i \in 1 .. Due(w, x, MaxSeq)
    BY <2>1, <2>2, <2>3
  <2> QED  BY <1>1, <2>1, <2>2, <2>3, <2>4, DueWithin
<1>3. n \in [Threads -> Nat]  BY <1>2
<1> HIDE DEF n
<1>4. Flows(u, v)  BY <1>1, <1>2, <1>3, CommitFacts
<1>5. v \in Hosts  BY <1>4 DEF Flows, Sound
<1>6. Rises(w, v, {})  BY <1>1, <1>2, <1>3, <1>5, CommitRises
<1>7. Smooth(u, v)  BY <1>4, <1>6, SmoothOn
<1> QED  BY <1>7 DEF CommitEach, n

\* What leaves rows, queue, line, requests and pins alone.
LEMMA GroundSmooth ==
    ASSUME NEW u, NEW w, Smooth(u, w), NEW v, Flows(u, v), Ground(w, v)
    PROVE  Smooth(u, v)
<1>1. w \in Hosts /\ v \in Hosts  BY SmoothHosts DEF Flows, Sound
<1>2. Rises(w, v, {})  BY <1>1, GroundRises
<1> QED  BY <1>2, SmoothOn

\* the choice to write threads alone,
LEMMA AloneSmooth ==
    ASSUME NEW u, NEW w, Smooth(u, w), NEW a \in BOOLEAN
    PROVE  Smooth(u, [w EXCEPT !.alone = a])
<1>1. w \in Hosts /\ Flows(u, w)  BY SmoothHosts
<1>2. Flows(u, [w EXCEPT !.alone = a])  BY <1>1, AloneFlows
<1>3. Ground(w, [w EXCEPT !.alone = a])  BY <1>1 DEF Ground, Hosts
<1> QED  BY <1>2, <1>3, GroundSmooth

\* and a budgeted flush, however its transaction ends.
LEMMA BudgetedSmooth ==
    ASSUME NEW u, NEW w, Smooth(u, w), NEW G, NEW rollback \in Rollbacks
    PROVE  Smooth(u, FlushBudgeted(w, G, rollback))
<1>1. \A v : Smooth(u, v) => Smooth(u, FlushAlone(v, G))
  BY EachSmooth, AloneSmooth DEF FlushAlone
<1>2. Smooth(u, CommitEach(w, G)) /\ Smooth(u, [w EXCEPT !.alone = TRUE])
  BY EachSmooth, AloneSmooth
<1>3. Smooth(u, FlushGroup(w, G, rollback))
  BY <1>1, <1>2 DEF FlushGroup, Rollbacks
<1> QED  BY <1>1, <1>3 DEF FlushBudgeted

\* Preemption lets go of the pin of its thread and of no other.
LEMMA PromotePin ==
    ASSUME NEW w \in Hosts, NEW t
    PROVE  Promote(w, t).pin = w.pin
  BY DEF Promote, Wake, At, Hosts

\* preemptFences lifts one pin and moves no other.
LEMMA PreemptPins ==
    ASSUME NEW w \in Hosts, Steady(w), NEW t \in Threads
    PROVE  \A p \in Threads : w.pin[p] <= Preempt(w, t).pin[p]
<1> DEFINE e == Evict(w, t, FencesOf(w, t))
           v == [e EXCEPT !.freed = @ \cup FencesOf(w, t), !.pin[t] = Unpinned]
<1>1. e \in Hosts /\ e.pin = w.pin  BY EvictSteady
<1> HIDE DEF e
<1>2. v.pin = [e.pin EXCEPT ![t] = Unpinned]  BY <1>1 DEF Hosts
<1>3. v \in Hosts
  <2>1. FencesOf(w, t) \subseteq Requests  BY DEF FencesOf
  <2>2. [e.pin EXCEPT ![t] = Unpinned] \in [Threads -> 0 .. Unpinned]
    <3>1. e.pin \in [Threads -> 0 .. Unpinned]  BY <1>1 DEF Hosts
    <3>2. Unpinned \in 0 .. Unpinned  BY QueueAssumption DEF Unpinned
    <3> QED  BY <3>1, <3>2
  <2> DEFINE F == e.freed \cup FencesOf(w, t)
             P == [e.pin EXCEPT ![t] = Unpinned]
  <2>3. F \subseteq Requests /\ P \in [Threads -> 0 .. Unpinned]
    BY <1>1, <2>1, <2>2 DEF Hosts
  <2>4. v = [e EXCEPT !.freed = F, !.pin = P]  BY <1>1 DEF Hosts
  <2> HIDE DEF v, F, P
  <2>5. [e EXCEPT !.freed = F, !.pin = P] \in Hosts  BY <1>1, <2>3 DEF Hosts
  <2> QED  BY <2>4, <2>5
<1>4. Preempt(w, t) = Promote(v, t)  BY DEF Preempt, e
<1> HIDE DEF v
<1>5. Preempt(w, t).pin = [e.pin EXCEPT ![t] = Unpinned]  BY <1>2, <1>3, <1>4, PromotePin
<1>6. ASSUME NEW p \in Threads  PROVE w.pin[p] <= [e.pin EXCEPT ![t] = Unpinned][p]
  <2>1. w.pin \in [Threads -> 0 .. Unpinned]  BY DEF Hosts
  <2>2. w.pin[p] \in 0 .. Unpinned  BY <2>1
  <2>3. Unpinned \in Nat  BY QueueAssumption DEF Unpinned
  <2> HIDE DEF Unpinned
  <2>4. [e.pin EXCEPT ![t] = Unpinned][p] = IF p = t THEN Unpinned ELSE w.pin[p]
    BY <1>1, <2>1
  <2> QED  BY <2>2, <2>3, <2>4
<1> QED  BY <1>5, <1>6

\* Preempted, readers lose their place and their pin at once.
LEMMA PreemptSmooth ==
    ASSUME NEW u, NEW w, Smooth(u, w), NEW t \in Threads
    PROVE  Smooth(u, Preempt(w, t))
<1> DEFINE v == Preempt(w, t)
<1>1. w \in Hosts /\ Steady(w) /\ Flows(u, w)  BY SmoothHosts
<1>2. v \in Hosts /\ Steady(v) /\ LineStep(w, v)  BY <1>1, PreemptSteady
<1>3. \A p \in Threads : w.pin[p] <= v.pin[p]  BY <1>1, PreemptPins
<1> HIDE DEF v
<1>4. Flows(u, v)  BY <1>1, <1>2, LineFlows DEF LineStep
<1>5. Rises(w, v, {})  BY <1>1, <1>2, <1>3, LineTracks DEF Rises
<1> QED  BY <1>4, <1>5, SmoothOn DEF v

\* relieveCapacity commits a chunk after that.
LEMMA RelieveSmooth ==
    ASSUME NEW u, NEW w, Smooth(u, w)
    PROVE  /\ \A t \in Threads : Smooth(u, Relieve(w, t))
           /\ Smooth(u, RelieveOldest(w))
<1>1. ASSUME NEW t \in Threads  PROVE Smooth(u, Relieve(w, t))
  <2>1. MaxSeq \in Int  BY QueueAssumption
  <2> QED  BY <2>1, PreemptSmooth, ChunkSmooth DEF Relieve
<1>2. w \in Hosts  BY SmoothHosts
<1>3. Smooth(u, RelieveOldest(w))
  BY <1>1, <1>2, OldestFacts DEF RelieveOldest
<1> QED  BY <1>1, <1>3

\* Refusals and what the host learns of a thread.
LEMMA RefuseGround ==
    ASSUME NEW w \in Hosts, NEW t, NEW b
    PROVE  /\ Ground(w, RecordGap(w, t)) /\ Ground(w, Refuse(w, t)) /\ Ground(w, RefuseAll(w, t))
           /\ Ground(w, Learn(w, t)) /\ Ground(w, [w EXCEPT !.touched = @ \cup {t}])
           /\ Ground(w, [w EXCEPT !.refusing = b])
<1> DEFINE D(v) == {"log", "pending", "next", "line", "req", "pin"} \subseteq DOMAIN v
<1>1. D(w)  BY DEF Hosts
<1>2. ASSUME NEW v, D(v)  PROVE D(RecordGap(v, t)) /\ Ground(v, RecordGap(v, t))
  BY <1>2 DEF RecordGap, Ground
<1>3. D(Refuse(w, t)) /\ Ground(w, Refuse(w, t))
  <2> DEFINE a == [w EXCEPT !.tainted = @ \cup {t}, !.hole = @ \cup {t}]
  <2>1. D(a) /\ Ground(w, a)  BY <1>1 DEF Ground
  <2> HIDE DEF a, D
  <2>2. D(RecordGap(a, t)) /\ Ground(a, RecordGap(a, t))  BY <1>2, <2>1
  <2>3. Refuse(w, t) = RecordGap(a, t)  BY DEF Refuse, a
  <2> QED  BY <2>1, <2>2, <2>3 DEF Ground
<1>4. Ground(w, RefuseAll(w, t))  BY <1>3 DEF RefuseAll, Ground
<1>5. Ground(w, Learn(w, t))  BY <1>1 DEF Learn, Ground
<1>6. Ground(w, [w EXCEPT !.touched = @ \cup {t}])  BY <1>1 DEF Ground
<1>7. Ground(w, [w EXCEPT !.refusing = b])  BY <1>1 DEF Ground
<1> QED  BY <1>1, <1>2, <1>3, <1>4, <1>5, <1>6, <1>7

\* Refusals leave evidence only.
LEMMA RefuseSmooth ==
    ASSUME NEW u, NEW w, Smooth(u, w), NEW t \in Threads
    PROVE  /\ Smooth(u, RecordGap(w, t)) /\ Smooth(u, Refuse(w, t)) /\ Smooth(u, RefuseAll(w, t))
           /\ Smooth(u, Learn(w, t)) /\ Smooth(u, [w EXCEPT !.touched = @ \cup {t}])
           /\ \A b \in BOOLEAN : Smooth(u, [w EXCEPT !.refusing = b])
<1>1. w \in Hosts /\ Flows(u, w)  BY SmoothHosts
<1>2. Smooth(u, RecordGap(w, t))  BY <1>1, RefuseFlows, RefuseGround, GroundSmooth
<1>3. Smooth(u, Refuse(w, t))  BY <1>1, RefuseFlows, RefuseGround, GroundSmooth
<1>4. Smooth(u, RefuseAll(w, t))  BY <1>1, RefuseFlows, RefuseGround, GroundSmooth
<1>5. Smooth(u, Learn(w, t))  BY <1>1, RefuseFlows, RefuseGround, GroundSmooth
<1>6. Smooth(u, [w EXCEPT !.touched = @ \cup {t}])
  BY <1>1, RefuseFlows, RefuseGround, GroundSmooth
<1>7. ASSUME NEW b \in BOOLEAN  PROVE Smooth(u, [w EXCEPT !.refusing = b])
  BY <1>1, RefuseFlows, RefuseGround, GroundSmooth
<1> QED  BY <1>2, <1>3, <1>4, <1>5, <1>6, <1>7

\* The relief a full queue asks for.
LEMMA RoomSmooth ==
    ASSUME NEW u, NEW w, Smooth(u, w), NEW t \in Threads, NEW backoff
    PROVE  Smooth(u, MakeRoom(w, t, backoff)) /\ Smooth(u, Settled(w, backoff))
<1>1. Smooth(u, MakeRoom(w, t, backoff))  BY RelieveSmooth DEF MakeRoom
<1>2. ASSUME NEW v, Smooth(u, v)  PROVE Smooth(u, [v EXCEPT !.refusing = TRUE])
  BY <1>2, RefuseSmooth
<1>3. Smooth(u, Settled(w, backoff))  BY <1>2, RelieveSmooth DEF Settled
<1> QED  BY <1>1, <1>3

\* The relief an old backlog asks for.
LEMMA AgedSmooth ==
    ASSUME NEW u, NEW w, Smooth(u, w), NEW age, NEW backoff
    PROVE  Smooth(u, Aged(w, age, backoff))
  BY RelieveSmooth DEF Aged

\* An accepted event is newer than every fence.
LEMMA AcceptRises ==
    ASSUME NEW w \in Hosts, NEW t \in Threads, Accept(w, t) \in Hosts
    PROVE  Rises(w, Accept(w, t), {})
<1> DEFINE v == Accept(w, t)
<1>1. /\ v.log = w.log /\ v.line = w.line /\ v.req = w.req /\ v.pin = w.pin
      /\ v.next = w.next + 1
      /\ \A p \in Threads :
            v.pending[p] = IF p = t THEN Append(w.pending[p], w.next) ELSE w.pending[p]
  BY DEF Accept, Hosts
<1>2. v \in Hosts  OBVIOUS
<1> HIDE DEF v
<1>3. w.next \in Int  BY QueueAssumption DEF Hosts, Unpinned
<1>4. \A x \in Requests : Told1(w, v, x)  BY <1>1 DEF Told1, Same1, On, IsFence, Stands
<1>5. \A p \in Threads : w.pin[p] <= v.pin[p]  BY <1>1, HostNumbers
<1>6. ASSUME NEW p \in Threads, NEW e \in ToSet(v.pending[p])
      PROVE  e \in ToSet(w.pending[p]) \/ e >= w.next
  <2>1. CASE p # t  BY <1>1, <1>6, <2>1
  <2>2. CASE p = t
    <3> DEFINE q == w.pending[t]
               k == w.next
    <3>1. q \in Seq(Int) /\ k \in Int
      <4> DEFINE R == 1 .. MaxSeq
      <4>1. q \in Seq(R)  BY DEF Hosts
      <4>2. \A i \in R : i \in Int  OBVIOUS
      <4> HIDE DEF R
      <4>3. \A i \in 1 .. Len(q) : q[i] \in Int  BY <4>1, <4>2
      <4>4. Len(q) \in Nat /\ q = [i \in 1 .. Len(q) |-> q[i]]  BY <4>1
      <4> HIDE DEF q
      <4>5. q \in Seq(Int)  BY <4>3, <4>4, SeqDef
      <4> QED  BY <1>3, <4>5
    <3>2. v.pending[p] = Append(q, k)  BY <1>1, <2>2
    <3> HIDE DEF q, k
    <3>3. ToSet(Append(q, k)) = ToSet(q) \cup {k}  BY <3>1, Appended
    <3>4. e \in ToSet(q) \/ e = k  BY <1>6, <3>2, <3>3
    <3> QED  BY <1>3, <2>2, <3>4 DEF q, k
  <2> QED  BY <2>1, <2>2
<1>7. Clean(w, v)  BY <1>1, <1>3, <1>6 DEF Clean
<1> QED  BY <1>2, <1>4, <1>5, <1>7 DEF Rises, Tracks, Told1, v

\* enqueue, with its relief before and after.
LEMMA EnqueueRises ==
    ASSUME NEW u, NEW w, Smooth(u, w), NEW t \in Threads, u.next <= MaxSeq, NEW backoff
    PROVE  Rises(u, Enqueue(w, t, backoff), {})
<1> DEFINE v == MakeRoom(w, t, backoff)
           a == Accept(v, t)
           s == Settled(a, backoff)
<1>1. Smooth(u, v)  BY RoomSmooth
<1> HIDE DEF v
<1>2. Smooth(u, RefuseAll(v, t)) /\ Smooth(u, Refuse(v, t))  BY <1>1, RefuseSmooth
<1>3. v \in Hosts /\ Flows(u, v) /\ u \in Hosts /\ Rises(u, v, {})
  BY <1>1, SmoothHosts DEF Smooth
<1>4. Sound(a)  BY <1>3, AcceptGrows DEF Grown
<1>5. Rises(v, a, {})  BY <1>3, <1>4, AcceptRises DEF Sound
<1> HIDE DEF a
<1>6. Rises(a, s, {})  BY <1>4, SmoothStart, RoomSmooth DEF Smooth
<1> HIDE DEF s
<1>7. Rises(u, a, {})  BY <1>3, <1>5, RisesOn
<1>8. Rises(u, s, {})  BY <1>3, <1>6, <1>7, RisesOn
<1>9. Enqueue(w, t, backoff) \in {RefuseAll(v, t), Refuse(v, t), s}
  BY DEF Enqueue, v, a, s
<1> QED  BY <1>2, <1>8, <1>9 DEF Smooth

\* admit, a dropped rebase and a barrier.
LEMMA AdmitRises ==
    ASSUME Sound(host), NEW t \in Threads, NEW age, NEW backoff,
           Admit(t, age, backoff) \/ DropRebase(t) \/ Barrier(t)
    PROVE  Rises(host, host', {})
<1>1. host \in Hosts /\ Smooth(host, host)  BY SmoothStart DEF Sound
<1>2. CASE Admit(t, age, backoff)
  <2> DEFINE w == Aged(host, age, backoff)
             v == [w EXCEPT !.touched = @ \cup {t}]
             e == Enqueue(v, t, backoff)
  <2>1. Smooth(host, w)  BY <1>1, AgedSmooth
  <2> HIDE DEF w
  <2>2. /\ Smooth(host, Refuse(w, t)) /\ Smooth(host, RecordGap(w, t))
        /\ Smooth(host, RefuseAll(w, t)) /\ Smooth(host, v)
    BY <2>1, RefuseSmooth
  <2> HIDE DEF v
  <2>3. Smooth(host, Refuse(v, t))  BY <2>2, RefuseSmooth
  <2>4. host.next <= MaxSeq  BY <1>2 DEF Admit
  <2>5. Rises(host, e, {})  BY <2>2, <2>4, EnqueueRises
  <2> HIDE DEF e
  <2>6. host' \in {Refuse(w, t), RecordGap(w, t), RefuseAll(w, t), w, Refuse(v, t), e}
    BY <1>2 DEF Admit, Step, w, v, e
  <2> QED  BY <2>1, <2>2, <2>3, <2>5, <2>6 DEF Smooth
<1>3. CASE DropRebase(t)
  <2>1. Smooth(host, Refuse(host, t))  BY <1>1, RefuseSmooth
  <2> QED  BY <1>3, <2>1 DEF DropRebase, Step, Smooth
<1>4. CASE Barrier(t)
  <2>1. MaxSeq \in Nat /\ MaxSeq \in Int  BY QueueAssumption
  <2>2. Smooth(host, CommitDue(host, t, MaxSeq, MaxSeq))  BY <1>1, <2>1, DueSmooth
  <2> QED  BY <1>4, <2>2 DEF Barrier, Step, Smooth
<1> QED  BY <1>2, <1>3, <1>4

\* runFlushCycle moves pins before it writes, and does not move them afterwards.
LEMMA FlushCycleTracks ==
    ASSUME Sound(host), NEW G, NEW rollback \in Rollbacks, NEW age, NEW healthy \in BOOLEAN,
           FlushCycle(G, rollback, age, healthy)
    PROVE  Tracks(host, host', {})
<1>1. host \in Hosts /\ Steady(host) /\ Flows(host, host)  BY StandsSound
<1> DEFINE u == ReleaseExpiredFences(host)
           a == [u EXCEPT !.refusing = @ /\ ~healthy]
           v == Aged(a, age, FALSE)
           w == [v EXCEPT !.refusing = @ \/ (age = "old" /\ Backlog(v) # {})]
<1>2. u \in Hosts /\ Steady(u) /\ LineStep(host, u)  BY <1>1, ExpiredSteady
<1> HIDE DEF u
<1>3. Tracks(host, u, {})  BY <1>1, <1>2, LineTracks
<1>4. Sound(u)
  <2>1. Flows(host, u)  BY <1>1, <1>2, LineFlows DEF LineStep
  <2> QED  BY <2>1 DEF Flows
<1>5. Smooth(u, u)  BY <1>4, SmoothStart
<1>6. ASSUME NEW z, Smooth(u, z), NEW b \in BOOLEAN
      PROVE  Smooth(u, [z EXCEPT !.refusing = b])
  <2>1. z \in Hosts /\ Flows(u, z)  BY <1>6, SmoothHosts
  <2> DEFINE y == [z EXCEPT !.refusing = b]
  <2>2. /\ y \in Hosts /\ y.line = z.line /\ y.req = z.req /\ y.micro = z.micro
        /\ y.freed = z.freed /\ y.pin = z.pin /\ y.log = z.log /\ y.pending = z.pending
        /\ y.last = z.last /\ y.next = z.next /\ z.gap \subseteq y.gap
    BY <1>6, <2>1 DEF Hosts
  <2> HIDE DEF y
  <2>3. Flows(u, y)  BY <2>1, <2>2, Plain
  <2>4. Smooth(u, y)  BY <1>6, <2>2, <2>3, GroundSmooth DEF Ground
  <2> QED  BY <2>4 DEF y
<1>7. Smooth(u, a)
  <2> DEFINE b == u.refusing /\ ~healthy
  <2>1. b \in BOOLEAN  BY <1>2 DEF Hosts
  <2>2. a = [u EXCEPT !.refusing = b]  OBVIOUS
  <2> HIDE DEF b, a
  <2> QED  BY <1>5, <1>6, <2>1, <2>2
<1> HIDE DEF a
<1>8. Smooth(u, v)  BY <1>7, AgedSmooth
<1> HIDE DEF v
<1>9. Smooth(u, w)
  <2> DEFINE b == v.refusing \/ (age = "old" /\ Backlog(v) # {})
  <2>1. b \in BOOLEAN  BY <1>8, SmoothHosts DEF Hosts
  <2>2. w = [v EXCEPT !.refusing = b]  OBVIOUS
  <2> HIDE DEF b, w
  <2> QED  BY <1>6, <1>8, <2>1, <2>2
<1> HIDE DEF w
<1>10. Smooth(u, FlushBudgeted(w, G, rollback))  BY <1>9, BudgetedSmooth
<1>11. host' \in {w, FlushBudgeted(w, G, rollback)}  BY DEF FlushCycle, Step, w, v, a, u
<1>12. Rises(u, host', {})  BY <1>9, <1>10, <1>11 DEF Smooth
<1> QED  BY <1>1, <1>3, <1>12, TracksOn

-----------------------------------------------------------------------------
(* What a reader may rely on.                                              *)

\* A reader on its way to its worker.
Early == Waiting \cup {"flushing", "reading"}

\* A reader under way: every row is older than its fence; what is pending and older is within
\* its boundary, and once it is sent to its worker nothing of that is left.
Unmixed(w, x) ==
    /\ \A e \in ToSet(w.log[On(w, x)]) : e < w.req[x].mark
    /\ \A e \in ToSet(w.pending[On(w, x)]) :
          e < w.req[x].mark => e <= w.req[x].through /\ w.req[x].pc # "reading"

\* The readers in S apart.  One that read something else lost its place, or is in S.
Exact1(w, S, x) ==
    /\ IsFence(w, x) => w.req[x].mark <= w.next
    /\ w.req[x].pc \in {"reading", "read", "served"} => IsFence(w, x)
    /\ IsFence(w, x) /\ Stands(w, x) /\ w.req[x].pc \in Early /\ x \notin S => Unmixed(w, x)
    /\ x \in w.inexact =>
          /\ IsFence(w, x) /\ w.req[x].pc \in {"read", "served", "refused"}
          /\ w.req[x].pc = "served" \/ (w.req[x].pc = "read" /\ Stands(w, x)) => x \in S
Exact(w, S) == \A x \in Requests : Exact1(w, S, x)

\* Where a step leaves a mutation.
Ends == {"refused", "done", "flushing"}
Moved(w, v, x) == Rises(w, v, {x}) /\ v.req[x].pc \in Ends

\* The boundary and the mark of a request are numbers, and its place is in a thread.
LEMMA FenceNumbers ==
    ASSUME NEW w \in Hosts, NEW x \in Requests
    PROVE  /\ w.req[x].mark \in Int /\ w.req[x].through \in Int
           /\ Stands(w, x) => On(w, x) \in Threads
<1>1. w.req[x] \in Request  BY DEF Hosts
<1> QED  BY <1>1 DEF Request, Stands, On

\* The mark of a reader stays behind the next event.
LEMMA MarkBehind ==
    ASSUME NEW u \in Hosts, NEW w \in Hosts, NEW x \in Requests, NEW S, Exact1(u, S, x),
           Same1(u, w, x), u.next <= w.next
    PROVE  IsFence(w, x) => w.req[x].mark <= w.next
<1>1. w.req[x].mark \in Int /\ u.next \in Int /\ w.next \in Int
  <2>1. u.next \in 1 .. Unpinned /\ w.next \in 1 .. Unpinned  BY DEF Hosts
  <2> QED  BY <2>1, FenceNumbers
<1>2. IsFence(w, x) => w.req[x].mark <= u.next  BY DEF Exact1, Same1
<1> QED  BY <1>1, <1>2

\* Rows and queue of a reader that is not misaligned stay unmixed.
LEMMA UnmixedKept ==
    ASSUME NEW u \in Hosts, NEW w \in Hosts, MadeOK(w), NEW x \in Requests, Clean(u, w),
           Same1(u, w, x), IsFence(w, x), On(w, x) \in Threads, u.req[x].mark <= u.next,
           w.pin[On(w, x)] <= w.req[x].through, Unmixed(u, x)
    PROVE  /\ \A e \in ToSet(w.log[On(w, x)]) : e < w.req[x].mark
           /\ \A e \in ToSet(w.pending[On(w, x)]) :
                e < w.req[x].mark => e <= w.req[x].through /\ u.req[x].pc # "reading"
<1> DEFINE t == On(w, x)
           m == w.req[x].mark
           b == w.req[x].through
<1>1. /\ On(u, x) = t /\ u.req[x].mark = m /\ u.req[x].through = b  BY DEF Same1
<1>2. m \in Int /\ b \in Int /\ b < m  BY FenceNumbers DEF MadeOK
<1>3. /\ w.pin[t] \in Int /\ u.next \in Int
      /\ \A e \in ToSet(w.log[t]) : e \in Int
      /\ \A e \in ToSet(w.pending[t]) : e \in Int
  BY HostNumbers
<1>4. /\ \A e \in ToSet(w.log[t]) : e \in ToSet(u.log[t]) \/ e <= w.pin[t]
      /\ \A e \in ToSet(w.pending[t]) : e \in ToSet(u.pending[t]) \/ e >= u.next
  BY DEF Clean
<1>5. /\ \A e \in ToSet(u.log[t]) : e < m
      /\ \A e \in ToSet(u.pending[t]) : e < m => e <= b /\ u.req[x].pc # "reading"
  BY <1>1 DEF Unmixed
<1>6. w.pin[t] <= b /\ m <= u.next  BY <1>1
<1> HIDE DEF t, m, b
<1>7. ASSUME NEW e \in ToSet(w.log[t])  PROVE e < m
  BY <1>2, <1>3, <1>4, <1>5, <1>6
<1>8. ASSUME NEW e \in ToSet(w.pending[t]), e < m  PROVE e <= b /\ u.req[x].pc # "reading"
  <2>1. e \in ToSet(u.pending[t])  BY <1>2, <1>3, <1>4, <1>6, <1>8
  <2> QED  BY <1>5, <1>8, <2>1
<1> QED  BY <1>7, <1>8 DEF t, m, b

\* A pin that is not past the boundary of a reader under way.
LEMMA Aligned ==
    ASSUME NEW w \in Hosts, NEW x \in Requests, IsFence(w, x), Stands(w, x),
           w.req[x].pc \in Early, x \notin Misaligned(w)
    PROVE  /\ w.pin[On(w, x)] <= w.req[x].through
           /\ w.req[x].pc \in {"flushing", "reading"} => w.pin[On(w, x)] = w.req[x].through
<1>1. On(w, x) \in Threads /\ w.req[x].through \in Int  BY FenceNumbers
<1>2. w.pin[On(w, x)] \in Int  BY <1>1, HostNumbers
<1>3. w.req[x].pc \in Waiting \/ w.req[x].pc \in {"flushing", "reading"}  BY DEF Early
<1>4. w.req[x].pc \in Waiting => ~(w.pin[On(w, x)] > w.req[x].through)  BY DEF Misaligned
<1>5. w.req[x].pc \in {"flushing", "reading"} => w.pin[On(w, x)] = w.req[x].through
  BY DEF Misaligned
<1> QED  BY <1>1, <1>2, <1>3, <1>4, <1>5

\* A request that does nothing in a step.
LEMMA TrackPoint ==
    ASSUME NEW u \in Hosts, NEW w \in Hosts, Steady(w), NEW x \in Requests, Clean(u, w),
           Told1(u, w, x), x \in w.inexact => x \in u.inexact, NEW S, Exact1(u, S, x)
    PROVE  Exact1(w, S \cup Misaligned(w), x)
<1>1. Same1(u, w, x)  BY DEF Told1
<1>2. u.next <= w.next  BY <1>1 DEF Clean
<1>3. IsFence(w, x) => w.req[x].mark <= w.next  BY <1>1, <1>2, MarkBehind
<1>4. ASSUME IsFence(w, x), Stands(w, x), w.req[x].pc \in Early, x \notin S, x \notin Misaligned(w)
      PROVE  Unmixed(w, x)
  <2>1. Stands(u, x) /\ IsFence(u, x)  BY <1>1, <1>4 DEF Told1, Same1
  <2>2. u.req[x].pc \in Early /\ (w.req[x].pc = "reading" => u.req[x].pc = "reading")
    BY <1>1, <1>4 DEF Told1, Early, Waiting
  <2>3. Unmixed(u, x) /\ u.req[x].mark <= u.next  BY <1>4, <2>1, <2>2 DEF Exact1
  <2>4. On(w, x) \in Threads  BY <1>1, <1>4, FenceNumbers
  <2>5. w.pin[On(w, x)] <= w.req[x].through  BY <1>1, <1>4, Aligned
  <2>6. MadeOK(w)  BY DEF Steady
  <2>7. /\ \A e \in ToSet(w.log[On(w, x)]) : e < w.req[x].mark
        /\ \A e \in ToSet(w.pending[On(w, x)]) :
             e < w.req[x].mark => e <= w.req[x].through /\ u.req[x].pc # "reading"
    BY <1>1, <1>4, <2>3, <2>4, <2>5, <2>6, UnmixedKept
  <2> QED  BY <2>2, <2>7 DEF Unmixed
<1>5. ASSUME x \in w.inexact
      PROVE  /\ IsFence(w, x) /\ w.req[x].pc \in {"read", "served", "refused"}
             /\ w.req[x].pc = "served" \/ (w.req[x].pc = "read" /\ Stands(w, x)) => x \in S
  <2>1. /\ IsFence(u, x) /\ u.req[x].pc \in {"read", "served", "refused"}
        /\ u.req[x].pc = "served" \/ (u.req[x].pc = "read" /\ Stands(u, x)) => x \in S
    BY <1>5 DEF Exact1
  <2>2. w.req[x].pc = u.req[x].pc  BY <1>1, <2>1 DEF Told1
  <2> QED  BY <1>1, <2>1, <2>2 DEF Told1, Same1
<1>6. w.req[x].pc \in {"reading", "read", "served"} => IsFence(w, x)
  BY DEF Exact1, Told1, Same1
<1> QED  BY <1>3, <1>4, <1>5, <1>6 DEF Exact1

\* A request that has lost its place.
LEMMA GonePoint ==
    ASSUME NEW u \in Hosts, NEW w \in Hosts, u.next <= w.next, w.inexact = u.inexact,
           NEW x \in Requests, Same1(u, w, x), ~Stands(w, x),
           w.req[x].pc \in {u.req[x].pc, "refused"}, NEW S, NEW T, S \subseteq T, Exact1(u, S, x)
    PROVE  Exact1(w, T, x)
<1>1. IsFence(w, x) => w.req[x].mark <= w.next  BY MarkBehind
<1>2. x \in w.inexact =>
          /\ IsFence(w, x) /\ w.req[x].pc \in {"read", "served", "refused"}
          /\ w.req[x].pc = "served" => x \in T
  BY DEF Exact1, Same1
<1>3. w.req[x].pc \in {"reading", "read", "served"} => IsFence(w, x)  BY DEF Exact1, Same1
<1> QED  BY <1>1, <1>2, <1>3 DEF Exact1

\* A mutation reads nothing.
LEMMA MutationPoint ==
    ASSUME NEW u, NEW w, w.inexact = u.inexact, NEW x \in Requests, Same1(u, w, x), ~IsFence(u, x),
           w.req[x].pc \in Ends, NEW S, NEW T, Exact1(u, S, x)
    PROVE  Exact1(w, T, x)
  BY DEF Exact1, Same1, Ends

\* A round of a reader's flush: it is sent to its worker once nothing is due.
LEMMA RoundPoint ==
    ASSUME NEW u \in Hosts, NEW w, Steady(w), NEW X, Tracks(u, w, X), w.inexact = u.inexact,
           NEW x \in Requests, IsFence(u, x), NEW S, Exact1(u, S, x),
           u.req[x].pc \in {"granted", "flushing"},
           Stands(u, x), w.req[x].pc \in {"flushing", "reading"},
           w.req[x].pc = "reading" =>
              \A e \in ToSet(w.pending[On(w, x)]) : ~(e <= Least(w.req[x].through, w.pin[On(w, x)]))
    PROVE  Exact1(w, S \cup Misaligned(w), x)
<1>1. w \in Hosts /\ Clean(u, w) /\ Same1(u, w, x)  BY DEF Tracks
<1>2. u.next <= w.next  BY <1>1 DEF Clean
<1>3. IsFence(w, x) => w.req[x].mark <= w.next  BY <1>1, <1>2, MarkBehind
<1>4. ASSUME IsFence(w, x), Stands(w, x), w.req[x].pc \in Early, x \notin S, x \notin Misaligned(w)
      PROVE  Unmixed(w, x)
  <2>1. IsFence(u, x)  BY <1>1, <1>4 DEF Same1
  <2>2. u.req[x].pc \in Early  BY DEF Early, Waiting
  <2>3. Unmixed(u, x) /\ u.req[x].mark <= u.next  BY <1>4, <2>1, <2>2 DEF Exact1
  <2>4. On(w, x) \in Threads  BY <1>1, <1>4, FenceNumbers
  <2>5. w.pin[On(w, x)] <= w.req[x].through /\ w.pin[On(w, x)] = w.req[x].through
    BY <1>1, <1>4, Aligned
  <2>6. MadeOK(w)  BY DEF Steady
  <2>7. /\ \A e \in ToSet(w.log[On(w, x)]) : e < w.req[x].mark
        /\ \A e \in ToSet(w.pending[On(w, x)]) : e < w.req[x].mark => e <= w.req[x].through
    BY <1>1, <1>4, <2>3, <2>4, <2>5, <2>6, UnmixedKept
  <2>8. Least(w.req[x].through, w.pin[On(w, x)]) = w.req[x].through  BY <2>5 DEF Least
  <2> QED  BY <2>7, <2>8 DEF Unmixed
<1>5. x \notin w.inexact  BY DEF Exact1
<1>6. IsFence(w, x) = IsFence(u, x)  BY <1>1 DEF Same1
<1> QED  BY <1>3, <1>4, <1>5, <1>6 DEF Exact1

-----------------------------------------------------------------------------
(* Mutations, seen by the readers of the thread.                           *)

\* A request that goes on by itself.
LEMMA AtRises ==
    ASSUME NEW v \in Hosts, NEW x \in Requests, NEW pc \in Pcs
    PROVE  /\ Rises(v, At(v, x, pc), {x}) /\ At(v, x, pc).req[x].pc = pc
           /\ Stands(At(v, x, pc), x) = Stands(v, x)
<1> DEFINE R == [v.req EXCEPT ![x] = [@ EXCEPT !.pc = pc]]
           w == [v EXCEPT !.req = R]
<1>1. w = At(v, x, pc)  BY DEF At, Hosts
<1>2. v.req \in [Requests -> Request]  BY DEF Hosts
<1>3. v.req[x] \in Request  BY <1>2
<1>4. [v.req[x] EXCEPT !.pc = pc] \in Request  BY <1>3 DEF Request
<1>5. /\ R \in [Requests -> Request]
      /\ R[x].pc = pc
      /\ \A y \in Requests : /\ R[y].on = v.req[y].on /\ R[y].kind = v.req[y].kind
                             /\ R[y].through = v.req[y].through /\ R[y].mark = v.req[y].mark
                             /\ y # x => R[y].pc = v.req[y].pc
  BY <1>2, <1>3, <1>4 DEF Request
<1> HIDE DEF R
<1>6. /\ w \in Hosts /\ w.log = v.log /\ w.pending = v.pending /\ w.next = v.next
      /\ w.pin = v.pin /\ w.line = v.line /\ w.req = R
  BY <1>5 DEF Hosts
<1> HIDE DEF w
<1>7. \A y \in Requests : Same1(v, w, y)  BY <1>5, <1>6 DEF Same1, On, IsFence
<1>8. \A y \in Requests : Stands(w, y) = Stands(v, y)  BY <1>5, <1>6 DEF Stands, On
<1>9. \A y \in Requests \ {x} : Told1(v, w, y)  BY <1>5, <1>6, <1>7, <1>8 DEF Told1
<1>10. v.next <= w.next
  <2>1. v.next \in 1 .. Unpinned  BY DEF Hosts
  <2> QED  BY <1>6, <2>1
<1>11. Clean(v, w)  BY <1>6, <1>10 DEF Clean
<1>12. \A t \in Threads : v.pin[t] <= w.pin[t]  BY <1>6, HostNumbers
<1>13. Rises(v, w, {x})  BY <1>6, <1>7, <1>9, <1>11, <1>12 DEF Rises, Tracks
<1> QED  BY <1>1, <1>5, <1>6, <1>8, <1>13

\* Rows and queue that only shrink.
LEMMA FewerRises ==
    ASSUME NEW w \in Hosts, NEW v \in Hosts, v.next = w.next, v.req = w.req, v.line = w.line,
           \A t \in Threads : /\ ToSet(v.log[t]) \subseteq ToSet(w.log[t])
                              /\ ToSet(v.pending[t]) \subseteq ToSet(w.pending[t])
                              /\ w.pin[t] <= v.pin[t],
           NEW X
    PROVE  Rises(w, v, X)
<1>1. \A x \in Requests : Told1(w, v, x) /\ Same1(w, v, x)
  BY DEF Told1, Same1, On, IsFence, Stands
<1>2. w.next <= v.next
  <2>1. w.next \in 1 .. Unpinned  BY DEF Hosts
  <2> QED  BY <2>1
<1>3. Clean(w, v)  BY <1>2 DEF Clean
<1> QED  BY <1>1, <1>3 DEF Rises, Tracks

\* Rows that a truncation cuts.
LEMMA CutRises ==
    ASSUME NEW w, Sound(w), NEW t \in Threads, NEW k \in 0 .. Len(w.log[t]), NEW X
    PROVE  LET v == [w EXCEPT !.log[t] = SubSeq(@, 1, k)]
           IN Sound(v) /\ v.req = w.req /\ v.micro = w.micro /\ Rises(w, v, X)
<1> DEFINE v == [w EXCEPT !.log[t] = SubSeq(@, 1, k)]
           a == w.log[t]
           c == SubSeq(a, 1, k)
<1>1. w \in Hosts /\ Flows(w, w)  BY Still DEF Sound
<1>2. Works(w, v) /\ v.req = w.req /\ v.micro = w.micro  BY <1>1, CutWorks
<1>3. /\ v.next = w.next /\ v.line = w.line /\ v.pin = w.pin /\ v.pending = w.pending
      /\ v.log[t] = c /\ \A s \in Threads : s # t => v.log[s] = w.log[s]
  BY <1>1 DEF Hosts
<1>4. Sound(v) /\ v \in Hosts  BY <1>2 DEF Works, Sound
<1> HIDE DEF v
<1>5. ToSet(c) \subseteq ToSet(a)
  <2> DEFINE R == 1 .. MaxSeq
  <2>1. a \in Seq(R) /\ Len(a) \in Nat  BY <1>1 DEF Hosts
  <2>2. k \in 0 .. Len(a)  OBVIOUS
  <2> HIDE DEF a, R
  <2>3. c \in Seq(R) /\ Len(c) = k /\ \A i \in 1 .. k : c[i] = a[i]
    BY <2>1, <2>2, SubSeqProperties
  <2> HIDE DEF c
  <2>4. DOMAIN c = 1 .. k /\ DOMAIN a = 1 .. Len(a)  BY <2>1, <2>3
  <2>5. \A i \in DOMAIN c : i \in DOMAIN a /\ c[i] = a[i]  BY <2>1, <2>2, <2>3, <2>4
  <2> QED  BY <2>5 DEF ToSet
<1>6. \A s \in Threads : ToSet(v.log[s]) \subseteq ToSet(w.log[s])  BY <1>3, <1>5
<1>7. \A s \in Threads : w.pin[s] <= v.pin[s]  BY <1>1, <1>3, HostNumbers
<1>8. Rises(w, v, X)  BY <1>1, <1>2, <1>3, <1>4, <1>6, <1>7, FewerRises
<1> QED  BY <1>2, <1>4, <1>8 DEF v

\* A queue that is superseded, and its pin with it.
LEMMA SupersedeRises ==
    ASSUME NEW w, Sound(w), NEW t \in Threads, NEW X
    PROVE  Rises(w, Supersede(w, t), X)
<1> DEFINE v == Supersede(w, t)
<1>1. w \in Hosts  BY DEF Sound
<1>2. /\ Sound(v) /\ v.log = w.log /\ v.pending[t] = <<>> /\ v.req = w.req
      /\ \A s \in Threads : s # t => v.pending[s] = w.pending[s]
  BY SupersedeFacts
<1>3. v.next = w.next /\ v.line = w.line /\ v.pin = [w.pin EXCEPT ![t] = Unpinned]
  BY <1>1 DEF Supersede, Discard, Hosts
<1> HIDE DEF v
<1>4. ASSUME NEW s \in Threads  PROVE w.pin[s] <= v.pin[s]
  <2>1. w.pin \in [Threads -> 0 .. Unpinned]  BY <1>1 DEF Hosts
  <2>2. Unpinned \in Nat  BY QueueAssumption DEF Unpinned
  <2>3. w.pin[s] \in 0 .. Unpinned  BY <2>1
  <2>4. v.pin[s] = IF s = t THEN Unpinned ELSE w.pin[s]  BY <1>3, <2>1
  <2> QED  BY <2>2, <2>3, <2>4
<1>5. ToSet(<<>>) = {}  BY DEF ToSet
<1>6. \A s \in Threads : ToSet(v.pending[s]) \subseteq ToSet(w.pending[s])  BY <1>2, <1>5
<1>7. v \in Hosts  BY <1>2 DEF Sound
<1> QED  BY <1>1, <1>2, <1>3, <1>4, <1>6, <1>7, FewerRises DEF v

\* A transcript that is replaced or deleted.
LEMMA EmptiedRises ==
    ASSUME NEW w, Sound(w), NEW t \in Threads, NEW v, Emptied(w, t, v), NEW X
    PROVE  Sound(v) /\ v.req = w.req /\ v.micro = w.micro /\ Rises(w, v, X)
<1> DEFINE z == Supersede(w, t)
<1>1. w \in Hosts /\ Flows(w, w)  BY Still DEF Sound
<1>2. Works(w, v) /\ v.req = w.req /\ v.micro = w.micro  BY <1>1, RebaseWorks
<1>3. Sound(v) /\ v \in Hosts  BY <1>2 DEF Works, Sound
<1>4. Sound(z) /\ z \in Hosts /\ z.req = w.req  BY SupersedeFacts DEF Sound
<1>5. Rises(w, z, X)  BY SupersedeRises
<1>6. v = [z EXCEPT !.log[t] = <<>>] \/ v = [z EXCEPT !.log[t] = <<>>, !.gone = @ \cup {t}]
  BY DEF Emptied
<1> HIDE DEF z
<1>7. /\ v.next = z.next /\ v.line = z.line /\ v.pin = z.pin /\ v.pending = z.pending
      /\ v.log[t] = <<>> /\ \A s \in Threads : s # t => v.log[s] = z.log[s]
  <2>1. z.log \in [Threads -> Seq(1 .. MaxSeq)]  BY <1>4 DEF Hosts
  <2> DEFINE L == [z.log EXCEPT ![t] = <<>>]
  <2>2. L[t] = <<>> /\ \A s \in Threads : s # t => L[s] = z.log[s]  BY <2>1
  <2> HIDE DEF L
  <2>3. CASE v = [z EXCEPT !.log[t] = <<>>]
    <3>1. v = [z EXCEPT !.log = L]  BY <1>4, <2>3 DEF L, Hosts
    <3>2. /\ v.next = z.next /\ v.line = z.line /\ v.pin = z.pin /\ v.pending = z.pending
          /\ v.log = L
      BY <1>4, <3>1 DEF Hosts
    <3> QED  BY <2>2, <3>2
  <2>4. CASE v = [z EXCEPT !.log[t] = <<>>, !.gone = @ \cup {t}]
    <3> DEFINE g == z.gone \cup {t}
    <3>1. v = [z EXCEPT !.log = L, !.gone = g]  BY <1>4, <2>4 DEF L, Hosts
    <3> HIDE DEF g
    <3>2. /\ v.next = z.next /\ v.line = z.line /\ v.pin = z.pin /\ v.pending = z.pending
          /\ v.log = L
      BY <1>4, <3>1 DEF Hosts
    <3> QED  BY <2>2, <3>2
  <2> QED  BY <1>6, <2>3, <2>4
<1>8. ToSet(<<>>) = {}  BY DEF ToSet
<1>9. \A s \in Threads : ToSet(v.log[s]) \subseteq ToSet(z.log[s])  BY <1>7, <1>8
<1>10. \A s \in Threads : z.pin[s] <= v.pin[s]  BY <1>4, <1>7, HostNumbers
<1>11. Rises(z, v, X)  BY <1>2, <1>3, <1>4, <1>7, <1>9, <1>10, FewerRises
<1>12. Rises(w, v, X)  BY <1>1, <1>5, <1>11, RisesOn
<1> QED  BY <1>2, <1>3, <1>12

\* A mutation that ends and frees its thread.
LEMMA FinishRises ==
    ASSUME NEW w, Sound(w), NEW x, Mutating(w, x), NEW pc \in {"refused", "done"}
    PROVE  Moved(w, Finish(w, x, pc), x)
<1> DEFINE v == Settle(w, x)
<1>1. w \in Hosts /\ Steady(w) /\ x \in Requests  BY DEF Sound, Mutating
<1>2. v \in Hosts /\ LineStep(w, v) /\ v.pin = w.pin  BY <1>1, SettleSteady
<1> HIDE DEF v
<1>3. Rises(w, v, {x})  BY <1>1, <1>2, LineTracks
<1>4. pc \in Pcs  BY DEF Pcs
<1>5. Rises(v, At(v, x, pc), {x})  BY <1>1, <1>2, <1>4, AtRises
<1>6. Rises(w, At(v, x, pc), {x})  BY <1>1, <1>3, <1>5, RisesOn
<1>7. At(v, x, pc).req[x].pc \in Ends  BY <1>1, <1>2, <1>4, AtRises DEF Ends
<1> QED  BY <1>6, <1>7 DEF Finish, v, Moved

\* After a change that leaves the requests alone a mutation still has its turn.
LEMMA EndRises ==
    ASSUME NEW w, Sound(w), NEW x, Mutating(w, x), NEW v, Sound(v), v.req = w.req,
           v.micro = w.micro, Rises(w, v, {x}), NEW pc \in {"refused", "done"}
    PROVE  Moved(w, Finish(v, x, pc), x)
<1>1. Mutating(v, x)  BY DEF Mutating, IsFence
<1>2. Moved(v, Finish(v, x, pc), x)  BY <1>1, FinishRises
<1>3. w \in Hosts  BY DEF Sound
<1> QED  BY <1>2, <1>3, RisesOn DEF Moved

\* The synchronous operation of a mutation.
LEMMA ApplyRises ==
    ASSUME NEW w, Sound(w), NEW x, Mutating(w, x), NEW keep \in Nat
    PROVE  Moved(w, Apply(w, x, keep), x)
<1> DEFINE t == On(w, x)
           kind == w.req[x].kind
           k == Least(keep, Len(w.log[t]))
           c == [w EXCEPT !.log[t] = SubSeq(@, 1, k)]
           r == [Supersede(w, t) EXCEPT !.log[t] = <<>>]
           d == [Supersede(w, t) EXCEPT !.log[t] = <<>>, !.gone = @ \cup {t}]
           a == Supersede(w, t)
<1>1. w \in Hosts /\ Steady(w)  BY DEF Sound
<1>2. t \in Threads /\ kind \in Mutations  BY <1>1, MutationKind
<1>3. Moved(w, Finish(w, x, "refused"), x)  BY FinishRises
<1>4. Moved(w, Finish(c, x, "done"), x)
  <2>1. Len(w.log[t]) \in Nat  BY <1>1, <1>2, AllFacts
  <2>2. k \in 0 .. Len(w.log[t])  BY <2>1 DEF Least
  <2> HIDE DEF k, t
  <2>3. Sound(c) /\ c.req = w.req /\ c.micro = w.micro /\ Rises(w, c, {x})
    BY <1>2, <2>2, CutRises
  <2> HIDE DEF c
  <2> QED  BY <2>3, EndRises
<1>5. Moved(w, Finish(r, x, "done"), x)
  <2>1. Emptied(w, t, r)  BY DEF Emptied
  <2> HIDE DEF r
  <2> QED  BY <1>2, <2>1, EmptiedRises, EndRises
<1>6. Moved(w, Finish(d, x, "done"), x)
  <2>1. Emptied(w, t, d)  BY DEF Emptied
  <2> HIDE DEF d
  <2> QED  BY <1>2, <2>1, EmptiedRises, EndRises
<1>7. Moved(w, Finish(a, x, "done"), x)
  <2>1. Sound(a) /\ a.req = w.req /\ a.micro = w.micro  BY <1>2, SupersedeFacts
  <2>2. Rises(w, a, {x})  BY <1>2, SupersedeRises
  <2> HIDE DEF a
  <2> QED  BY <2>1, <2>2, EndRises
<1>8. Apply(w, x, keep) \in {Finish(w, x, "refused"), Finish(c, x, "done"), Finish(r, x, "done"),
                             Finish(d, x, "done"), Finish(a, x, "done")}
  <2>1. c = [w EXCEPT !.log[t] = SubSeq(@, 1, Least(keep, Len(@)))]  OBVIOUS
  <2> DEFINE A == Apply(w, x, keep)
             z == CASE kind = "truncate" -> c
                    [] kind = "rebase" -> r
                    [] kind = "delete" -> d
                    [] OTHER -> a
  <2>2. A = IF t \in w.failing \/ (kind = "acknowledge" /\ t \notin w.gap)
            THEN Finish(w, x, "refused") ELSE Finish(z, x, "done")
    BY <2>1 DEF Apply
  <2> HIDE DEF c, r, d, a, A, t, kind
  <2>3. z \in {c, r, d, a}  BY <1>2 DEF Mutations
  <2> HIDE DEF z
  <2>4. A \in {Finish(w, x, "refused"), Finish(c, x, "done"), Finish(r, x, "done"),
              Finish(d, x, "done"), Finish(a, x, "done")}
    BY <2>2, <2>3
  <2> QED  BY <2>4 DEF A
<1> HIDE DEF c, r, d, a, t, kind
<1> QED  BY <1>3, <1>4, <1>5, <1>6, <1>7, <1>8

\* flushPrefix, one round.
LEMMA RoundRises ==
    ASSUME NEW w, Sound(w), NEW x, Mutating(w, x), NEW keep \in Nat, NEW late
    PROVE  Moved(w, MutationRound(w, x, keep, late), x)
<1> DEFINE t == On(w, x)
           v == FlushChunk(w, t, MaxSeq)
           l == Learn(w, t)
<1>1. w \in Hosts /\ Steady(w) /\ Smooth(w, w)  BY SmoothStart DEF Sound
<1>2. t \in Threads /\ MaxSeq \in Int /\ x \in Requests
  BY <1>1, MutationKind, QueueAssumption DEF Mutating
<1>3. Smooth(w, v) /\ Smooth(w, l)  BY <1>1, <1>2, ChunkSmooth, RefuseSmooth
<1>4. v.req = w.req /\ v.micro = w.micro  BY <1>1, ChunkKeeps DEF ChunkFrame
<1>5. l.req = w.req /\ l.micro = w.micro  BY <1>1 DEF Learn, Hosts
<1> HIDE DEF v, l
<1>6. Sound(v) /\ Sound(l) /\ v \in Hosts  BY <1>3, SmoothHosts
<1>7. Rises(w, v, {x}) /\ Rises(w, l, {x})
  <2>1. Rises(w, v, {}) /\ Rises(w, l, {})  BY <1>3 DEF Smooth
  <2> QED  BY <2>1, Apart
<1>8. /\ Moved(w, Finish(w, x, "refused"), x) /\ Moved(w, Finish(v, x, "refused"), x)
      /\ Moved(w, Finish(l, x, "refused"), x)
  BY <1>4, <1>5, <1>6, <1>7, FinishRises, EndRises
<1>9. Moved(w, At(v, x, "flushing"), x)
  <2> DEFINE pc == "flushing"
  <2>1. pc \in Pcs  BY DEF Pcs, Unsettled
  <2> HIDE DEF pc
  <2>2. Rises(v, At(v, x, pc), {x})  BY <1>2, <1>6, <2>1, AtRises
  <2>3. Rises(w, At(v, x, pc), {x})  BY <1>1, <1>7, <2>2, RisesOn
  <2>4. At(v, x, pc).req[x].pc = pc  BY <1>2, <1>6, <2>1, AtRises
  <2> QED  BY <2>3, <2>4 DEF pc, Moved, Ends
<1>10. Moved(w, Apply(v, x, keep), x)
  <2>1. Mutating(v, x)  BY <1>4 DEF Mutating, IsFence
  <2>2. Moved(v, Apply(v, x, keep), x)  BY <1>6, <2>1, ApplyRises
  <2> QED  BY <1>1, <1>7, <2>2, RisesOn DEF Moved
<1>11. MutationRound(w, x, keep, late) \in
          {Finish(l, x, "refused"), Finish(w, x, "refused"), Finish(v, x, "refused"),
           At(v, x, "flushing"), Apply(v, x, keep)}
  BY DEF MutationRound, v, l
<1> HIDE DEF t
<1> QED  BY <1>8, <1>9, <1>10, <1>11

\* executeMutation.
LEMMA StartRises ==
    ASSUME NEW w, Sound(w), NEW x, Mutating(w, x), NEW keep \in Nat, NEW late
    PROVE  Moved(w, MutationStart(w, x, keep, late), x)
<1> DEFINE t == On(w, x)
           F == {y \in ToSet(w.line[t]) : IsFence(w, y)}
           e == Evict(w, t, F)
           l == Learn(w, t)
<1>1. w \in Hosts /\ Steady(w) /\ Smooth(w, w)  BY SmoothStart DEF Sound
<1>2. t \in Threads /\ x \in Requests  BY <1>1, MutationKind DEF Mutating
<1> HIDE DEF F
<1>3. e \in Hosts /\ Steady(e) /\ LineStep(w, e) /\ e.pin = w.pin  BY <1>1, <1>2, EvictSteady
<1> HIDE DEF e
<1>4. Rises(w, e, {x})  BY <1>1, <1>3, LineTracks
<1>5. Sound(e)  BY <1>3, RowFrame DEF Sound, LineStep, SameRows
<1>6. Mutating(e, x)  BY <1>3, LineStepMicro DEF Mutating
<1>7. Moved(w, Apply(e, x, keep), x)
  <2>1. Moved(e, Apply(e, x, keep), x)  BY <1>5, <1>6, ApplyRises
  <2> QED  BY <1>1, <1>4, <2>1, RisesOn DEF Moved
<1>8. Smooth(w, l) /\ l.req = w.req /\ l.micro = w.micro
  BY <1>1, <1>2, RefuseSmooth DEF Learn, Hosts
<1> HIDE DEF l
<1>9. Moved(w, Apply(l, x, keep), x)
  <2>1. Sound(l) /\ Rises(w, l, {})  BY <1>8, SmoothHosts DEF Smooth
  <2>2. Mutating(l, x)  BY <1>8 DEF Mutating, IsFence
  <2>3. Moved(l, Apply(l, x, keep), x)  BY <2>1, <2>2, ApplyRises
  <2>4. Rises(w, l, {x})  BY <2>1, Apart
  <2> QED  BY <1>1, <2>3, <2>4, RisesOn DEF Moved
<1>10. Moved(w, MutationRound(w, x, keep, late), x)  BY RoundRises
<1>11. MutationStart(w, x, keep, late) \in {Apply(e, x, keep), Apply(l, x, keep),
                                           MutationRound(w, x, keep, late)}
  BY DEF MutationStart, e, l, F
<1> QED  BY <1>7, <1>9, <1>10, <1>11

-----------------------------------------------------------------------------
(* Only a worker's read adds to what was read inexactly.                   *)

Blind(w, I) == "inexact" \in DOMAIN w /\ w.inexact = I

\* Flushes read nothing for anybody,
LEMMA BlindWrites ==
    ASSUME NEW I, NEW w, Blind(w, I)
    PROVE  /\ \A n : Blind(Commit(w, n), I)
           /\ \A t, b, most : Blind(CommitDue(w, t, b, most), I) /\ Blind(FlushChunk(w, t, b), I)
           /\ \A a : Blind([w EXCEPT !.alone = a], I) /\ Blind([w EXCEPT !.refusing = a], I)
           /\ \A G : \A rollback \in Rollbacks : Blind(FlushBudgeted(w, G, rollback), I)
<1>1. ASSUME NEW v, Blind(v, I)
      PROVE  /\ \A n : Blind(Commit(v, n), I)
             /\ \A a : Blind([v EXCEPT !.alone = a], I)
             /\ \A a : Blind([v EXCEPT !.refusing = a], I)
  <2>1. \A n : Blind(Commit(v, n), I)  BY <1>1 DEF Blind, Commit
  <2>2. \A a : Blind([v EXCEPT !.alone = a], I)  BY <1>1 DEF Blind
  <2>3. \A a : Blind([v EXCEPT !.refusing = a], I)  BY <1>1 DEF Blind
  <2> QED  BY <2>1, <2>2, <2>3
<1>2. \A t, b, most : Blind(CommitDue(w, t, b, most), I) /\ Blind(FlushChunk(w, t, b), I)
  BY <1>1 DEF CommitDue, FlushChunk
<1>3. ASSUME NEW G, NEW v, Blind(v, I)  PROVE Blind(FlushAlone(v, G), I)
  BY <1>1, <1>3 DEF FlushAlone, CommitEach
<1>4. ASSUME NEW G, NEW rollback \in Rollbacks  PROVE Blind(FlushBudgeted(w, G, rollback), I)
  <2>1. Blind(FlushGroup(w, G, rollback), I)
    BY <1>1, <1>3 DEF FlushGroup, CommitEach, Rollbacks
  <2> QED  BY <1>3, <2>1 DEF FlushBudgeted
<1> QED  BY <1>1, <1>2, <1>4

\* nor do steps on the lines,
LEMMA BlindLines ==
    ASSUME NEW I, NEW w, Blind(w, I)
    PROVE  /\ \A x, pc : Blind(At(w, x, pc), I) /\ Blind(Finish(w, x, pc), I)
           /\ \A t, S : Blind(Evict(w, t, S), I)
           /\ \A t : Blind(Promote(w, t), I) /\ Blind(Preempt(w, t), I) /\ Blind(Learn(w, t), I)
           /\ \A x : Blind(Release(w, x), I) /\ Blind(Settle(w, x), I)
           /\ Blind(ReleaseExpiredFences(w), I)
<1>1. ASSUME NEW v, Blind(v, I)
      PROVE  /\ \A x, pc : Blind(At(v, x, pc), I)
             /\ \A x : Blind(Wake(v, x), I)
             /\ \A t, S : Blind(Evict(v, t, S), I)
             /\ \A f, t, p : Blind([v EXCEPT !.freed = f, !.pin[t] = p], I)
  <2>1. \A x, pc : Blind(At(v, x, pc), I)  BY <1>1 DEF Blind, At
  <2>2. \A x : Blind(Wake(v, x), I)  BY <1>1 DEF Blind, Wake
  <2>3. \A t, S : Blind(Evict(v, t, S), I)  BY <1>1 DEF Blind, Evict
  <2>4. \A f, t, p : Blind([v EXCEPT !.freed = f, !.pin[t] = p], I)  BY <1>1 DEF Blind
  <2> QED  BY <2>1, <2>2, <2>3, <2>4
<1>2. ASSUME NEW v, Blind(v, I), NEW t  PROVE Blind(Promote(v, t), I)
  BY <1>1, <1>2 DEF Promote
<1>3. \A x : Blind(Settle(w, x), I)  BY <1>1, <1>2 DEF Settle
<1>4. \A x : Blind(Release(w, x), I)
  <2> SUFFICES ASSUME NEW x  PROVE Blind(Release(w, x), I)
    OBVIOUS
  <2> DEFINE s == Settle(w, x)
             v == [s EXCEPT !.freed = @ \cup {x}, !.pin[On(w, x)] = FencePin(s, On(w, x))]
  <2>1. Blind(v, I)
    <3>1. Blind(s, I)  BY <1>3
    <3> HIDE DEF s
    <3> QED  BY <1>1, <3>1
  <2>2. Release(w, x) = IF x \in w.freed THEN w ELSE v  BY DEF Release
  <2> HIDE DEF v
  <2> QED  BY <2>1, <2>2
<1>5. \A t : Blind(Preempt(w, t), I)
  <2> SUFFICES ASSUME NEW t  PROVE Blind(Preempt(w, t), I)
    OBVIOUS
  <2> DEFINE e == Evict(w, t, FencesOf(w, t))
             v == [e EXCEPT !.freed = @ \cup FencesOf(w, t), !.pin[t] = Unpinned]
  <2>1. Blind(v, I)
    <3>1. Blind(e, I)  BY <1>1
    <3> HIDE DEF e
    <3> QED  BY <1>1, <3>1
  <2>2. Preempt(w, t) = Promote(v, t)  BY DEF Preempt
  <2> HIDE DEF v
  <2> QED  BY <1>2, <2>1, <2>2
<1>6. Blind(ReleaseExpiredFences(w), I)  BY DEF Blind, ReleaseExpiredFences
<1>7. \A x, pc : Blind(Finish(w, x, pc), I)  BY <1>1, <1>3 DEF Finish
<1>8. \A t : Blind(Learn(w, t), I)  BY DEF Blind, Learn
<1> QED  BY <1>1, <1>2, <1>3, <1>4, <1>5, <1>6, <1>7, <1>8

\* nor admission,
LEMMA BlindAdmission ==
    ASSUME NEW I, NEW w, Blind(w, I)
    PROVE  /\ \A age, backoff : Blind(Aged(w, age, backoff), I)
           /\ \A t : /\ Blind(RecordGap(w, t), I) /\ Blind(Refuse(w, t), I)
                     /\ Blind(RefuseAll(w, t), I) /\ Blind([w EXCEPT !.touched = @ \cup {t}], I)
           /\ \A t, backoff : Blind(Enqueue(w, t, backoff), I)
<1>1. ASSUME NEW v, Blind(v, I)
      PROVE  Blind(RelieveOldest(v), I) /\ \A t : Blind(Relieve(v, t), I)
  <2>1. \A t : Blind(Relieve(v, t), I)  BY <1>1, BlindLines, BlindWrites DEF Relieve
  <2> QED  BY <1>1, <2>1 DEF RelieveOldest
<1>2. ASSUME NEW v, Blind(v, I), NEW t
      PROVE  Blind(RecordGap(v, t), I) /\ Blind(Refuse(v, t), I) /\ Blind(RefuseAll(v, t), I)
  <2>1. \A z : Blind(z, I) => Blind(RecordGap(z, t), I)  BY DEF Blind, RecordGap
  <2> DEFINE a == [v EXCEPT !.tainted = @ \cup {t}, !.hole = @ \cup {t}]
  <2>2. Blind(a, I)  BY <1>2 DEF Blind
  <2>3. Refuse(v, t) = RecordGap(a, t)  BY DEF Refuse
  <2> HIDE DEF a
  <2>4. Blind(Refuse(v, t), I)  BY <2>1, <2>2, <2>3
  <2> QED  BY <1>2, <2>1, <2>4, BlindWrites DEF RefuseAll
<1>3. ASSUME NEW v, Blind(v, I), NEW t, NEW backoff
      PROVE  Blind(MakeRoom(v, t, backoff), I) /\ Blind(Settled(v, backoff), I)
  BY <1>1, <1>3, BlindWrites DEF MakeRoom, Settled
<1>4. ASSUME NEW v, Blind(v, I), NEW t  PROVE Blind(Accept(v, t), I)
  BY <1>4 DEF Blind, Accept
<1>5. \A t, backoff : Blind(Enqueue(w, t, backoff), I)  BY <1>2, <1>3, <1>4 DEF Enqueue
<1>6. \A age, backoff : Blind(Aged(w, age, backoff), I)  BY <1>1 DEF Aged
<1>7. \A t : Blind([w EXCEPT !.touched = @ \cup {t}], I)  BY DEF Blind
<1> QED  BY <1>2, <1>5, <1>6, <1>7

\* nor fences and mutations before their worker runs.
LEMMA BlindMutations ==
    ASSUME NEW I, NEW w, Blind(w, I), NEW x, NEW keep, NEW late
    PROVE  /\ Blind(MutationRound(w, x, keep, late), I) /\ Blind(MutationStart(w, x, keep, late), I)
           /\ Blind(FenceRound(w, x, late), I)
<1>1. ASSUME NEW v, Blind(v, I)  PROVE Blind(Apply(v, x, keep), I)
  <2> DEFINE t == On(v, x)
             c == [v EXCEPT !.log[t] = SubSeq(@, 1, Least(keep, Len(@)))]
             a == Supersede(v, t)
             r == [a EXCEPT !.log[t] = <<>>]
             d == [a EXCEPT !.log[t] = <<>>, !.gone = @ \cup {t}]
  <2>1. Blind(c, I)  BY <1>1 DEF Blind
  <2>2. Blind(a, I)
    <3> DEFINE b == Discard(v, t)
    <3>1. Blind(b, I)  BY <1>1 DEF Blind, Discard
    <3>2. a = [b EXCEPT !.tainted = @ \ {t}, !.owed = @ \ {t}, !.gap = @ \ {t},
                        !.touched = @ \ {t}, !.hole = @ \ {t}]
      BY DEF Supersede
    <3> HIDE DEF b, a
    <3> QED  BY <3>1, <3>2 DEF Blind
  <2>3. Blind(r, I) /\ Blind(d, I)
    <3> HIDE DEF a
    <3>1. Blind(r, I)  BY <2>2 DEF Blind
    <3>2. Blind(d, I)  BY <2>2 DEF Blind
    <3> QED  BY <3>1, <3>2
  <2>4. \E pc, z : z \in {v, c, a, r, d} /\ Apply(v, x, keep) = Finish(z, x, pc)
    BY DEF Apply
  <2> HIDE DEF c, a, r, d
  <2> QED  BY <1>1, <2>1, <2>2, <2>3, <2>4, BlindLines
<1>2. Blind(MutationRound(w, x, keep, late), I)
  <2> DEFINE v == FlushChunk(w, On(w, x), MaxSeq)
             l == Learn(w, On(w, x))
  <2>1. Blind(v, I) /\ Blind(l, I)  BY BlindWrites, BlindLines
  <2>2. MutationRound(w, x, keep, late) \in
            {Finish(l, x, "refused"), Finish(w, x, "refused"), Finish(v, x, "refused"),
             At(v, x, "flushing"), Apply(v, x, keep)}
    BY DEF MutationRound
  <2> HIDE DEF v, l
  <2> QED  BY <1>1, <2>1, <2>2, BlindLines
<1>3. Blind(MutationStart(w, x, keep, late), I)
  <2> DEFINE t == On(w, x)
             e == Evict(w, t, {y \in ToSet(w.line[t]) : IsFence(w, y)})
             l == Learn(w, t)
  <2>1. Blind(e, I) /\ Blind(l, I)  BY BlindLines
  <2>2. MutationStart(w, x, keep, late) \in {Apply(e, x, keep), Apply(l, x, keep),
                                             MutationRound(w, x, keep, late)}
    BY DEF MutationStart
  <2> HIDE DEF e, l
  <2> QED  BY <1>1, <1>2, <2>1, <2>2
<1>4. Blind(FenceRound(w, x, late), I)
  BY BlindWrites, BlindLines DEF FenceRound
<1> QED  BY <1>2, <1>3, <1>4

\* Every step but the read of a worker.
LEMMA Sightless ==
    ASSUME "inexact" \in DOMAIN host, Next, \A x \in Requests : ~WorkerReads(x)
    PROVE  host'.inexact = host.inexact
<1> DEFINE I == host.inexact
<1>1. Blind(host, I)  BY DEF Blind
<1> HIDE DEF I
<1>2. ASSUME NEW t, NEW age, NEW backoff, Admit(t, age, backoff) \/ DropRebase(t) \/ Barrier(t)
      PROVE  Blind(host', I)
  <2>1. CASE Admit(t, age, backoff)
    <3> DEFINE w == Aged(host, age, backoff)
               v == [w EXCEPT !.touched = @ \cup {t}]
    <3>1. Blind(w, I)  BY <1>1, BlindAdmission
    <3>2. host' \in {Refuse(w, t), RecordGap(w, t), RefuseAll(w, t), w, Refuse(v, t),
                     Enqueue(v, t, backoff)}
      BY <2>1 DEF Admit, Step
    <3> HIDE DEF w
    <3>3. Blind(v, I)  BY <3>1, BlindAdmission
    <3> HIDE DEF v
    <3>4. Blind(Refuse(w, t), I) /\ Blind(RecordGap(w, t), I) /\ Blind(RefuseAll(w, t), I)
      BY <3>1, BlindAdmission
    <3>5. Blind(Refuse(v, t), I) /\ Blind(Enqueue(v, t, backoff), I)
      BY <3>3, BlindAdmission
    <3> QED  BY <3>1, <3>2, <3>4, <3>5
  <2>2. CASE DropRebase(t)  BY <1>1, <2>2, BlindAdmission DEF DropRebase, Step
  <2>3. CASE Barrier(t)  BY <1>1, <2>3, BlindWrites DEF Barrier, Step
  <2> QED  BY <1>2, <2>1, <2>2, <2>3
<1>3. ASSUME NEW G, NEW rollback \in Rollbacks, NEW age, NEW healthy,
             FlushCycle(G, rollback, age, healthy)
      PROVE  Blind(host', I)
  <2> DEFINE u == ReleaseExpiredFences(host)
             a == [u EXCEPT !.refusing = @ /\ ~healthy]
             v == Aged(a, age, FALSE)
             w == [v EXCEPT !.refusing = @ \/ (age = "old" /\ Backlog(v) # {})]
  <2>1. host' \in {w, FlushBudgeted(w, G, rollback)}  BY <1>3 DEF FlushCycle, Step
  <2>2. Blind(u, I)  BY <1>1, BlindLines
  <2> HIDE DEF u
  <2>3. Blind(a, I)  BY <2>2, BlindWrites
  <2> HIDE DEF a
  <2>4. Blind(v, I)  BY <2>3, BlindAdmission
  <2> HIDE DEF v
  <2>5. Blind(w, I)  BY <2>4, BlindWrites
  <2> HIDE DEF w
  <2> QED  BY <2>1, <2>5, BlindWrites
<1>4. ASSUME NEW S, NEW t, Break(S) \/ Heal(t)  PROVE Blind(host', I)
  BY <1>1, <1>4 DEF Break, Heal, Step, Blind
<1>5. ASSUME NEW v, Blind(v, I), NEW x, NEW t, NEW kind, NEW f
      PROVE  /\ Blind(Join(v, x, t, kind), I) /\ Blind(Reject(v, x, t, kind), I)
             /\ Blind([v EXCEPT !.pin[t] = f], I)
  <2>1. Blind(Join(v, x, t, kind), I)  BY <1>5 DEF Join, Blind
  <2>2. Blind(Reject(v, x, t, kind), I)  BY <1>5 DEF Reject, Blind
  <2>3. Blind([v EXCEPT !.pin[t] = f], I)  BY <1>5 DEF Blind
  <2> QED  BY <2>1, <2>2, <2>3
<1>6. ASSUME NEW x, NEW t, BeginFence(x, t)  PROVE Blind(host', I)
  <2> DEFINE p == [host EXCEPT !.pin[t] = Least(@, host.last[t])]
             w == Join(p, x, t, "read")
             e == ReleaseExpiredFences(w)
             v == ReleaseExpiredFences(host)
             l == Learn(v, t)
             r == Reject(l, x, t, "read")
             q == [r EXCEPT !.pin[t] = FencePin(v, t)]
  <2>1. host' \in {Reject(host, x, t, "read"), q, Promote(e, t)}
    BY <1>6 DEF BeginFence, Step
  <2>2. Blind(p, I)  BY <1>1, <1>5
  <2>3. Blind(v, I)  BY <1>1, BlindLines
  <2> HIDE DEF p, v
  <2>4. Blind(w, I) /\ Blind(l, I)  BY <1>5, <2>2, <2>3, BlindLines
  <2> HIDE DEF w, l
  <2>5. Blind(e, I) /\ Blind(r, I)  BY <1>5, <2>4, BlindLines
  <2> HIDE DEF e, r
  <2>6. Blind(Promote(e, t), I)  BY <2>5, BlindLines
  <2>7. Blind(q, I) /\ Blind(Reject(host, x, t, "read"), I)  BY <1>1, <1>5, <2>5
  <2> HIDE DEF q
  <2> QED  BY <2>1, <2>6, <2>7
<1>7. ASSUME NEW x, NEW t, NEW kind, RequestMutation(x, t, kind)  PROVE Blind(host', I)
  <2>1. Blind(Join(host, x, t, kind), I) /\ Blind(Reject(host, x, t, kind), I)  BY <1>1, <1>5
  <2> QED  BY <1>7, <2>1, BlindLines DEF RequestMutation, Step
<1>8. ASSUME NEW x, Answer(x) \/ Expire(x)  PROVE Blind(host', I)
  BY <1>1, <1>8, BlindLines DEF Answer, Expire, Step
<1>9. ASSUME NEW keep, NEW late, Continue(keep, late)  PROVE Blind(host', I)
  <2> DEFINE y == Head(host.micro)
             w == [host EXCEPT !.micro = Tail(@)]
  <2>1. Blind(w, I)  BY <1>1 DEF Blind
  <2>2. host' \in {At(w, y, "refused"), At(Release(w, y), y, "refused"), FenceRound(w, y, late),
                   MutationStart(w, y, keep, late)}
    BY <1>9 DEF Continue, Step
  <2> HIDE DEF w
  <2> QED  BY <2>1, <2>2, BlindLines, BlindMutations
<1>10. ASSUME NEW x, NEW keep, NEW late, Resume(x, keep, late)  PROVE Blind(host', I)
  BY <1>1, <1>10, BlindMutations DEF Resume, Step
<1>11. ASSUME NEW t, NEW keep, TruncateNow(t, keep)  PROVE Blind(host', I)
  <2> DEFINE w == CommitDue(host, t, MaxSeq, MaxSeq)
  <2>1. Blind(w, I)  BY <1>1, BlindWrites
  <2>2. host' = [w EXCEPT !.log[t] = SubSeq(@, 1, keep)]  BY <1>11 DEF TruncateNow, Step
  <2> HIDE DEF w
  <2> QED  BY <2>1, <2>2 DEF Blind
<1>12. ASSUME NEW v, Blind(v, I)  PROVE Blind(Exit(v), I)
  BY <1>12 DEF Blind, Exit
<1>13. ASSUME NEW G, NEW rollback \in Rollbacks, CloseDatabase(G, rollback)  PROVE Blind(host', I)
  <2> DEFINE c == [host EXCEPT !.phase = "closing"]
             w == CancelActive(c)
             d == Commit(w, [t \in Threads |-> Due(w, t, MaxSeq)])
             v == FlushOwed(d)
  <2>1. host' \in {FlushBudgeted(w, G, rollback), v, Exit(v)}
    BY <1>13 DEF CloseDatabase, Step
  <2>2. Blind(c, I)  BY <1>1 DEF Blind
  <2> HIDE DEF c
  <2>3. Blind(w, I)  BY <2>2 DEF CancelActive, Blind
  <2> HIDE DEF w
  <2>4. Blind(d, I)  BY <2>3, BlindWrites
  <2> HIDE DEF d
  <2>5. Blind(v, I)  BY <2>4 DEF FlushOwed, Blind
  <2> HIDE DEF v
  <2> QED  BY <1>12, <2>1, <2>3, <2>5, BlindWrites
<1>14. ASSUME Crash \/ Boot  PROVE Blind(host', I)
  <2>1. Blind(Exit(host), I)  BY <1>1, <1>12
  <2> QED  BY <1>1, <1>14, <2>1 DEF Crash, Boot, Step, Blind
<1>15. Blind(host', I)
  BY <1>2, <1>3, <1>4, <1>6, <1>7, <1>8, <1>9, <1>10, <1>11, <1>13, <1>14 DEF Next
<1> QED  BY <1>15 DEF Blind, I

-----------------------------------------------------------------------------
(* The steps of the host, seen by the readers.                             *)

\* What happens after a step on other fields happens after the state before it.
LEMMA GroundTracks ==
    ASSUME NEW u, NEW w, Ground(u, w), NEW v, NEW X, Tracks(w, v, X)
    PROVE  Tracks(u, v, X)
<1>1. Clean(u, v)  BY DEF Ground, Tracks, Clean
<1>2. \A x \in Requests : Same1(u, v, x)  BY DEF Ground, Tracks, Same1, On, IsFence
<1>3. \A x \in Requests \ X : Told1(u, v, x)
  BY <1>2 DEF Ground, Tracks, Told1, On, Stands
<1> QED  BY <1>1, <1>2, <1>3 DEF Tracks

\* A reader that gives up its place and its pin.
LEMMA ReleaseTracks ==
    ASSUME NEW w \in Hosts, Steady(w), NEW x \in Requests, w.req[x].pc # "new",
           NEW pc \in Pcs, NEW v, v = At(Release(w, x), x, pc)
    PROVE  Tracks(w, v, {x}) /\ ~Stands(v, x) /\ v.req[x].pc = pc
<1> DEFINE r == Release(w, x)
<1>1. r \in Hosts /\ LineStep(w, r) /\ ~Stands(r, x)  BY ReleaseSteady
<1>2. v = At(r, x, pc)  OBVIOUS
<1> HIDE DEF r
<1>3. Tracks(w, r, {x})  BY <1>1, LineTracks
<1>4. Rises(r, v, {x}) /\ v.req[x].pc = pc /\ ~Stands(v, x)  BY <1>1, <1>2, AtRises
<1> QED  BY <1>3, <1>4, TracksOn

\* flushFence, one round: refused, or a chunk further, or sent to its worker with nothing due.
LEMMA FenceRoundTracks ==
    ASSUME NEW w, Sound(w), NEW x \in Requests, IsFence(w, x),
           w.req[x].pc \in {"granted", "flushing"},
           NEW late, NEW h, h = FenceRound(w, x, late)
    PROVE  /\ Tracks(w, h, {x})
           /\ \/ h.req[x].pc = "refused" /\ ~Stands(h, x)
              \/ /\ h.req[x].pc \in {"flushing", "reading"} /\ Stands(w, x)
                 /\ h.req[x].pc = "reading" =>
                       \A e \in ToSet(h.pending[On(h, x)]) :
                           ~(e <= Least(h.req[x].through, h.pin[On(h, x)]))
<1> DEFINE t == On(w, x)
           b == w.req[x].through
           v == FlushChunk(w, t, b)
           l == Learn(w, t)
           refused == "refused"
<1>1. w \in Hosts /\ Steady(w) /\ Smooth(w, w)  BY SmoothStart DEF Sound
<1>2. t \in Threads /\ b \in Int
  <2>1. w.req[x].pc # "new"  OBVIOUS
  <2>2. t \in Threads  BY <1>1, <2>1 DEF Steady, MadeOK
  <2> QED  BY <1>1, <2>2, FenceNumbers
<1>3. Smooth(w, v) /\ Smooth(w, l)  BY <1>1, <1>2, ChunkSmooth, RefuseSmooth
<1>4. v.req = w.req  BY <1>1, ChunkKeeps DEF ChunkFrame
<1>5. l.req = w.req /\ Ground(w, l)  BY <1>1, RefuseGround DEF Ground
<1>6. refused \in Pcs  BY DEF Pcs
<1>7. \/ h = At(Release(w, x), x, refused)
      \/ h = At(Release(l, x), x, refused)
      \/ Stands(w, x) /\ h = At(v, x, IF Due(v, t, b) > 0 THEN "flushing" ELSE "reading")
  BY DEF FenceRound
<1> HIDE DEF v, l, t, b, refused
<1>8. v \in Hosts /\ RowsOK(v) /\ l \in Hosts /\ Steady(l)  BY <1>3, SmoothHosts
<1>9. CASE h = At(Release(w, x), x, refused)
  <2>1. w.req[x].pc # "new"  OBVIOUS
  <2>2. Tracks(w, h, {x}) /\ ~Stands(h, x) /\ h.req[x].pc = refused
    BY <1>1, <1>6, <1>9, <2>1, ReleaseTracks
  <2> QED  BY <2>2 DEF refused
<1>10. CASE h = At(Release(l, x), x, refused)
  <2>1. l.req[x].pc # "new"  BY <1>5
  <2>2. Tracks(l, h, {x}) /\ ~Stands(h, x) /\ h.req[x].pc = refused
    BY <1>6, <1>8, <1>10, <2>1, ReleaseTracks
  <2>3. Tracks(w, h, {x})  BY <1>5, <2>2, GroundTracks
  <2> QED  BY <2>2, <2>3 DEF refused
<1>11. CASE Stands(w, x) /\ h = At(v, x, IF Due(v, t, b) > 0 THEN "flushing" ELSE "reading")
  <2> DEFINE pc == IF Due(v, t, b) > 0 THEN "flushing" ELSE "reading"
  <2>1. pc \in {"flushing", "reading"} /\ (pc = "reading" => ~(Due(v, t, b) > 0))  OBVIOUS
  <2>2. h = At(v, x, pc)  BY <1>11
  <2> HIDE DEF pc
  <2>3. pc \in Pcs  BY <2>1 DEF Pcs, Unsettled
  <2>4. Rises(v, h, {x}) /\ h.req[x].pc = pc  BY <1>8, <2>2, <2>3, AtRises
  <2>5. Rises(w, v, {x})
    <3>1. Rises(w, v, {})  BY <1>3 DEF Smooth
    <3> QED  BY <3>1, Apart
  <2>6. Tracks(w, h, {x})  BY <1>1, <2>4, <2>5, TracksOn DEF Rises
  <2>7. /\ h.pending = v.pending /\ h.pin = v.pin
        /\ On(h, x) = t /\ h.req[x].through = b
    <3>1. h.pending = v.pending /\ h.pin = v.pin  BY <1>8, <2>2 DEF At, Hosts
    <3>2. Same1(w, h, x)  BY <2>6 DEF Tracks
    <3> QED  BY <3>1, <3>2 DEF Same1, t, b
  <2>8. ASSUME pc = "reading", NEW e \in ToSet(v.pending[t])
        PROVE  ~(e <= Least(b, v.pin[t]))
    <3>1. /\ Due(v, t, b) \in 0 .. Len(v.pending[t])
          /\ \A i \in DOMAIN v.pending[t] :
                v.pending[t][i] <= Least(b, v.pin[t]) <=> i <= Due(v, t, b)
      BY <1>2, <1>8, DueFacts
    <3>2. v.pending[t] \in Seq(1 .. MaxSeq) /\ Len(v.pending[t]) \in Nat
      BY <1>2, <1>8 DEF Hosts
    <3>3. Due(v, t, b) = 0  BY <2>1, <2>8, <3>1, <3>2
    <3>4. PICK i \in DOMAIN v.pending[t] : e = v.pending[t][i]  BY <2>8 DEF ToSet
    <3>5. i \in 1 .. Len(v.pending[t])  BY <3>2, <3>4
    <3>6. ~(i <= 0)  BY <3>2, <3>5
    <3> QED  BY <3>1, <3>3, <3>4, <3>6
  <2> QED  BY <1>11, <2>1, <2>4, <2>6, <2>7, <2>8
<1> QED  BY <1>7, <1>9, <1>10, <1>11

\* Around a step other than a worker's read.
Carries ==
    /\ Sound(host) /\ Sound(host') /\ Exact(host, spoiled)
    /\ host'.inexact = host.inexact /\ spoiled' = spoiled \cup Misaligned(host')

\* Only the requests that go on by themselves need a reason of their own.
LEMMA ExactBut ==
    ASSUME Carries, NEW X, Tracks(host, host', X),
           \A x \in Requests \cap X : Exact1(host', spoiled', x)
    PROVE  Exact(host', spoiled')
<1>1. host \in Hosts /\ Steady(host')  BY DEF Carries, Sound
<1>2. ASSUME NEW x \in Requests \ X  PROVE Exact1(host', spoiled', x)
  <2>1. Exact1(host, spoiled, x)  BY DEF Carries, Exact
  <2>2. host'.inexact = host.inexact /\ spoiled' = spoiled \cup Misaligned(host')  BY DEF Carries
  <2>3. host' \in Hosts /\ Clean(host, host') /\ Told1(host, host', x)  BY DEF Tracks
  <2> QED  BY <1>1, <2>1, <2>2, <2>3, TrackPoint
<1> QED  BY <1>2 DEF Exact

\* None of them, in most steps.
LEMMA ExactAll ==
    ASSUME Carries, Tracks(host, host', {})
    PROVE  Exact(host', spoiled')
  BY ExactBut

\* A mutation's step.
LEMMA ExactMutation ==
    ASSUME Carries, NEW x \in Requests, ~IsFence(host, x), Tracks(host, host', {x}),
           host'.req[x].pc \in Ends
    PROVE  Exact(host', spoiled')
<1>1. Exact1(host, spoiled, x) /\ host'.inexact = host.inexact  BY DEF Carries, Exact
<1>2. Same1(host, host', x)  BY DEF Tracks
<1>3. Exact1(host', spoiled', x)  BY <1>1, <1>2, MutationPoint
<1> QED  BY <1>3, ExactBut

\* A reader's round.
LEMMA ExactRound ==
    ASSUME Carries, NEW x \in Requests, IsFence(host, x),
           host.req[x].pc \in {"granted", "flushing"},
           NEW w, Sound(w), Ground(host, w), NEW late, host' = FenceRound(w, x, late)
    PROVE  Exact(host', spoiled')
<1>1. /\ host \in Hosts /\ host' \in Hosts /\ Steady(host') /\ Exact1(host, spoiled, x)
      /\ host'.inexact = host.inexact /\ spoiled' = spoiled \cup Misaligned(host')
  BY DEF Carries, Sound, Exact
<1>2. IsFence(w, x) /\ w.req[x].pc \in {"granted", "flushing"} /\ Stands(w, x) = Stands(host, x)
  BY DEF Ground, IsFence, Stands, On
<1> DEFINE h == host'
<1>3. /\ Tracks(w, h, {x})
      /\ \/ h.req[x].pc = "refused" /\ ~Stands(h, x)
         \/ /\ h.req[x].pc \in {"flushing", "reading"} /\ Stands(w, x)
            /\ h.req[x].pc = "reading" =>
                  \A e \in ToSet(h.pending[On(h, x)]) :
                      ~(e <= Least(h.req[x].through, h.pin[On(h, x)]))
  <2>1. h = FenceRound(w, x, late)  OBVIOUS
  <2> HIDE DEF h
  <2> QED  BY <1>2, <2>1, FenceRoundTracks
<1>4. Tracks(host, h, {x})  BY <1>3, GroundTracks
<1>5. CASE h.req[x].pc = "refused" /\ ~Stands(h, x)
  <2>1. host.next <= h.next /\ Same1(host, h, x)  BY <1>4 DEF Tracks, Clean
  <2>2. spoiled \subseteq spoiled'  BY <1>1
  <2>3. Exact1(h, spoiled', x)  BY <1>1, <1>5, <2>1, <2>2, GonePoint
  <2> QED  BY <1>4, <2>3, ExactBut
<1>6. CASE /\ h.req[x].pc \in {"flushing", "reading"} /\ Stands(w, x)
           /\ h.req[x].pc = "reading" =>
                  \A e \in ToSet(h.pending[On(h, x)]) :
                      ~(e <= Least(h.req[x].through, h.pin[On(h, x)]))
  <2>1. Exact1(h, spoiled \cup Misaligned(h), x)  BY <1>1, <1>2, <1>4, <1>6, RoundPoint
  <2>2. Exact1(h, spoiled', x)  BY <1>1, <2>1
  <2> QED  BY <1>4, <2>2, ExactBut
<1> QED  BY <1>3, <1>5, <1>6

\* admit, a dropped rebase and a barrier.
LEMMA RunExact ==
    ASSUME Carries, NEW t \in Threads, NEW age, NEW backoff,
           Admit(t, age, backoff) \/ DropRebase(t) \/ Barrier(t)
    PROVE  Exact(host', spoiled')
<1>1. Sound(host)  BY DEF Carries
<1>2. Rises(host, host', {})  BY <1>1, AdmitRises
<1> QED  BY <1>2, ExactAll DEF Rises

\* runFlushCycle
LEMMA FlushExact ==
    ASSUME Carries, NEW G, NEW rollback \in Rollbacks, NEW age, NEW healthy \in BOOLEAN,
           FlushCycle(G, rollback, age, healthy)
    PROVE  Exact(host', spoiled')
<1>1. Sound(host)  BY DEF Carries
<1> QED  BY <1>1, FlushCycleTracks, ExactAll

\* Disk faults that begin and end.
LEMMA DiskExact ==
    ASSUME Carries, NEW S, NEW t, Break(S) \/ Heal(t)
    PROVE  Exact(host', spoiled')
<1>1. host \in Hosts /\ host' \in Hosts  BY DEF Carries, Sound
<1>2. Ground(host, host')  BY <1>1 DEF Break, Heal, Step, Ground, Hosts
<1>3. Rises(host, host', {})  BY <1>1, <1>2, GroundRises
<1> QED  BY <1>3, ExactAll DEF Rises

\* tryRunMutationSync
LEMMA CutExact ==
    ASSUME Carries, NEW t \in Threads, NEW keep, TruncateNow(t, keep)
    PROVE  Exact(host', spoiled')
<1> DEFINE w == CommitDue(host, t, MaxSeq, MaxSeq)
<1>1. host \in Hosts /\ Smooth(host, host)  BY SmoothStart DEF Carries, Sound
<1>2. MaxSeq \in Int /\ MaxSeq \in Nat  BY QueueAssumption
<1>3. Smooth(host, w)  BY <1>1, <1>2, DueSmooth
<1>4. keep \in 0 .. Len(w.log[t]) /\ host' = [w EXCEPT !.log[t] = SubSeq(@, 1, keep)]
  BY DEF TruncateNow, Step
<1> HIDE DEF w
<1>5. Sound(w)  BY <1>3, SmoothHosts
<1>6. Rises(w, host', {})  BY <1>4, <1>5, CutRises
<1>7. Rises(host, host', {})  BY <1>1, <1>3, <1>6, RisesOn DEF Smooth
<1> QED  BY <1>7, ExactAll DEF Rises

\* expire
LEMMA ExpireExact ==
    ASSUME Carries, NEW x \in Requests, Expire(x)
    PROVE  Exact(host', spoiled')
<1>1. host \in Hosts /\ Steady(host)  BY DEF Carries, Sound
<1>2. host' = Settle(host, x)  BY DEF Expire, Step
<1>3. host' \in Hosts /\ LineStep(host, host')  BY <1>1, <1>2, SettleSteady
<1>4. Tracks(host, host', {})  BY <1>1, <1>3, LineTracks
<1> QED  BY <1>4, ExactAll

\* The yields between two chunks.
LEMMA ResumeExact ==
    ASSUME Carries, NEW x \in Requests, NEW keep \in Keeps, NEW late \in BOOLEAN,
           Resume(x, keep, late)
    PROVE  Exact(host', spoiled')
<1>1. Sound(host) /\ Ground(host, host) /\ keep \in Nat  BY KeepsAreNat DEF Carries, Ground
<1>2. host.req[x].pc = "flushing" /\ x \notin ToSet(host.micro)  BY IdleMicro DEF Resume
<1>3. host' = IF IsFence(host, x) THEN FenceRound(host, x, late)
              ELSE MutationRound(host, x, keep, late)
  BY DEF Resume, Step
<1>4. CASE IsFence(host, x)
  <2>1. host' = FenceRound(host, x, late)  BY <1>3, <1>4
  <2> QED  BY <1>1, <1>2, <1>4, <2>1, ExactRound
<1>5. CASE ~IsFence(host, x)
  <2>1. host' = MutationRound(host, x, keep, late)  BY <1>3, <1>5
  <2>2. Mutating(host, x)  BY <1>2, <1>5 DEF Mutating
  <2>3. Moved(host, host', x)  BY <1>1, <2>1, <2>2, RoundRises
  <2> QED  BY <1>5, <2>3, ExactMutation DEF Rises, Moved
<1> QED  BY <1>4, <1>5

\* The continuations the last step resolved.
LEMMA ContinueExact ==
    ASSUME Carries, NEW keep \in Keeps, NEW late \in BOOLEAN, Continue(keep, late)
    PROVE  Exact(host', spoiled')
<1> DEFINE x == Head(host.micro)
           w == [host EXCEPT !.micro = Tail(@)]
<1>1. host.micro # <<>> /\ Sound(host) /\ Sound(host')  BY DEF Continue, Carries
<1>2. /\ Flows(host, w) /\ x \in Requests /\ x \notin ToSet(w.micro)
      /\ w.req = host.req
      /\ w.req[x].pc \in {"granted", "cancelled"}
  BY <1>1, Taking
<1>3. host' = IF w.req[x].pc = "cancelled"
              THEN At(IF IsFence(w, x) THEN Release(w, x) ELSE w, x, "refused")
              ELSE IF IsFence(w, x) THEN FenceRound(w, x, late)
              ELSE MutationStart(w, x, keep, late)
  BY DEF Continue, Step
<1>4. Ground(host, w)  BY <1>1 DEF Sound, Hosts, Ground
<1> HIDE DEF w, x
<1>5. Sound(w) /\ w \in Hosts /\ Steady(w) /\ keep \in Nat /\ host' \in Hosts
  BY <1>1, <1>2, KeepsAreNat DEF Flows, Sound
<1>6. IsFence(w, x) = IsFence(host, x)  BY <1>2 DEF IsFence
<1>7. CASE w.req[x].pc = "cancelled" /\ IsFence(w, x)
  <2> DEFINE refused == "refused"
  <2>1. host' = At(Release(w, x), x, refused)  BY <1>3, <1>7
  <2>2. refused \in Pcs /\ w.req[x].pc # "new"  BY <1>7 DEF Pcs
  <2>3. refused = "refused"  OBVIOUS
  <2> HIDE DEF refused
  <2> DEFINE h == host'
  <2>4. h = At(Release(w, x), x, refused)  BY <2>1
  <2> HIDE DEF h
  <2>5. Tracks(w, h, {x}) /\ ~Stands(h, x) /\ h.req[x].pc = refused
    BY <1>2, <1>5, <2>2, <2>4, ReleaseTracks
  <2>6. Tracks(host, h, {x})  BY <1>4, <2>5, GroundTracks
  <2> USE DEF h
  <2>7. host.next <= h.next /\ Same1(host, h, x)  BY <1>2, <2>6 DEF Tracks, Clean
  <2>8. /\ Exact1(host, spoiled, x) /\ host \in Hosts /\ h \in Hosts
        /\ h.inexact = host.inexact /\ spoiled \subseteq spoiled'
    BY <1>2 DEF Carries, Exact, Sound
  <2>9. Exact1(h, spoiled', x)  BY <1>2, <2>3, <2>5, <2>7, <2>8, GonePoint
  <2> QED  BY <2>6, <2>9, ExactBut
<1>8. CASE w.req[x].pc = "cancelled" /\ ~IsFence(w, x)
  <2> DEFINE pc == "refused"
  <2>1. host' = At(w, x, pc)  BY <1>3, <1>8
  <2>2. pc \in Pcs /\ pc \in Ends  BY DEF Pcs, Ends
  <2> HIDE DEF pc
  <2>3. Rises(w, host', {x}) /\ host'.req[x].pc = pc  BY <1>2, <1>5, <2>1, <2>2, AtRises
  <2>4. Tracks(host, host', {x})  BY <1>4, <2>3, GroundTracks DEF Rises
  <2> QED  BY <1>2, <1>6, <1>8, <2>2, <2>3, <2>4, ExactMutation
<1>9. CASE w.req[x].pc = "granted" /\ IsFence(w, x)
  <2>1. host' = FenceRound(w, x, late)  BY <1>3, <1>9
  <2>2. IsFence(host, x) /\ host.req[x].pc \in {"granted", "flushing"}  BY <1>2, <1>6, <1>9
  <2> QED  BY <1>2, <1>4, <1>5, <2>1, <2>2, ExactRound
<1>10. CASE w.req[x].pc = "granted" /\ ~IsFence(w, x)
  <2>1. host' = MutationStart(w, x, keep, late)  BY <1>3, <1>10
  <2>2. Mutating(w, x)  BY <1>2, <1>10 DEF Mutating
  <2>3. Moved(w, host', x)  BY <1>5, <2>1, <2>2, StartRises
  <2>4. Tracks(host, host', {x})  BY <1>4, <2>3, GroundTracks DEF Rises, Moved
  <2> QED  BY <1>2, <1>6, <1>10, <2>3, <2>4, ExactMutation DEF Moved
<1> QED  BY <1>2, <1>7, <1>8, <1>9, <1>10

\* The answer of a reader that still stands is the only one it is served.
LEMMA AnswerExact ==
    ASSUME Carries, NEW x \in Requests, Answer(x)
    PROVE  Exact(host', spoiled')
<1> DEFINE t == On(host, x)
           l == Learn(host, t)
           h == host'
<1>1. /\ host \in Hosts /\ Steady(host) /\ h \in Hosts /\ Exact1(host, spoiled, x)
      /\ h.inexact = host.inexact /\ spoiled \subseteq spoiled'
  BY DEF Carries, Sound, Exact
<1>2. host.req[x].pc = "read"  BY DEF Answer
<1>3. t \in Threads  BY <1>1, <1>2 DEF Steady, MadeOK
<1>4. l \in Hosts /\ Steady(l)
  <2>1. Smooth(host, host)  BY SmoothStart DEF Carries
  <2>2. Smooth(host, l)  BY <1>3, <2>1, RefuseSmooth
  <2> HIDE DEF l
  <2> QED  BY <2>2, SmoothHosts
<1>5. Ground(host, l)  BY <1>1, RefuseGround
<1>6. \E pc \in {"refused", "served"} :
         h = At(Release(l, x), x, pc) /\ (pc = "served" => Stands(host, x))
  BY DEF Answer, Step
<1> HIDE DEF l, h
<1>7. PICK pc \in {"refused", "served"} :
         h = At(Release(l, x), x, pc) /\ (pc = "served" => Stands(host, x))
  BY <1>6
<1>8. pc \in Pcs /\ l.req[x].pc # "new"  BY <1>2, <1>5 DEF Pcs, Ground
<1>9. Tracks(l, h, {x}) /\ ~Stands(h, x) /\ h.req[x].pc = pc
  BY <1>4, <1>7, <1>8, ReleaseTracks
<1>10. Tracks(host, h, {x})  BY <1>5, <1>9, GroundTracks
<1>11. host.next <= h.next /\ Same1(host, h, x)  BY <1>10 DEF Tracks, Clean
<1>12. Exact1(h, spoiled', x)
  <2>1. IsFence(h, x) => h.req[x].mark <= h.next  BY <1>1, <1>11, MarkBehind
  <2>2. ASSUME x \in h.inexact
        PROVE  /\ IsFence(h, x) /\ h.req[x].pc \in {"read", "served", "refused"}
               /\ h.req[x].pc = "served" => x \in spoiled'
    <3>1. x \in host.inexact  BY <1>1, <2>2
    <3>2. IsFence(host, x) /\ (Stands(host, x) => x \in spoiled)  BY <1>1, <1>2, <3>1 DEF Exact1
    <3>3. IsFence(h, x)  BY <1>11, <3>2 DEF Same1
    <3> QED  BY <1>1, <1>7, <1>9, <3>2, <3>3
  <2>3. h.req[x].pc \notin Early /\ h.req[x].pc # "read"  BY <1>9 DEF Early, Waiting
  <2>4. IsFence(h, x)  BY <1>1, <1>2, <1>11 DEF Exact1, Same1
  <2> QED  BY <1>9, <2>1, <2>2, <2>3, <2>4 DEF Exact1
<1> USE DEF h
<1> QED  BY <1>10, <1>12, ExactBut

\* A worker reads the events accepted before the fence, if its reader was not misaligned.
LEMMA ReadsExact ==
    ASSUME NEW w \in Hosts, NEW x \in Requests, IsFence(w, x), w.req[x].pc = "reading",
           Stands(w, x), Unmixed(w, x)
    PROVE  w.log[On(w, x)] = Expected(w, x)
<1> DEFINE t == On(w, x)
           m == w.req[x].mark
           R == 1 .. MaxSeq
           S == 1 .. m - 1
           a == w.log[t]
           b == w.pending[t]
<1>1. t \in Threads /\ m \in Int  BY FenceNumbers
<1>2. a \in Seq(R) /\ b \in Seq(R)  BY <1>1 DEF Hosts
<1>3. /\ \A e \in ToSet(a) : e < m
      /\ \A e \in ToSet(b) : ~(e < m)
  BY DEF Unmixed
<1>4. \A e \in R : e \in Int /\ e >= 1  BY QueueAssumption
<1>5. Expected(w, x) = Kept(a \o b, S)  BY DEF Expected
<1> HIDE DEF R, a, b, m, t
<1>6. /\ \A e \in ToSet(a) : e \in R
      /\ \A e \in ToSet(b) : e \in R
  BY <1>2, InSeq
<1>7. /\ \A e \in ToSet(a) : e \in S
      /\ \A e \in ToSet(b) : e \notin S
  BY <1>1, <1>3, <1>4, <1>6
<1> HIDE DEF S
<1>8. Kept(a \o b, S) = a  BY <1>2, <1>7, KeptFirst
<1> QED  BY <1>5, <1>8 DEF a, t

\* The worker of a reader.
LEMMA WorkerExact ==
    ASSUME Sound(host), Sound(host'), Exact(host, spoiled), NEW x \in Requests, WorkerReads(x)
    PROVE  Exact(host', spoiled')
<1> DEFINE pc == "read"
           v == At(host, x, pc)
           exact == host.log[On(host, x)] = Expected(host, x)
           h == host'
<1>1. /\ host \in Hosts /\ h \in Hosts /\ Steady(h) /\ host.req[x].pc = "reading"
      /\ spoiled' = spoiled \cup Misaligned(h)
  BY DEF Sound, WorkerReads, Step
<1>2. h = [v EXCEPT !.inexact = IF exact THEN @ ELSE @ \cup {x}]
  BY DEF WorkerReads, Step
<1>3. v.inexact = host.inexact  BY <1>1 DEF At, Hosts
<1>4. pc \in Pcs /\ pc = "read"  BY DEF Pcs, Unsettled
<1> HIDE DEF pc
<1>5. /\ Rises(host, v, {x}) /\ v.req[x].pc = pc /\ Stands(v, x) = Stands(host, x) /\ v \in Hosts
  BY <1>1, <1>4, AtRises DEF Rises, Tracks
<1> HIDE DEF v, exact
<1>6. /\ Ground(v, h)
      /\ h.inexact = IF exact THEN v.inexact ELSE v.inexact \cup {x}
  <2> HIDE DEF h
  <2> QED  BY <1>2, <1>5 DEF Ground, Hosts
<1>7. Tracks(host, h, {x})
  <2>1. Rises(v, h, {x})  BY <1>1, <1>5, <1>6, GroundRises
  <2> QED  BY <1>1, <1>5, <2>1, TracksOn DEF Rises
<1>8. /\ h.req[x].pc = "read" /\ Stands(h, x) = Stands(host, x)
  BY <1>4, <1>5, <1>6 DEF Ground, Stands, On
<1>9. /\ host.next <= h.next /\ Same1(host, h, x) /\ Clean(host, h)  BY <1>7 DEF Tracks, Clean
<1> HIDE DEF h
<1>10. Exact1(host, spoiled, x)  BY DEF Exact
<1>11. IsFence(host, x) /\ x \notin host.inexact  BY <1>1, <1>10 DEF Exact1
<1>12. Exact1(h, spoiled', x)
  <2>1. IsFence(h, x) /\ h.req[x].mark <= h.next
    BY <1>1, <1>9, <1>10, <1>11, MarkBehind DEF Same1
  <2>2. ASSUME x \in h.inexact, Stands(h, x)  PROVE x \in spoiled'
    <3>1. ~exact  BY <1>3, <1>6, <1>11, <2>2
    <3>2. SUFFICES ASSUME x \notin spoiled  PROVE FALSE
      BY <1>1
    <3>3. Stands(host, x) /\ host.req[x].pc \in Early  BY <1>1, <1>8, <2>2 DEF Early
    <3>4. Unmixed(host, x)  BY <1>10, <1>11, <3>2, <3>3 DEF Exact1
    <3> QED  BY <1>1, <1>11, <3>1, <3>3, <3>4, ReadsExact DEF exact
  <2> QED  BY <1>8, <2>1, <2>2 DEF Exact1, Early, Waiting
<1>13. ASSUME NEW y \in Requests, y # x  PROVE Exact1(h, spoiled', y)
  <2>1. Exact1(host, spoiled, y)  BY DEF Exact
  <2>2. y \in h.inexact => y \in host.inexact  BY <1>3, <1>6, <1>13
  <2>3. Told1(host, h, y)  BY <1>7, <1>13 DEF Tracks
  <2>4. Exact1(h, spoiled \cup Misaligned(h), y)
    BY <1>1, <1>9, <2>1, <2>2, <2>3, TrackPoint
  <2> QED  BY <1>1, <2>4
<1>14. Exact(h, spoiled')  BY <1>12, <1>13 DEF Exact
<1> QED  BY <1>14 DEF h
-----------------------------------------------------------------------------
(* Requests are made.                                                      *)

\* Nothing is written, and nobody does more than be told.
Calm(w, v) == SameRows(w, v) /\ \A y \in Requests : Told1(w, v, y)

\* x enters as a request of t, and reads through what is accepted now.
Entered == {"waiting", "granted", "cancelled", "refused"}
Enters(w, v, x, t, kind) ==
    /\ SameRows(w, v)
    /\ \A y \in Requests \ {x} : Told1(w, v, y)
    /\ On(v, x) = t /\ IsFence(v, x) = (kind = "read") /\ v.req[x].pc \in Entered
    /\ v.req[x].through = w.last[t]
    /\ v.req[x].mark = IF kind = "read" THEN w.next ELSE 0

\* Steps on the lines,
LEMMA LineCalm ==
    ASSUME NEW w, NEW v, LineStep(w, v)
    PROVE  Calm(w, v)
  BY DEF LineStep, Calm, Told1, Same1

\* and steps on the remaining fields.
LEMMA FrameCalm ==
    ASSUME NEW w, NEW v, SameRows(w, v), v.req = w.req, v.line = w.line
    PROVE  Calm(w, v)
  BY DEF Calm, Told1, Same1, On, IsFence, Stands

\* A request may enter after them,
LEMMA EntersAfter ==
    ASSUME NEW w, NEW v, Calm(w, v), NEW z, NEW x, NEW t, NEW kind, Enters(v, z, x, t, kind)
    PROVE  Enters(w, z, x, t, kind)
<1>1. SameRows(w, z) /\ v.last = w.last /\ v.next = w.next  BY DEF Calm, Enters, SameRows
<1>2. \A y \in Requests \ {x} : Told1(w, z, y)  BY ToldOn DEF Calm, Enters
<1> QED  BY <1>1, <1>2 DEF Enters

\* or be told after it entered.
LEMMA EntersThen ==
    ASSUME NEW w, NEW v, NEW x \in Requests, NEW t, NEW kind, Enters(w, v, x, t, kind),
           NEW z, Calm(v, z)
    PROVE  Enters(w, z, x, t, kind)
<1>1. SameRows(w, z)  BY DEF Calm, Enters, SameRows
<1>2. \A y \in Requests \ {x} : Told1(w, z, y)  BY ToldOn DEF Calm, Enters
<1>3. Told1(v, z, x)  BY DEF Calm
<1>4. z.req[x].pc \in Entered  BY <1>3 DEF Enters, Entered, Told1
<1>5. Same1(v, z, x)  BY <1>3 DEF Told1
<1> QED  BY <1>1, <1>2, <1>4, <1>5 DEF Enters, Same1

\* What makes a request.
LEMMA NewEnters ==
    ASSUME NEW w \in Hosts, NEW x \in Requests, NEW t, NEW kind, NEW pc \in Entered, NEW v,
           SameRows(w, v), v.req = [w.req EXCEPT ![x] = New(w, t, kind, pc)],
           \A y \in Requests \ {x} : Stands(v, y) => Stands(w, y)
    PROVE  Enters(w, v, x, t, kind)
<1> DEFINE r == New(w, t, kind, pc)
<1>1. /\ r.on = t /\ r.kind = kind /\ r.pc = pc /\ r.through = w.last[t]
      /\ r.mark = IF kind = "read" THEN w.next ELSE 0
  BY DEF New
<1>2. w.req \in [Requests -> Request]  BY DEF Hosts
<1> HIDE DEF r
<1>3. v.req = [w.req EXCEPT ![x] = r]  BY DEF r
<1>4. v.req[x] = r /\ \A y \in Requests \ {x} : v.req[y] = w.req[y]  BY <1>2, <1>3
<1>5. \A y \in Requests \ {x} : Told1(w, v, y)  BY <1>4 DEF Told1, Same1, On, IsFence
<1> QED  BY <1>1, <1>4, <1>5 DEF Enters, On, IsFence

\* A request refused at once.
LEMMA RejectEnters ==
    ASSUME NEW w \in Hosts, RowsOK(w), Steady(w), NEW x \in Requests, w.req[x].pc = "new",
           NEW t \in Threads, NEW kind \in Kinds
    PROVE  Enters(w, Reject(w, x, t, kind), x, t, kind)
<1> DEFINE v == Reject(w, x, t, kind)
           pc == "refused"
<1>1. SameRows(w, v) /\ v.line = w.line /\ \A y \in Requests : y # x => v.req[y] = w.req[y]
  BY RejectSteady
<1>2. v.req = [w.req EXCEPT ![x] = New(w, t, kind, pc)]  BY DEF Reject, Hosts
<1>3. pc \in Entered  BY DEF Entered
<1> HIDE DEF v, pc
<1>4. \A y \in Requests \ {x} : Stands(v, y) => Stands(w, y)  BY <1>1 DEF Stands, On
<1>5. Enters(w, v, x, t, kind)  BY <1>1, <1>2, <1>3, <1>4, NewEnters
<1> QED  BY <1>5 DEF v

\* A request at the end of its line.
LEMMA JoinEnters ==
    ASSUME NEW w \in Hosts, NEW x \in Requests, NEW t \in Threads, NEW kind
    PROVE  Enters(w, Join(w, x, t, kind), x, t, kind)
<1> DEFINE v == Join(w, x, t, kind)
           pc == "waiting"
           q == Append(w.line[t], x)
<1>1. w.line \in [Threads -> Seq(Requests)] /\ w.req \in [Requests -> Request]  BY DEF Hosts
<1>2. w.line[t] \in Seq(Requests)  BY <1>1
<1>3. ToSet(q) = ToSet(w.line[t]) \cup {x}  BY <1>2, Appended
<1>4. /\ v.req = [w.req EXCEPT ![x] = New(w, t, kind, pc)]
      /\ v.line = [w.line EXCEPT ![t] = q] /\ SameRows(w, v)
  BY DEF Join, Hosts, SameRows
<1>5. pc \in Entered  BY DEF Entered
<1> HIDE DEF v, pc, q
<1>6. v.line[t] = q /\ \A p \in Threads : p # t => v.line[p] = w.line[p]  BY <1>1, <1>4
<1>7. ASSUME NEW y \in Requests \ {x}, Stands(v, y)  PROVE Stands(w, y)
  <2>1. v.req[y] = w.req[y]  BY <1>1, <1>4, <1>7
  <2>2. On(v, y) = On(w, y)  BY <2>1 DEF On
  <2>3. On(w, y) # None /\ On(w, y) \in Threads
    BY <1>1, <1>7, <2>2 DEF Stands, On, Request
  <2>4. y \in ToSet(v.line[On(w, y)])  BY <1>7, <2>2 DEF Stands, On
  <2>5. y \in ToSet(w.line[On(w, y)])
    <3>1. CASE On(w, y) = t  BY <1>3, <1>6, <1>7, <2>4, <3>1
    <3>2. CASE On(w, y) # t  BY <1>6, <2>3, <2>4, <3>2
    <3> QED  BY <3>1, <3>2
  <2> QED  BY <2>3, <2>5 DEF Stands, On
<1>8. Enters(w, v, x, t, kind)  BY <1>4, <1>5, <1>7, NewEnters
<1> QED  BY <1>8 DEF v

\* A reader enters behind every row, and what is pending is within its boundary.
LEMMA EnterExact ==
    ASSUME Carries, NEW x \in Requests, NEW t \in Threads, NEW kind, host.req[x].pc = "new",
           Enters(host, host', x, t, kind)
    PROVE  Exact(host', spoiled')
<1> DEFINE h == host'
<1>1. /\ host \in Hosts /\ RowsOK(host) /\ h \in Hosts /\ Steady(h)
      /\ h.inexact = host.inexact /\ spoiled' = spoiled \cup Misaligned(h)
  BY DEF Carries, Sound
<1>2. /\ h.log = host.log /\ h.pending = host.pending /\ h.next = host.next
      /\ On(h, x) = t /\ IsFence(h, x) = (kind = "read") /\ h.req[x].pc \in Entered
      /\ h.req[x].through = host.last[t]
      /\ h.req[x].mark = IF kind = "read" THEN host.next ELSE 0
      /\ \A y \in Requests \ {x} : Told1(host, h, y)
  BY DEF Enters, SameRows
<1>3. Exact1(host, spoiled, x)  BY DEF Carries, Exact
<1> HIDE DEF h
<1>4. host.next \in Int /\ host.next <= h.next
  <2>1. host.next \in 1 .. Unpinned  BY <1>1 DEF Hosts
  <2> QED  BY <1>2, <2>1
<1>5. Clean(host, h)  BY <1>2, <1>4 DEF Clean
<1>6. Exact1(h, spoiled', x)
  <2>1. x \notin h.inexact  BY <1>1, <1>3 DEF Exact1
  <2>2. ASSUME IsFence(h, x)  PROVE Unmixed(h, x)
    <3>1. /\ \A i \in DOMAIN host.log[t] : host.log[t][i] < host.next
          /\ \A i \in DOMAIN host.pending[t] : host.pending[t][i] <= host.last[t]
      BY <1>1 DEF RowsOK
    <3>2. h.req[x].mark = host.next /\ h.req[x].pc # "reading"  BY <1>2, <2>2 DEF Entered
    <3> QED  BY <1>2, <3>1, <3>2 DEF Unmixed, ToSet
  <2>3. IsFence(h, x) => h.req[x].mark <= h.next  BY <1>2, <1>4
  <2>4. h.req[x].pc \notin {"reading", "read", "served"}  BY <1>2 DEF Entered
  <2> QED  BY <2>1, <2>2, <2>3, <2>4 DEF Exact1
<1>7. ASSUME NEW y \in Requests \ {x}  PROVE Exact1(h, spoiled', y)
  <2>1. Exact1(host, spoiled, y)  BY DEF Carries, Exact
  <2>2. Exact1(h, spoiled \cup Misaligned(h), y)
    BY <1>1, <1>2, <1>5, <2>1, TrackPoint
  <2> QED  BY <1>1, <2>2
<1>8. Exact(h, spoiled')  BY <1>6, <1>7 DEF Exact
<1> QED  BY <1>8 DEF h

\* beginFence
LEMMA BeginFenceExact ==
    ASSUME Carries, NEW x \in Requests, NEW t \in Threads, BeginFence(x, t)
    PROVE  Exact(host', spoiled')
<1>1. host \in Hosts /\ Steady(host) /\ RowsOK(host) /\ Flows(host, host)
  BY StandsSound DEF Carries
<1> DEFINE kind == "read"
<1>2. kind \in Kinds /\ host.req[x].pc = "new"  BY DEF BeginFence
<1> DEFINE k == Least(host.pin[t], host.last[t])
           P == [host.pin EXCEPT ![t] = k]
           p == [host EXCEPT !.pin = P]
           w == Join(p, x, t, kind)
           e == ReleaseExpiredFences(w)
           v == ReleaseExpiredFences(host)
           l == Learn(v, t)
           r == Reject(l, x, t, kind)
           q == [r EXCEPT !.pin[t] = FencePin(v, t)]
<1>3. host' \in {Reject(host, x, t, kind), q, Promote(e, t)}
  <2>1. p = [host EXCEPT !.pin[t] = Least(@, host.last[t])]  BY <1>1 DEF Hosts
  <2> HIDE DEF p
  <2> QED  BY <2>1 DEF BeginFence, Step
<1> HIDE DEF kind
<1>4. Enters(host, Reject(host, x, t, kind), x, t, kind)  BY <1>1, <1>2, RejectEnters
<1>5. Enters(host, q, x, t, kind)
  <2>1. v \in Hosts /\ Steady(v) /\ LineStep(host, v) /\ v.req = host.req /\ v.line = host.line
    BY <1>1, ExpiredSteady
  <2> HIDE DEF v
  <2>2. Flows(host, l)
    <3>1. SameRows(host, v)  BY <2>1 DEF LineStep
    <3>2. Flows(host, v)  BY <1>1, <2>1, <3>1, LineFlows
    <3> QED  BY <3>2, RefuseFlows
  <2>3. SameRows(v, l) /\ l.req = v.req /\ l.line = v.line
    BY <2>1 DEF Learn, Hosts, SameRows
  <2> HIDE DEF l
  <2>4. l \in Hosts /\ RowsOK(l) /\ Steady(l)  BY <2>2 DEF Flows, Sound
  <2>5. l.req[x].pc = "new"  BY <1>2, <2>1, <2>3
  <2>6. Enters(l, r, x, t, kind)  BY <1>2, <2>4, <2>5, RejectEnters
  <2>7. r \in Hosts  BY <1>2, <2>4, <2>5, RejectSteady
  <2> HIDE DEF r
  <2>8. SameRows(r, q) /\ q.req = r.req /\ q.line = r.line  BY <2>7 DEF Hosts, SameRows
  <2> HIDE DEF q
  <2>9. Calm(host, v) /\ Calm(v, l) /\ Calm(r, q)  BY <2>1, <2>3, <2>8, LineCalm, FrameCalm
  <2>10. Enters(v, r, x, t, kind)  BY <2>6, <2>9, EntersAfter
  <2>11. Enters(host, r, x, t, kind)  BY <2>9, <2>10, EntersAfter
  <2> QED  BY <2>9, <2>11, EntersThen
<1>6. Enters(host, Promote(e, t), x, t, kind)
  <2>1. P \in [Threads -> 0 .. Unpinned] /\ \A s \in Threads : s # t => P[s] = host.pin[s]
    <3>1. host.pin \in [Threads -> 0 .. Unpinned] /\ host.last[t] \in 0 .. MaxSeq
      BY <1>1 DEF Hosts
    <3>2. MaxSeq \in Nat  BY QueueAssumption
    <3>3. k \in 0 .. Unpinned  BY <3>1, <3>2 DEF Least, Unpinned
    <3> HIDE DEF k
    <3> QED  BY <3>1, <3>3
  <2> HIDE DEF P
  <2>2. /\ p \in Hosts /\ p.line = host.line /\ p.req = host.req /\ p.micro = host.micro
        /\ p.freed = host.freed /\ p.pin = P /\ SameRows(host, p)
    BY <1>1, <2>1 DEF Hosts, SameRows
  <2> HIDE DEF p
  <2>3. LinesOK(p) /\ MicroOK(p) /\ MadeOK(p)
    BY <1>1, <2>2 DEF Steady, LinesOK, MicroOK, MadeOK, On, IsFence
  <2>4. PinsBut(p, t)
    BY <1>1, <2>1, <2>2 DEF Steady, PinsOK, PinsBut, On, IsFence
  <2>5. RowsOK(p)  BY <1>1, <2>2, RowFrame DEF SameRows
  <2>6. p.req[x].pc = "new" /\ kind = "read"  BY <1>2, <2>2 DEF kind
  <2>7. w \in Hosts /\ Steady(w)  BY <1>2, <2>2, <2>3, <2>4, <2>5, <2>6, JoinSteady
  <2>8. Enters(p, w, x, t, kind)  BY <2>2, JoinEnters
  <2> HIDE DEF w
  <2>9. e \in Hosts /\ Steady(e) /\ LineStep(w, e)  BY <2>7, ExpiredSteady
  <2> HIDE DEF e
  <2>10. LineStep(e, Promote(e, t))  BY <2>9, PromoteSteady
  <2>11. Calm(host, p) /\ Calm(w, e) /\ Calm(e, Promote(e, t))
    BY <2>2, <2>9, <2>10, LineCalm, FrameCalm
  <2>12. Enters(host, w, x, t, kind)  BY <2>8, <2>11, EntersAfter
  <2>13. Enters(host, e, x, t, kind)  BY <2>11, <2>12, EntersThen
  <2> QED  BY <2>11, <2>13, EntersThen
<1> HIDE DEF e, q
<1>7. Enters(host, host', x, t, kind)  BY <1>3, <1>4, <1>5, <1>6
<1> QED  BY <1>2, <1>7, EnterExact

\* runMutation
LEMMA RequestExact ==
    ASSUME Carries, NEW x \in Requests, NEW t \in Threads, NEW kind, RequestMutation(x, t, kind)
    PROVE  Exact(host', spoiled')
<1>1. host \in Hosts /\ Steady(host) /\ RowsOK(host)  BY StandsSound DEF Carries
<1>2. kind \in Kinds /\ host.req[x].pc = "new"  BY DEF RequestMutation
<1> DEFINE j == Join(host, x, t, kind)
           r == Reject(host, x, t, kind)
<1>3. Enters(host, r, x, t, kind)  BY <1>1, <1>2, RejectEnters
<1>4. j \in Hosts /\ Steady(j)  BY <1>1, <1>2, JoinSteady DEF Steady
<1>5. Enters(host, j, x, t, kind)  BY <1>1, JoinEnters
<1>6. host' \in {r, Promote(j, t)}  BY DEF RequestMutation, Step
<1> HIDE DEF j, r
<1>7. Calm(j, Promote(j, t))  BY <1>4, PromoteSteady, LineCalm
<1>8. Enters(host, Promote(j, t), x, t, kind)  BY <1>5, <1>7, EntersThen
<1>9. Enters(host, host', x, t, kind)  BY <1>3, <1>6, <1>8
<1> QED  BY <1>2, <1>9, EnterExact

-----------------------------------------------------------------------------
(* An end of the process, seen by the readers.                             *)

\* Nobody holds or waits for a thread, and whoever was under way is refused.
Ended(u, w) ==
    /\ u.next <= w.next
    /\ \A x \in Requests : /\ Same1(u, w, x) /\ ~Stands(w, x)
                           /\ w.req[x].pc \in {u.req[x].pc, "refused"}

\* Nobody is served who was not.
LEMMA ExactEnded ==
    ASSUME Carries, Ended(host, host')
    PROVE  Exact(host', spoiled')
<1> DEFINE h == host'
<1>1. host \in Hosts /\ h \in Hosts /\ h.inexact = host.inexact /\ spoiled \subseteq spoiled'
  BY DEF Carries, Sound
<1> HIDE DEF h
<1>2. ASSUME NEW x \in Requests  PROVE Exact1(h, spoiled', x)
  <2>1. /\ host.next <= h.next /\ Same1(host, h, x) /\ ~Stands(h, x)
        /\ h.req[x].pc \in {host.req[x].pc, "refused"}
    BY DEF Ended, h
  <2>2. Exact1(host, spoiled, x)  BY DEF Carries, Exact
  <2> QED  BY <1>1, <2>1, <2>2, GonePoint
<1> QED  BY <1>2 DEF Exact, h

\* An exit after the last writes.
LEMMA ExitEnds ==
    ASSUME NEW u, NEW w, Smooth(u, w), NEW v, v = Exit(w)
    PROVE  Ended(u, v)
<1> DEFINE R == [x \in Requests |-> IF w.req[x].pc \in Unsettled
                                    THEN [w.req[x] EXCEPT !.pc = "refused"] ELSE w.req[x]]
           E == [t \in Threads |-> <<>>]
<1>1. w \in Hosts /\ Rises(u, w, {})  BY SmoothHosts DEF Smooth
<1>2. v.req = R /\ v.line = E /\ v.next = w.next  BY <1>1 DEF Exit, Hosts
<1>3. w.req \in [Requests -> Request]  BY <1>1 DEF Hosts
<1>4. ASSUME NEW x \in Requests
      PROVE  /\ R[x].on = w.req[x].on /\ R[x].kind = w.req[x].kind
             /\ R[x].through = w.req[x].through /\ R[x].mark = w.req[x].mark
             /\ R[x].pc = IF w.req[x].pc \in Unsettled THEN "refused" ELSE w.req[x].pc
             /\ R[x].on \in Threads \cup {None}
  BY <1>3 DEF Request
<1>5. \A t \in Threads : ToSet(E[t]) = {}
  <2>1. ToSet(<<>>) = {}  BY DEF ToSet
  <2> QED  BY <2>1
<1> HIDE DEF R, E
<1>6. u.next <= v.next  BY <1>1, <1>2 DEF Rises, Tracks, Clean
<1>7. ASSUME NEW x \in Requests
      PROVE  /\ Same1(u, v, x) /\ ~Stands(v, x)
             /\ v.req[x].pc \in {u.req[x].pc, "refused"}
  <2>1. Told1(u, w, x) /\ Same1(u, w, x)  BY <1>1 DEF Rises, Tracks
  <2>2. Same1(u, v, x)  BY <1>2, <1>4, <2>1 DEF Same1, On, IsFence
  <2>3. ~Stands(v, x)  BY <1>2, <1>4, <1>5 DEF Stands, On
  <2>4. v.req[x].pc \in {w.req[x].pc, "refused"}
        /\ (w.req[x].pc \in {"granted", "cancelled"} => v.req[x].pc = "refused")
    BY <1>2, <1>4 DEF Unsettled, Waiting
  <2>5. v.req[x].pc \in {u.req[x].pc, "refused"}  BY <2>1, <2>4 DEF Told1
  <2> QED  BY <2>2, <2>3, <2>5
<1> QED  BY <1>6, <1>7 DEF Ended

\* Once every line is disposed, pins are gone.
LEMMA DisposeSmooth ==
    ASSUME Sound(host), Idle, NEW w, w = CancelActive([host EXCEPT !.phase = "closing"])
    PROVE  Smooth(host, w)
<1> DEFINE c == [host EXCEPT !.phase = "closing"]
           told == {x \in Requests : c.req[x].pc = "waiting"}
           R == Cancel(c, told)
           E == [t \in Threads |-> <<>>]
<1>1. host \in Hosts /\ Flows(host, w) /\ w \in Hosts /\ \A t \in Threads : w.pin[t] = Unpinned
  BY DisposeFlows DEF Sound, Flows
<1>2. c.req = host.req /\ c.line = host.line /\ c.log = host.log /\ c.pending = host.pending
      /\ c.next = host.next /\ {"log", "pending", "next", "line", "req"} \subseteq DOMAIN c
  BY <1>1 DEF Hosts
<1>3. /\ w.req = R /\ w.line = E /\ w.log = host.log /\ w.pending = host.pending
      /\ w.next = host.next
  <2>1. w = CancelActive(c)  OBVIOUS
  <2> HIDE DEF c
  <2> QED  BY <1>2, <2>1 DEF CancelActive
<1> HIDE DEF c
<1>4. host.req \in [Requests -> Request]  BY <1>1 DEF Hosts
<1>5. \A x \in Requests : /\ R[x].on = host.req[x].on /\ R[x].kind = host.req[x].kind
                          /\ R[x].through = host.req[x].through /\ R[x].mark = host.req[x].mark
                          /\ R[x].pc = IF host.req[x].pc = "waiting" THEN "cancelled"
                                       ELSE host.req[x].pc
                          /\ R[x].on \in Threads \cup {None}
  BY <1>2, <1>4 DEF Cancel, Request
<1>6. \A t \in Threads : ToSet(E[t]) = {}
  <2>1. ToSet(<<>>) = {}  BY DEF ToSet
  <2> QED  BY <2>1
<1> HIDE DEF R, E, told
<1>7. ASSUME NEW x \in Requests  PROVE Told1(host, w, x) /\ Same1(host, w, x)
  <2>1. ~Stands(w, x)  BY <1>3, <1>5, <1>6 DEF Stands, On
  <2>2. Same1(host, w, x)  BY <1>3, <1>5 DEF Same1, On, IsFence
  <2>3. w.req[x].pc = host.req[x].pc \/ (host.req[x].pc = "waiting" /\ w.req[x].pc = "cancelled")
    BY <1>3, <1>5
  <2> QED  BY <2>1, <2>2, <2>3 DEF Told1
<1>8. host.next <= w.next
  <2>1. host.next \in 1 .. Unpinned  BY <1>1 DEF Hosts
  <2> QED  BY <1>3, <2>1
<1>9. Clean(host, w)  BY <1>3, <1>8 DEF Clean
<1>10. \A t \in Threads : host.pin[t] <= w.pin[t]
  <2>1. \A t \in Threads : host.pin[t] \in 0 .. Unpinned  BY <1>1 DEF Hosts
  <2> QED  BY <1>1, <2>1
<1>11. Rises(host, w, {})  BY <1>1, <1>7, <1>9, <1>10 DEF Rises, Tracks
<1> QED  BY <1>1, <1>11 DEF Smooth

\* closeDatabase flushes, or ends the process.
LEMMA CloseExact ==
    ASSUME Carries, NEW G, NEW rollback \in Rollbacks, CloseDatabase(G, rollback)
    PROVE  Exact(host', spoiled')
<1> DEFINE w == CancelActive([host EXCEPT !.phase = "closing"])
           n == [t \in Threads |-> Due(w, t, MaxSeq)]
           d == Commit(w, n)
           v == FlushOwed(d)
           z == Exit(v)
<1>1. \/ host' = FlushBudgeted(w, G, rollback)
      \/ host' = v
      \/ host' = z
  BY DEF CloseDatabase, Step
<1>2. Sound(host) /\ Idle  BY DEF Carries, CloseDatabase
<1>3. Smooth(host, w) /\ Flows(host, w)  BY <1>2, DisposeSmooth, DisposeFlows
<1> HIDE DEF w
<1>4. w \in Hosts /\ RowsOK(w)  BY <1>3, SmoothHosts
<1>5. ASSUME NEW t \in Threads
      PROVE  /\ n[t] \in Nat /\ n[t] <= Len(w.pending[t])
             /\ \A i \in 1 .. n[t] : w.pending[t][i] <= w.pin[t]
  <2>1. MaxSeq \in Int  BY QueueAssumption
  <2> DEFINE b == MaxSeq
  <2> HIDE DEF b
  <2>2. b \in Int /\ b = MaxSeq  BY <2>1 DEF b
  <2>3. Due(w, t, b) \in 0 .. Len(w.pending[t])  BY <1>4, <2>2, DueFacts
  <2>4. Len(w.pending[t]) \in Nat  BY <1>4, AllFacts
  <2>5. \A i \in 1 .. Due(w, t, b) : w.pending[t][i] <= w.pin[t]  BY <1>4, <2>2, DueWithin
  <2> QED  BY <2>2, <2>3, <2>4, <2>5
<1>6. n \in [Threads -> Nat]  BY <1>5
<1> HIDE DEF n
<1>7. Flows(host, d)  BY <1>3, <1>5, <1>6, CommitFacts
<1>8. d \in Hosts  BY <1>7 DEF Flows, Sound
<1>9. Rises(w, d, {})  BY <1>4, <1>5, <1>6, <1>8, CommitRises
<1>10. Smooth(host, d)  BY <1>3, <1>7, <1>9, SmoothOn
<1> HIDE DEF d
<1>11. /\ v \in Hosts /\ Ground(d, v) /\ v.micro = d.micro
       /\ v.freed = d.freed /\ v.last = d.last /\ d.gap \subseteq v.gap
  <2> DEFINE g == d.gap \cup (d.owed \ d.failing)
             o == d.owed \cap d.failing
  <2>1. v = [d EXCEPT !.gap = g, !.owed = o]  BY <1>8 DEF FlushOwed, Hosts
  <2>2. g \subseteq Threads /\ o \subseteq Threads /\ d.gap \subseteq g  BY <1>8 DEF Hosts
  <2> HIDE DEF g, o, v
  <2> QED  BY <1>8, <2>1, <2>2 DEF Hosts, Ground
<1> HIDE DEF v
<1>12. Flows(host, v)  BY <1>7, <1>11, Plain DEF Ground
<1>13. Rises(d, v, {})  BY <1>8, <1>11, GroundRises
<1>14. Smooth(host, v)  BY <1>10, <1>12, <1>13, SmoothOn
<1>15. CASE host' = FlushBudgeted(w, G, rollback)
  <2>1. Smooth(host, host')  BY <1>3, <1>15, BudgetedSmooth
  <2> QED  BY <2>1, ExactAll DEF Smooth, Rises
<1>16. CASE host' = v
  <2>1. Smooth(host, host')  BY <1>14, <1>16
  <2> QED  BY <2>1, ExactAll DEF Smooth, Rises
<1>17. CASE host' = z
  <2>1. Ended(host, host')  BY <1>14, <1>17, ExitEnds
  <2> QED  BY <2>1, ExactEnded
<1> QED  BY <1>1, <1>15, <1>16, <1>17

\* A kill.
LEMMA CrashExact ==
    ASSUME Carries, Crash
    PROVE  Exact(host', spoiled')
<1> DEFINE z == Exit(host)
<1>1. Sound(z)  BY ExitSound DEF Carries
<1>2. Ended(host, z)
  <2>1. Smooth(host, host)  BY SmoothStart DEF Carries
  <2> QED  BY <2>1, ExitEnds
<1>3. host' = [z EXCEPT !.hole = @ \cap host.gap]  BY DEF Crash, Step
<1> HIDE DEF z
<1>4. z \in Hosts  BY <1>1 DEF Sound
<1>5. host'.req = z.req /\ host'.line = z.line /\ host'.next = z.next  BY <1>3, <1>4 DEF Hosts
<1>6. Ended(host, host')
  BY <1>2, <1>5 DEF Ended, Same1, Stands, On, IsFence
<1> QED  BY <1>6, ExactEnded

\* A boot resumes nobody.
LEMMA BootExact ==
    ASSUME Carries, Boot
    PROVE  Exact(host', spoiled')
<1>1. host \in Hosts /\ host' \in Hosts  BY DEF Carries, Sound
<1>2. Ground(host, host')  BY <1>1 DEF Boot, Step, Ground, Hosts
<1>3. Rises(host, host', {})  BY <1>1, <1>2, GroundRises
<1> QED  BY <1>3, ExactAll DEF Rises

-----------------------------------------------------------------------------
(* Every reader served.                                                    *)

\* Every action says which readers it leaves misaligned.
LEMMA SpoiledGrows ==
    ASSUME Next
    PROVE  spoiled' = spoiled \cup Misaligned(host')
<1> DEFINE P == spoiled' = spoiled \cup Misaligned(host')
<1>1. ASSUME NEW w, Step(w)  PROVE P
  BY <1>1 DEF Step
<1> HIDE DEF P
<1>2. ASSUME NEW t, NEW age, NEW backoff, Admit(t, age, backoff)  PROVE P
  BY <1>1, <1>2 DEF Admit
<1>3. ASSUME NEW G, NEW rollback, NEW age, NEW healthy, FlushCycle(G, rollback, age, healthy)
      PROVE  P
  BY <1>1, <1>3 DEF FlushCycle
<1>4. ASSUME NEW t, DropRebase(t) \/ Barrier(t) \/ Heal(t)  PROVE P
  BY <1>1, <1>4 DEF DropRebase, Barrier, Heal
<1>5. ASSUME NEW S, Break(S)  PROVE P
  BY <1>1, <1>5 DEF Break
<1>6. ASSUME NEW x, NEW t, BeginFence(x, t)  PROVE P
  BY <1>1, <1>6 DEF BeginFence
<1>7. ASSUME NEW x, NEW t, NEW kind, RequestMutation(x, t, kind)  PROVE P
  BY <1>1, <1>7 DEF RequestMutation
<1>8. ASSUME NEW x, WorkerReads(x) \/ Answer(x) \/ Expire(x)  PROVE P
  BY <1>1, <1>8 DEF WorkerReads, Answer, Expire
<1>9. ASSUME NEW keep, NEW late, Continue(keep, late)  PROVE P
  BY <1>1, <1>9 DEF Continue
<1>10. ASSUME NEW x, NEW keep, NEW late, Resume(x, keep, late)  PROVE P
  BY <1>1, <1>10 DEF Resume
<1>11. ASSUME NEW t, NEW keep, TruncateNow(t, keep)  PROVE P
  BY <1>1, <1>11 DEF TruncateNow
<1>12. ASSUME NEW G, NEW rollback, CloseDatabase(G, rollback)  PROVE P
  BY <1>1, <1>12 DEF CloseDatabase
<1>13. ASSUME Crash \/ Boot  PROVE P
  BY <1>1, <1>13 DEF Crash, Boot
<1>14. P
  BY <1>2, <1>3, <1>4, <1>5, <1>6, <1>7, <1>8, <1>9, <1>10, <1>11, <1>12, <1>13 DEF Next
<1> QED  BY <1>14 DEF P

\* Every action, in the order of Next.
LEMMA ExactStepwise ==
    ASSUME Sound(host), Sound(host'), Exact(host, spoiled), Next
    PROVE  Exact(host', spoiled')
<1> DEFINE E == Exact(host', spoiled')
<1>1. CASE \E x \in Requests : WorkerReads(x)  BY <1>1, WorkerExact
<1>2. CASE \A x \in Requests : ~WorkerReads(x)
  <2>1. Carries
    <3>1. "inexact" \in DOMAIN host  BY DEF Sound, Hosts
    <3> QED  BY <1>2, <3>1, Sightless, SpoiledGrows DEF Carries
  <2>2. E <=> Exact(host', spoiled')  OBVIOUS
  <2> HIDE DEF E
  <2>3. ASSUME NEW t \in Threads, NEW age \in Ages, NEW backoff \in BOOLEAN, Admit(t, age, backoff)
        PROVE  E
    BY <2>1, <2>2, <2>3, RunExact
  <2>4. ASSUME NEW G \in SUBSET Threads, NEW rollback \in Rollbacks, NEW age \in Ages,
               NEW healthy \in BOOLEAN, FlushCycle(G, rollback, age, healthy)
        PROVE  E
    BY <2>1, <2>2, <2>4, FlushExact
  <2>5. ASSUME NEW t \in Threads, DropRebase(t) \/ Barrier(t) \/ Heal(t)  PROVE E
    BY <2>1, <2>2, <2>5, RunExact, DiskExact
  <2>6. ASSUME NEW S \in SUBSET Threads, Break(S)  PROVE E
    BY <2>1, <2>2, <2>6, DiskExact
  <2>7. ASSUME NEW x \in Requests, NEW t \in Threads, BeginFence(x, t)  PROVE E
    BY <2>1, <2>2, <2>7, BeginFenceExact
  <2>8. ASSUME NEW x \in Requests, NEW t \in Threads, NEW kind \in Mutations,
               RequestMutation(x, t, kind)
        PROVE  E
    BY <2>1, <2>2, <2>8, RequestExact
  <2>9. ASSUME NEW x \in Requests, Answer(x) \/ Expire(x)  PROVE E
    BY <2>1, <2>2, <2>9, AnswerExact, ExpireExact
  <2>10. ASSUME NEW keep \in Keeps, NEW late \in BOOLEAN, Continue(keep, late)  PROVE E
    BY <2>1, <2>2, <2>10, ContinueExact
  <2>11. ASSUME NEW x \in Requests, NEW keep \in Keeps, NEW late \in BOOLEAN, Resume(x, keep, late)
         PROVE  E
    BY <2>1, <2>2, <2>11, ResumeExact
  <2>12. ASSUME NEW t \in Threads, NEW keep \in Keeps, TruncateNow(t, keep)  PROVE E
    BY <2>1, <2>2, <2>12, CutExact
  <2>13. ASSUME NEW G \in SUBSET Threads, NEW rollback \in Rollbacks, CloseDatabase(G, rollback)
         PROVE  E
    BY <2>1, <2>2, <2>13, CloseExact
  <2>14. ASSUME Crash \/ Boot  PROVE E
    BY <2>1, <2>2, <2>14, CrashExact, BootExact
  <2>15. E
    BY <1>2, <2>3, <2>4, <2>5, <2>6, <2>7, <2>8, <2>9, <2>10, <2>11, <2>12, <2>13, <2>14
       DEF Next
  <2> QED  BY <2>2, <2>15
<1> QED  BY <1>1, <1>2

\* The inductive invariant: that of the log, and what readers may rely on.
ExactInv == LogInv /\ Exact(host, spoiled)

\* It holds initially,
LEMMA ExactInitially == Init => ExactInv
<1> SUFFICES ASSUME Init  PROVE ExactInv
  OBVIOUS
<1>1. \A x \in Requests : Exact1(host, spoiled, x)
  BY DEF Init, NoRequest, Exact1, IsFence
<1> QED  BY <1>1, LogInitially DEF ExactInv, Exact

\* and every step keeps it.
LEMMA ExactKept == ExactInv /\ [Next]_vars => ExactInv'
<1> SUFFICES ASSUME ExactInv, [Next]_vars  PROVE ExactInv'
  OBVIOUS
<1>1. LogInv /\ LogInv'  BY LogStepwise DEF ExactInv
<1>2. Sound(host) /\ Sound(host')  BY <1>1 DEF LogInv
<1>3. CASE Next
  <2>1. Exact(host', spoiled')  BY <1>2, <1>3, ExactStepwise DEF ExactInv
  <2> QED  BY <1>1, <2>1 DEF ExactInv
<1>4. CASE UNCHANGED vars
  <2>1. host' = host /\ spoiled' = spoiled  BY <1>4 DEF vars
  <2>2. Exact(host', spoiled')  BY <2>1 DEF ExactInv
  <2> QED  BY <1>1, <2>2 DEF ExactInv
<1> QED  BY <1>3, <1>4

\* A reader is served exactly the events accepted before its fence, unless its boundary was not
\* that of its thread while it waited or held it: flushes stop at the pin until it is released
\* (RuntimeFenceControl, runtimePersistenceFenceControl.ts).
THEOREM PinnedReads == Spec => []PinnedReadIsExact
<1>1. ExactInv => PinnedReadIsExact
  BY DEF ExactInv, Exact, Exact1, PinnedReadIsExact
<1> QED  BY ExactInitially, ExactKept, <1>1, PTL DEF Spec
=============================================================================

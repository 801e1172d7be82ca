------------------------- MODULE RuntimeWriteQueue -------------------------
(***************************************************************************)
(* The bounded write queue between the runtime events a host accepts and   *)
(* their rows in SQLite (host/db/runtimeWriteQueue.ts,                     *)
(* runtimeWriteQueueFlush.ts), with the per-thread access line of          *)
(* runtimeThreadAccessScheduler.ts that its pins and its mutations share.  *)
(*                                                                         *)
(* The host is one JavaScript thread and its operations call each other,   *)
(* so each is an operator from one state w of the pipeline to the next;    *)
(* the actions of RuntimePersistence compose them.  An event is its        *)
(* persistSeq.  A state has, per thread,                                   *)
(*                                                                         *)
(*   log, pending     rows written, events accepted and not yet written    *)
(*   last             the newest event accepted (lastPersistSeqForThread)  *)
(*   pin              flushes stop there, Unpinned is above every event    *)
(*   line             requests that hold or wait for the thread, FIFO      *)
(*                                                                         *)
(* and next (nextPersistSeq), alone (retryIndividually), failing (threads  *)
(* whose writes the disk refuses now), req and micro (below), freed        *)
(* (fence tokens released) and the fields of RuntimePersistence.           *)
(*                                                                         *)
(* A request is a fence (kind read) or a mutation of one thread; its pc is *)
(*   new -> waiting -> granted -> flushing                                 *)
(*   flushing -> reading -> read -> served (a fence) or done (a mutation)  *)
(* or cancelled, refused.  micro lists the requests whose continuation the *)
(* last step resolved: the event loop runs those before anything else.     *)
(***************************************************************************)
EXTENDS Integers, Sequences, SequencesExt, FiniteSets

CONSTANTS
    Threads,        \* chat threads
    Requests,       \* read fences and mutations
    None,           \* no thread
    MaxSeq,         \* bound: events ever accepted
    Chunk,          \* events one transaction writes for a thread
    ThreadCap,      \* events a thread may have pending
    GlobalCap,      \* events that may be pending altogether
    FenceWaiters,   \* fences that may queue behind the holder of a thread
    MutationWaiters \* mutations that may be in a thread's line

ASSUME QueueAssumption ==
    /\ None \notin Threads
    /\ {MaxSeq, Chunk, ThreadCap, GlobalCap} \subseteq Nat \ {0}
    /\ {FenceWaiters, MutationWaiters} \subseteq Nat
    /\ IsFiniteSet(Requests)

Unpinned == MaxSeq + 1
Least(a, b) == IF a <= b THEN a ELSE b

\* The elements of s that are in S, in their order.
Kept(s, S) ==
    LET f[n \in 0 .. Len(s)] ==
            IF n = 0 THEN <<>> ELSE IF s[n] \in S THEN Append(f[n - 1], s[n]) ELSE f[n - 1]
    IN f[Len(s)]

Mutations == {"truncate", "rebase", "delete", "acknowledge"}
Waiting == {"waiting", "granted"}
Unsettled == Waiting \cup {"cancelled", "flushing", "reading", "read"}
Pcs == Unsettled \cup {"new", "served", "done", "refused"}

-----------------------------------------------------------------------------
(* Writing what is pending.                                                *)

\* Fault: a flush does not stop at the pin of the thread.
DuePastPin(w, t, b) == Cardinality({i \in DOMAIN w.pending[t] : w.pending[t][i] <= b})

\* How many events of thread t a flush up to event b may write.
Due(w, t, b) == Cardinality({i \in DOMAIN w.pending[t] : w.pending[t][i] <= Least(b, w.pin[t])})

\* The first n[t] pending events of every thread t get their rows, in order.
Commit(w, n) ==
    [w EXCEPT !.log = [t \in Threads |-> @[t] \o SubSeq(w.pending[t], 1, n[t])],
              !.pending = [t \in Threads |-> SubSeq(@[t], n[t] + 1, Len(@[t]))]]

Only(t, n) == [u \in Threads |-> IF u = t THEN n ELSE 0]
CommitDue(w, t, b, most) == Commit(w, Only(t, Least(Due(w, t, b), most)))
Fails(w, t, b) == t \in w.failing /\ Due(w, t, b) > 0

\* flushThreadThrough: one chunk of one thread, retained when the write fails.
FlushChunk(w, t, b) == IF t \in w.failing THEN w ELSE CommitDue(w, t, b, Chunk)

Backlog(w) == {t \in Threads : w.pending[t] # <<>>}
Size(w) == Cardinality({p \in Threads \X (1 .. MaxSeq) : p[2] \in DOMAIN w.pending[p[1]]})
Older(w, t, u) == Head(w.pending[t]) <= Head(w.pending[u])
Oldest(w) == CHOOSE t \in Backlog(w) : \A u \in Backlog(w) : Older(w, t, u)

\* The threads a budgeted flush may visit: the budgets end it somewhere in the order of age.
Flushable(w) == {t \in Threads : Due(w, t, MaxSeq) > 0}
Selections(w) ==
    {G \in (SUBSET Flushable(w)) \ {{}} :
        \A t \in G : \A u \in Flushable(w) : Older(w, u, t) => u \in G}

CommitEach(w, G) ==
    Commit(w, [t \in Threads |-> IF t \in G THEN Least(Due(w, t, MaxSeq), Chunk) ELSE 0])

\* One thread after the other until a write fails.
Written(w, G) == {t \in G : \A u \in G : Older(w, u, t) => u \notin w.failing}
FlushAlone(w, G) ==
    LET v == CommitEach(w, Written(w, G))
    IN IF Written(w, G) = G THEN [v EXCEPT !.alone = FALSE] ELSE v

\* Fault: a failed group is taken for written.
FlushGroupLosing(w, G, rollback) ==
    IF G \cap w.failing = {} THEN CommitEach(w, G)
    ELSE [w EXCEPT !.pending = [t \in Threads |-> IF t \in G THEN <<>> ELSE @[t]]]

\* A group commits or fails as a whole.  Only a proven rollback lets its members be written
\* one by one, and if no time is left for that it sends the next cycle there.
Rollbacks == {"unproven", "retried", "late"}
FlushGroup(w, G, rollback) ==
    IF G \cap w.failing = {} THEN CommitEach(w, G)
    ELSE CASE rollback = "unproven" -> w
           [] rollback = "retried" -> FlushAlone([w EXCEPT !.alone = TRUE], G)
           [] rollback = "late" -> [w EXCEPT !.alone = TRUE]

FlushBudgeted(w, G, rollback) ==
    IF w.alone \/ Cardinality(G) = 1 THEN FlushAlone(w, G) ELSE FlushGroup(w, G, rollback)

-----------------------------------------------------------------------------
(* The line of a thread.                                                   *)

On(w, x) == w.req[x].on
IsFence(w, x) == w.req[x].kind = "read"
Stands(w, x) == w.req[x].on # None /\ x \in ToSet(w.line[On(w, x)])
At(w, x, pc) == [w EXCEPT !.req[x].pc = pc]
Wake(w, x) == [w EXCEPT !.micro = Append(@, x)]

\* promoteNext: whoever has come to the head is granted the thread.
Promote(w, t) ==
    IF w.line[t] # <<>> /\ w.req[Head(w.line[t])].pc = "waiting"
    THEN Wake(At(w, Head(w.line[t]), "granted"), Head(w.line[t]))
    ELSE w

\* A line without the requests in S, and those of them that were still waiting in it.
Others(w, t, S) == Kept(w.line[t], Requests \ S)
Waiters(w, t, S) == Kept(w.line[t], {x \in S : w.req[x].pc = "waiting"})
Cancel(w, S) ==
    [x \in Requests |-> IF x \in S THEN [w.req[x] EXCEPT !.pc = "cancelled"] ELSE w.req[x]]

\* Fault: requests that lose their place are not told.
EvictUntold(w, t, S) ==
    [w EXCEPT !.line[t] = Others(w, t, S), !.req = Cancel(w, ToSet(Waiters(w, t, S)))]

\* The requests in S leave the line of t; those still waiting learn that they were cancelled.
Evict(w, t, S) ==
    [w EXCEPT !.line[t] = Others(w, t, S), !.req = Cancel(w, ToSet(Waiters(w, t, S))),
              !.micro = @ \o Waiters(w, t, S)]

\* settle, settleMutation
Settle(w, x) == IF Stands(w, x) THEN Promote(Evict(w, On(w, x), {x}), On(w, x)) ELSE w

\* currentPin: the boundary of the first fence in the line.
FencePin(w, t) ==
    LET fences == Kept(w.line[t], {x \in Requests : IsFence(w, x)})
    IN IF fences = <<>> THEN Unpinned ELSE w.req[Head(fences)].through

\* releaseFence
Release(w, x) ==
    IF x \in w.freed THEN w
    ELSE LET v == Settle(w, x)
         IN [v EXCEPT !.freed = @ \cup {x}, !.pin[On(w, x)] = FencePin(v, On(w, x))]

\* Fault: expired readers keep the pin of their thread.
ReleaseExpiredFencesLeaking(w) == w

\* releaseExpiredFences: readers whose entry has expired give up their pin.
Expired(w) ==
    {x \in Requests : w.req[x].pc \in {"reading", "read"} /\ x \notin w.freed /\ ~Stands(w, x)}
ReleaseExpiredFences(w) ==
    [w EXCEPT !.freed = @ \cup Expired(w),
              !.pin = [t \in Threads |-> IF \E x \in Expired(w) : On(w, x) = t
                                         THEN FencePin(w, t) ELSE @[t]]]

\* preemptFences: admission takes the thread back from its readers.
FencesOf(w, t) == {x \in Requests : On(w, x) = t /\ IsFence(w, x) /\ w.req[x].pc \in Unsettled}
Preempt(w, t) ==
    LET v == [Evict(w, t, FencesOf(w, t)) EXCEPT !.freed = @ \cup FencesOf(w, t),
                                                 !.pin[t] = Unpinned]
    IN Promote(v, t)

\* discard: an applied rebase, deletion or acknowledgement supersedes what is pending.
Discard(w, t) ==
    [w EXCEPT !.pending[t] = <<>>, !.last[t] = 0, !.pin[t] = Unpinned]
=============================================================================

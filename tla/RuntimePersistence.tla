------------------------- MODULE RuntimePersistence -------------------------
(***************************************************************************)
(* The runtime persistence of a host: admission of canonical events, the   *)
(* flush cycle, read fences and mutations of a thread, the durable         *)
(* evidence of refused events, close, crash and the next boot              *)
(* (host/db/runtimePersistence*.ts, runtimeDurableGap*.ts), around the     *)
(* queue of RuntimeWriteQueue.                                             *)
(*                                                                         *)
(* A batch is its events, admitted one by one.  Time is a choice: an entry *)
(* of the line may expire, and the backlog may be old, whenever it exists. *)
(***************************************************************************)
EXTENDS RuntimeWriteQueue

CONSTANTS
    Kinds,          \* the kinds of requests made
    MaxOwed,        \* threads the reserve of unwritten evidence holds
    MaxFaults,      \* bound: times the disk starts to refuse a thread's writes
    MaxBoots        \* bound: boots of the host

ASSUME LimitsAssumption ==
    /\ Kinds \subseteq {"read"} \cup Mutations
    /\ MaxOwed \in Nat
    /\ MaxFaults \in Nat
    /\ MaxBoots \in Nat

VARIABLES
    host,           \* the database, the pipeline and its requests, see Hosts
    faults, boots,  \* how often a disk fault began, and boots so far
    spoiled         \* history: fences that stood in the line under another boundary

vars == <<host, faults, boots, spoiled>>

\* Beyond the fields RuntimeWriteQueue explains:
\*   gap, gone      durable gap rows; deleted threads
\*   tainted        contaminatedThreads
\*   owed, latched  evidence the disk has not taken, and the overflow of that reserve
\*   touched        threads whose touch committed in this boot
\*   refusing       the health state that refuses every admission
\*   phase          open, closing once admission is closed, down
\*   hole, inexact  history: threads that lost a refused event; fences that read other
\*                  than the events accepted before them
\* A request has its thread, its kind, the boundary it reads through, and (history) the
\* number of the first event accepted after it was made.
Request ==
    [on: Threads \cup {None}, kind: Kinds \cup {"none"}, through: 0 .. MaxSeq,
     mark: 0 .. Unpinned, pc: Pcs]
NoRequest == [on |-> None, kind |-> "none", through |-> 0, mark |-> 0, pc |-> "new"]

Init ==
    /\ host = [log |-> [t \in Threads |-> <<>>], pending |-> [t \in Threads |-> <<>>],
               last |-> [t \in Threads |-> 0], pin |-> [t \in Threads |-> Unpinned],
               line |-> [t \in Threads |-> <<>>], next |-> 1, alone |-> FALSE, failing |-> {},
               req |-> [x \in Requests |-> NoRequest], micro |-> <<>>, freed |-> {},
               gap |-> {}, gone |-> {}, tainted |-> {}, owed |-> {}, latched |-> FALSE,
               touched |-> {}, refusing |-> FALSE, phase |-> "open", hole |-> {}, inexact |-> {}]
    /\ faults = 0
    /\ boots = 1
    /\ spoiled = {}

Up(w) == w.phase # "down"
Idle == Up(host) /\ host.micro = <<>>      \* the event loop may take the next task

\* Every step of the host: its effect, and the readers it leaves in the line under another
\* boundary: a waiting one needs the queue to stop at or before its own, the holder at it.
Misaligned(w) ==
    {x \in Requests : /\ IsFence(w, x) /\ Stands(w, x)
                      /\ \/ w.req[x].pc \in Waiting /\ w.pin[On(w, x)] > w.req[x].through
                         \/ w.req[x].pc \in {"flushing", "reading"}
                            /\ w.pin[On(w, x)] # w.req[x].through}
Step(w) ==
    /\ host' = w
    /\ spoiled' = spoiled \cup Misaligned(w)

-----------------------------------------------------------------------------
(* Admission.                                                              *)

\* Fault: evidence the reserve has no room for is dropped.
RecordGapSilently(w, t) ==
    IF t \notin w.failing THEN [w EXCEPT !.gap = @ \cup {t}]
    ELSE IF Cardinality(w.owed) < MaxOwed THEN [w EXCEPT !.owed = @ \cup {t}]
    ELSE [w EXCEPT !.refusing = TRUE]

\* recordGap: a gap row, or an obligation to write one later.
RecordGap(w, t) ==
    IF t \notin w.failing THEN [w EXCEPT !.gap = @ \cup {t}]
    ELSE IF t \in w.owed \/ Cardinality(w.owed) < MaxOwed THEN [w EXCEPT !.owed = @ \cup {t}]
    ELSE [w EXCEPT !.latched = TRUE, !.refusing = TRUE]

\* markContaminated
Refuse(w, t) ==
    RecordGap([w EXCEPT !.tainted = @ \cup {t}, !.hole = @ \cup {t}], t)
RefuseAll(w, t) == [Refuse(w, t) EXCEPT !.refusing = TRUE]

\* relieveCapacity: commit one chunk of t now, taking it from its readers.
Relieve(w, t) == FlushChunk(IF w.pin[t] = Unpinned THEN w ELSE Preempt(w, t), t, MaxSeq)
RelieveOldest(w) == IF Backlog(w) = {} THEN w ELSE Relieve(w, Oldest(w))

FitsAll(w) == Size(w) < GlobalCap
FitsThread(w, t) == Len(w.pending[t]) < ThreadCap

\* enqueue, with the relief a full queue asks for; backoff: the disk is not retried yet.
MakeRoom(w, t, backoff) ==
    LET v == IF FitsAll(w) \/ backoff THEN w ELSE RelieveOldest(w)
    IN IF ~FitsAll(v) \/ FitsThread(v, t) \/ backoff THEN v ELSE Relieve(v, t)

Accept(w, t) ==
    [w EXCEPT !.pending[t] = Append(@, w.next), !.last[t] = w.next, !.next = @ + 1]

\* A queue left at its bound is relieved at once, else every thread is refused.
Settled(w, backoff) ==
    LET v == IF FitsAll(w) \/ backoff THEN w ELSE RelieveOldest(w)
    IN IF FitsAll(v) THEN v ELSE [v EXCEPT !.refusing = TRUE]

Enqueue(w, t, backoff) ==
    LET v == MakeRoom(w, t, backoff)
    IN IF ~FitsAll(v) THEN RefuseAll(v, t)
       ELSE IF ~FitsThread(v, t) THEN Refuse(v, t)
       ELSE Settled(Accept(v, t), backoff)

Aged(w, age, backoff) ==
    IF age = "young" \/ backoff \/ w.phase # "open" THEN w ELSE RelieveOldest(w)

\* admit: the checks in their order, then the queue.
Admit(t, age, backoff) ==
    /\ Idle
    /\ host.next <= MaxSeq
    /\ backoff => host.failing # {}
    /\ age # "young" => Backlog(host) # {}
    /\ LET w == Aged(host, age, backoff)
       IN Step(IF w.phase # "open" THEN Refuse(w, t)
               ELSE IF t \in w.tainted THEN RecordGap(w, t)
               ELSE IF age = "old" /\ Backlog(w) # {} THEN RefuseAll(w, t)
               ELSE IF t \in w.gap THEN Refuse(w, t)
               ELSE IF t \in w.gone THEN w
               ELSE IF t \notin w.touched /\ t \in w.failing THEN RefuseAll(w, t)
               ELSE LET v == [w EXCEPT !.touched = @ \cup {t}]
                    IN IF w.refusing THEN Refuse(v, t) ELSE Enqueue(v, t, backoff))
    /\ UNCHANGED <<faults, boots>>

\* markDroppedRebase: a reset that never applied is a gap although no event was refused.
DropRebase(t) ==
    /\ Idle
    /\ t \notin host.gone
    /\ Step(Refuse(host, t))
    /\ UNCHANGED <<faults, boots>>

\* runFlushCycle; healthy: the refusing state has outlived its cause.
FlushCycle(G, rollback, age, healthy) ==
    /\ Idle /\ host.phase = "open"
    /\ age # "young" => Backlog(host) # {}
    /\ healthy => host.refusing /\ host.failing = {}
    /\ rollback # "unproven" => G \cap host.failing # {}
    /\ LET u == ReleaseExpiredFences(host)
           v == Aged([u EXCEPT !.refusing = @ /\ ~healthy], age, FALSE)
           w == [v EXCEPT !.refusing = @ \/ (age = "old" /\ Backlog(v) # {})]
       IN /\ IF Flushable(w) = {} THEN G = {} ELSE G \in Selections(w)
          /\ Step(IF G = {} THEN w ELSE FlushBudgeted(w, G, rollback))
    /\ UNCHANGED <<faults, boots>>

\* barrier: a reader or writer without a fence commits what its thread's pin allows.
Barrier(t) ==
    /\ Idle
    /\ t \notin host.tainted \cup host.gap \cup host.failing
    /\ Due(host, t, MaxSeq) > 0
    /\ Step(CommitDue(host, t, MaxSeq, MaxSeq))
    /\ UNCHANGED <<faults, boots>>

-----------------------------------------------------------------------------
(* Fences and mutations.                                                   *)

\* getContamination: a gap row found in the database is remembered.
Blocked(w, t) == t \in w.tainted \cup w.gap
Learn(w, t) == IF t \in w.gap THEN [w EXCEPT !.tainted = @ \cup {t}] ELSE w

Queued(w, t, S) ==
    Cardinality({x \in ToSet(w.line[t]) : w.req[x].pc = "waiting" /\ w.req[x].kind \in S})
InLine(w, t, S) == Cardinality({x \in ToSet(w.line[t]) : w.req[x].kind \in S})

\* A request joins the line; at its head it continues in this turn.
New(w, t, kind, pc) == [on |-> t, kind |-> kind, through |-> w.last[t],
                       mark |-> IF kind = "read" THEN w.next ELSE 0, pc |-> pc]
Join(w, x, t, kind) ==
    [w EXCEPT !.req[x] = New(w, t, kind, "waiting"), !.line[t] = Append(@, x)]
Reject(w, x, t, kind) == [w EXCEPT !.req[x] = New(w, t, kind, "refused")]

\* beginFence pins the thread at the earliest fence; flushFence starts in the same turn.
BeginFence(x, t) ==
    /\ Idle
    /\ host.req[x].pc = "new" /\ "read" \in Kinds
    /\ t \notin host.gone
    /\ LET w == Join([host EXCEPT !.pin[t] = Least(@, host.last[t])], x, t, "read")
           v == ReleaseExpiredFences(host)
       IN Step(IF Queued(host, t, {"read"}) >= FenceWaiters THEN Reject(host, x, t, "read")
               ELSE IF Blocked(host, t) THEN
                   [Reject(Learn(v, t), x, t, "read") EXCEPT !.pin[t] = FencePin(v, t)]
               ELSE Promote(ReleaseExpiredFences(w), t))
    /\ UNCHANGED <<faults, boots>>

\* One round of flushFence: a chunk of the prefix; once it is committed the reader is sent
\* to its worker.  late: the deadline of the fence has passed.
FenceRound(w, x, late) ==
    LET t == On(w, x)
        b == w.req[x].through
        v == FlushChunk(w, t, b)
    IN IF ~Stands(w, x) \/ late \/ Fails(w, t, b) THEN At(Release(w, x), x, "refused")
       ELSE IF Blocked(w, t) THEN At(Release(Learn(w, t), x), x, "refused")
       ELSE At(v, x, IF Due(v, t, b) > 0 THEN "flushing" ELSE "reading")

\* The worker reads the database from its own thread.
Expected(w, x) ==
    Kept(w.log[On(w, x)] \o w.pending[On(w, x)], 1 .. w.req[x].mark - 1)
WorkerReads(x) ==
    /\ Up(host)
    /\ host.req[x].pc = "reading"
    /\ Step([At(host, x, "read") EXCEPT
                !.inexact = IF host.log[On(host, x)] = Expected(host, x) THEN @ ELSE @ \cup {x}])
    /\ UNCHANGED <<faults, boots>>

\* Fault: the thread is not looked at again after the read.
AnswerUnchecked(x) ==
    /\ Idle
    /\ host.req[x].pc = "read"
    /\ Step(At(Release(host, x), x,
               IF Stands(host, x) /\ x \notin host.freed THEN "served" ELSE "refused"))
    /\ UNCHANGED <<faults, boots>>

\* readFencedAsync after its await.
Answer(x) ==
    /\ Idle
    /\ host.req[x].pc = "read"
    /\ LET t == On(host, x)
           ok == Stands(host, x) /\ x \notin host.freed /\ ~Blocked(host, t)
       IN Step(At(Release(Learn(host, t), x), x, IF ok THEN "served" ELSE "refused"))
    /\ UNCHANGED <<faults, boots>>

RequestMutation(x, t, kind) ==
    /\ Idle
    /\ host.req[x].pc = "new" /\ kind \in Kinds \cap Mutations
    /\ t \notin host.gone
    /\ Step(IF InLine(host, t, Mutations) >= MutationWaiters THEN Reject(host, x, t, kind)
            ELSE Promote(Join(host, x, t, kind), t))
    /\ UNCHANGED <<faults, boots>>

\* The operation has succeeded: what it supersedes is dropped with the evidence it repairs.
Supersede(w, t) ==
    [Discard(w, t) EXCEPT !.tainted = @ \ {t}, !.owed = @ \ {t}, !.gap = @ \ {t},
                          !.touched = @ \ {t}, !.hole = @ \ {t}]

Finish(w, x, pc) == At(Settle(w, x), x, pc)

\* The synchronous operation of mutation x; keep: the rows a truncation keeps.
Apply(w, x, keep) ==
    LET t == On(w, x)
        kind == w.req[x].kind
    IN IF t \in w.failing \/ (kind = "acknowledge" /\ t \notin w.gap) THEN Finish(w, x, "refused")
       ELSE Finish(CASE kind = "truncate" -> [w EXCEPT !.log[t] = SubSeq(@, 1, Least(keep, Len(@)))]
                     [] kind = "rebase" -> [Supersede(w, t) EXCEPT !.log[t] = <<>>]
                     [] kind = "delete" ->
                            [Supersede(w, t) EXCEPT !.log[t] = <<>>, !.gone = @ \cup {t}]
                     [] OTHER -> Supersede(w, t),
                   x, "done")

\* One round of flushPrefix, and the operation once the prefix is committed.
MutationRound(w, x, keep, late) ==
    LET t == On(w, x)
        v == FlushChunk(w, t, MaxSeq)
    IN IF Blocked(w, t) THEN Finish(Learn(w, t), x, "refused")
       ELSE IF Fails(w, t, MaxSeq) THEN Finish(w, x, "refused")
       ELSE IF Due(v, t, MaxSeq) = 0 THEN Apply(v, x, keep)
       ELSE IF late THEN Finish(v, x, "refused")
       ELSE At(v, x, "flushing")

\* executeMutation: a deletion preempts the readers; only a clean thread is flushed first.
MutationStart(w, x, keep, late) ==
    LET t == On(w, x)
    IN CASE w.req[x].kind = "delete" ->
                Apply(Evict(w, t, {y \in ToSet(w.line[t]) : IsFence(w, y)}), x, keep)
         [] w.req[x].kind = "acknowledge" -> Apply(Learn(w, t), x, keep)
         [] w.req[x].kind = "rebase" /\ Blocked(w, t) -> Apply(Learn(w, t), x, keep)
         [] OTHER -> MutationRound(w, x, keep, late)

\* The rows a truncation may keep.
Cuts(w, x) ==
    IF w.req[x].kind = "truncate" THEN 0 .. Len(w.log[On(w, x)]) + Len(w.pending[On(w, x)])
    ELSE {0}

\* The event loop runs the continuations the last step resolved.
Continue(keep, late) ==
    /\ Up(host)
    /\ host.micro # <<>>
    /\ LET x == Head(host.micro)
           w == [host EXCEPT !.micro = Tail(@)]
       IN /\ keep \in Cuts(w, x)
          /\ Step(IF w.req[x].pc = "cancelled" THEN
                      At(IF IsFence(w, x) THEN Release(w, x) ELSE w, x, "refused")
                  ELSE IF IsFence(w, x) THEN FenceRound(w, x, late)
                  ELSE MutationStart(w, x, keep, late))
    /\ UNCHANGED <<faults, boots>>

\* The yield between two chunks is over.
Resume(x, keep, late) ==
    /\ Idle
    /\ host.req[x].pc = "flushing"
    /\ keep \in Cuts(host, x)
    /\ Step(IF IsFence(host, x) THEN FenceRound(host, x, late)
            ELSE MutationRound(host, x, keep, late))
    /\ UNCHANGED <<faults, boots>>

\* expire: an entry of the line has outlived its deadline, whatever its owner is doing.
Expire(x) ==
    /\ Idle
    /\ Stands(host, x)
    /\ Step(Settle(host, x))
    /\ UNCHANGED <<faults, boots>>

\* tryRunMutationSync, the checkpoint revert: all of it in one turn or not at all.
TruncateNow(t, keep) ==
    /\ Idle
    /\ "truncate" \in Kinds
    /\ host.line[t] = <<>>
    /\ ~Blocked(host, t) /\ t \notin host.failing
    /\ LET w == CommitDue(host, t, MaxSeq, MaxSeq)
       IN /\ keep \in 0 .. Len(w.log[t])
          /\ Step([w EXCEPT !.log[t] = SubSeq(@, 1, keep)])
    /\ UNCHANGED <<faults, boots>>

-----------------------------------------------------------------------------
(* Close, crash and boot; the disk.                                        *)

\* cancelActiveFences: every line is disposed, nothing is promoted.
CancelActive(w) ==
    LET live == {x \in Requests : IsFence(w, x) /\ w.req[x].pc \in Unsettled /\ x \notin w.freed}
        told == {x \in Requests : w.req[x].pc = "waiting"}
    IN [w EXCEPT !.freed = @ \cup live,
                 !.pin = [t \in Threads |-> IF \E x \in live : On(w, x) = t THEN Unpinned ELSE @[t]],
                 !.line = [t \in Threads |-> <<>>],
                 !.micro = SetToSeq(told),
                 !.req = Cancel(w, told)]

\* flushPendingGaps
FlushOwed(w) == [w EXCEPT !.gap = @ \cup (w.owed \ w.failing), !.owed = @ \cap w.failing]

\* What a process leaves behind: the database.
Exit(w) ==
    [w EXCEPT !.phase = "down", !.pending = [t \in Threads |-> <<>>], !.last = [t \in Threads |-> 0],
              !.pin = [t \in Threads |-> Unpinned], !.line = [t \in Threads |-> <<>>],
              !.alone = FALSE, !.micro = <<>>, !.freed = {}, !.tainted = {}, !.owed = {},
              !.latched = FALSE, !.touched = {}, !.refusing = FALSE,
              !.req = [x \in Requests |-> IF @[x].pc \in Unsettled
                                          THEN [@[x] EXCEPT !.pc = "refused"] ELSE @[x]]]

\* closeDatabase: drain, write the evidence, and only then let go of the handle.  A drain
\* ends at the first failed batch G.
CloseDatabase(G, rollback) ==
    /\ Idle
    /\ LET w == CancelActive([host EXCEPT !.phase = "closing"])
           drained == Commit(w, [t \in Threads |-> Due(w, t, MaxSeq)])
       IN IF Backlog(w) \cap w.failing # {} THEN
              /\ G \in Selections(w) /\ G \cap w.failing # {}
              /\ Step(FlushBudgeted(w, G, rollback))
          ELSE
              /\ G = {} /\ rollback = "unproven"
              /\ LET v == FlushOwed(drained)
                 IN Step(IF v.owed = {} /\ ~v.latched THEN Exit(v) ELSE v)
    /\ UNCHANGED <<faults, boots>>

\* Killed: what the database does not hold is lost, the evidence still owed included.
Crash ==
    /\ Up(host)
    /\ Step([Exit(host) EXCEPT !.hole = @ \cap host.gap])
    /\ UNCHANGED <<faults, boots>>

Boot ==
    /\ ~Up(host) /\ boots < MaxBoots
    /\ boots' = boots + 1
    /\ Step([host EXCEPT !.phase = "open"])
    /\ UNCHANGED faults

\* The disk refuses the writes of some threads, or of all, for a while.
Break(S) ==
    /\ Idle /\ host.failing = {} /\ S # {} /\ faults < MaxFaults
    /\ faults' = faults + 1
    /\ Step([host EXCEPT !.failing = S])
    /\ UNCHANGED boots
Heal(t) ==
    /\ t \in host.failing
    /\ Step([host EXCEPT !.failing = @ \ {t}])
    /\ UNCHANGED <<faults, boots>>

Keeps == 0 .. MaxSeq
Ages == {"young", "aging", "old"}

Next ==
    \/ \E t \in Threads, age \in Ages, backoff \in BOOLEAN : Admit(t, age, backoff)
    \/ \E G \in SUBSET Threads, rollback \in Rollbacks, age \in Ages, healthy \in BOOLEAN :
        FlushCycle(G, rollback, age, healthy)
    \/ \E t \in Threads : DropRebase(t) \/ Barrier(t) \/ Heal(t)
    \/ \E S \in SUBSET Threads : Break(S)
    \/ \E x \in Requests, t \in Threads : BeginFence(x, t)
    \/ \E x \in Requests, t \in Threads, kind \in Mutations : RequestMutation(x, t, kind)
    \/ \E x \in Requests : WorkerReads(x) \/ Answer(x) \/ Expire(x)
    \/ \E keep \in Keeps, late \in BOOLEAN : Continue(keep, late)
    \/ \E x \in Requests, keep \in Keeps, late \in BOOLEAN : Resume(x, keep, late)
    \/ \E t \in Threads, keep \in Keeps : TruncateNow(t, keep)
    \/ \E G \in SUBSET Threads, rollback \in Rollbacks : CloseDatabase(G, rollback)
    \/ Crash
    \/ Boot

Spec == Init /\ [][Next]_vars

-----------------------------------------------------------------------------
(* Properties.                                                             *)

\* The state has the shape the operators above expect: every request of a line is one
\* of this thread that was made and is not settled, and nothing pending is numbered
\* beyond what was accepted.
Hosts ==
    [log: [Threads -> Seq(1 .. MaxSeq)], pending: [Threads -> Seq(1 .. MaxSeq)],
     last: [Threads -> 0 .. MaxSeq], pin: [Threads -> 0 .. Unpinned],
     line: [Threads -> Seq(Requests)], next: 1 .. Unpinned, alone: BOOLEAN,
     failing: SUBSET Threads, req: [Requests -> Request], micro: Seq(Requests),
     freed: SUBSET Requests, gap: SUBSET Threads, gone: SUBSET Threads,
     tainted: SUBSET Threads, owed: SUBSET Threads, latched: BOOLEAN,
     touched: SUBSET Threads, refusing: BOOLEAN, phase: {"open", "closing", "down"},
     hole: SUBSET Threads, inexact: SUBSET Requests]
InOrder(q) == \A i, j \in DOMAIN q : i < j => q[i] < q[j]
TypeOK ==
    /\ host \in Hosts
    /\ \A t \in Threads :
        /\ \A x \in ToSet(host.line[t]) : On(host, x) = t /\ host.req[x].pc \in Unsettled
        /\ InOrder(host.log[t] \o host.pending[t]) /\ IsInjective(host.line[t])
        /\ ToSet(host.pending[t]) \subseteq 1 .. host.last[t]
    /\ faults \in 0 .. MaxFaults /\ boots \in 0 .. MaxBoots + 1
    /\ spoiled \subseteq Requests

\* Group commits, proven rollbacks, unproven failures, fences, relief and mutations never
\* lose, repeat or reorder an accepted event; only a death of the process loses unwritten
\* ones without a gap row that says so, and a close writes them all: the rows, the queue
\* and the gap rows together are the abstract log.
Durable == INSTANCE DurableLog WITH
    accepted <- [t \in Threads |-> host.log[t] \o host.pending[t]],
    durable <- [t \in Threads |-> Len(host.log[t])],
    gaps <- host.gap,
    running <- Up(host)
ImplementsDurableLog == Durable!Spec

\* A reader is served exactly the events accepted before its fence, none missing and none
\* newer, if the queue stopped at or before its boundary while it waited and at it while it
\* held the thread (RuntimeFenceControl: flushes stop at the pin until it is released).
PinnedReadIsExact ==
    \A x \in Requests : host.req[x].pc = "served" /\ x \in host.inexact => x \in spoiled

\* Any served reader is: "no yielded gap can admit an event that content misses while
\* the cursor already covers it" (host/remote/server/snapshots.ts). The code does not
\* keep this promise once a reader outlives its hold: the boundary it leaves on the queue
\* is not the one of the reader promoted in its place.
ContentMatchesCursor ==
    \A x \in Requests : host.req[x].pc = "served" => x \notin host.inexact

\* A refused event is never forgotten while the process can still tell: there is a gap
\* row, or an obligation, or the reserve of obligations has overflowed; and a clean close
\* happens only once it is durable and nothing accepted is unwritten.
EvidenceIsKept ==
    /\ Up(host) => \A t \in host.hole : t \in host.gap \cup host.owed \/ host.latched
    /\ ~Up(host) => host.hole \subseteq host.gap

\* No reader is ever served a thread with a refused event as complete, whichever boot
\* refused it.
NoGapServed ==
    [][\A x \in Requests :
          host.req[x].pc # "served" /\ host'.req[x].pc = "served" => On(host, x) \notin host.hole]_vars

\* The event loop keeps running: the flush timer fires, promises continue, yields and
\* deadlines pass, and a disk fault ends.  Each conjunct of Fairness is the weak fairness of
\* one of these with its ENABLED written out: TLC evaluates the ENABLED of operators nested
\* as deep as these far too slowly.
FlushTimer == \E G \in SUBSET Threads : FlushCycle(G, "unproven", "young", FALSE)
Microtask == \E keep \in Keeps, late \in BOOLEAN : Continue(keep, late)
YieldEnds == \E x \in Requests, keep \in Keeps, late \in BOOLEAN : Resume(x, keep, late)
Deadline == \E x \in Requests : Expire(x)
FaultEnds == \E t \in Threads : Heal(t)

ToFlush == Idle /\ host.phase = "open" /\ host.failing = {}
                /\ (Flushable(host) # {} \/ ReleaseExpiredFences(host) # host)
ToContinue == Up(host) /\ host.micro # <<>>
ToResume == Idle /\ (\E x \in Requests : host.req[x].pc = "flushing")
ToExpire == Idle /\ (\E x \in Requests : Stands(host, x))
ToHeal == host.failing # {}

Fairness ==
    /\ []<>(~ToFlush) \/ []<><<FlushTimer>>_vars
    /\ []<>(~ToContinue) \/ []<><<Microtask>>_vars
    /\ []<>(~ToResume) \/ []<><<YieldEnds>>_vars
    /\ []<>(~ToExpire) \/ []<><<Deadline>>_vars
    /\ []<>(~ToHeal) \/ []<><<FaultEnds>>_vars
FairSpec == Spec /\ Fairness

\* An accepted event is written or superseded in the end, although its readers may never
\* answer: timers free the thread and the flush cycle lifts their pins.
AcceptedGetsDurable ==
    \A t \in Threads : (host.pending[t] # <<>> /\ host.phase = "open")
                          ~> (host.pending[t] = <<>> \/ host.phase # "open")

\* Every mutation ends, and every reader is sent to its worker or refused.
RequestsSettle ==
    \A x \in Requests : (host.req[x].pc \in Waiting \cup {"cancelled", "flushing"})
                           ~> (host.req[x].pc \notin Waiting \cup {"cancelled", "flushing"})
=============================================================================

----------------------------- MODULE EventStream -----------------------------
(***************************************************************************)
(* The replayable event stream between a remote access server and one      *)
(* paired client: src/host/remote (publishing, the replay buffer, the      *)
(* replay pump, resume verification) and src/renderer/state/remoteServers  *)
(* (the socket session, its resume watermark, the history recovery of one  *)
(* thread the client has open).                                            *)
(*                                                                         *)
(* An event is a pair <<e, n>>: the n-th event of server instance e.  Every *)
(* event belongs to the open thread; it is persisted before it is          *)
(* published, so a history read sees every event published so far, those   *)
(* of earlier instances included.                                          *)
(***************************************************************************)
EXTENDS Naturals, Sequences

CONSTANTS
    MaxEpoch,        \* bound: server instances
    MaxSeq,          \* bound: events one instance publishes
    BufferLimit,     \* EVENT_BUFFER_LIMIT
    RetryBudget,     \* attempts a failed recovery gets before it is shown as failed
    MaxTroubles      \* bound: undeliverable events, lost sockets and frames, unreadable
                     \* frames, failed history reads and unrelated HTTP reads, together

ASSUME EventStreamAssumption ==
    /\ MaxEpoch \in Nat \ {0}
    /\ MaxSeq \in Nat
    /\ BufferLimit \in Nat \ {0}
    /\ RetryBudget \in Nat
    /\ MaxTroubles \in Nat

VARIABLES
    \* the server
    epoch,       \* its instance; the opaque eventStreamEpoch
    heads,       \* heads[e]: the sequence number instance e has reached
    buffer,      \* eventBuffer: the sequence numbers retained for replay
    pump,        \* the replay pump's cursor
    \* the socket
    conn,        \* "none", "lost" (none, and resyncRequired), "dialing", "replaying", "live"
    channel,     \* frames sent and not yet routed by the client, oldest first
    \* the client
    dial,        \* the resume cursor this socket declared in its upgrade
    floor,       \* socketSequenceFloor
    resumeSeq,   \* the resume watermark (HostSession.resumeSeq)
    resumeEpoch, \* the epoch it is bound to; 0 is undefined
    fence,       \* HostSession.resumeFence
    rec,         \* the open thread's history recovery
    shown,       \* the events its transcript shows
    queue,       \* the events its blocked queue holds behind the next baseline
    shell,       \* an HTTP read of other content, in flight
    \* what the properties need to know
    leapt,       \* events passed over: below a watermark an HTTP read had raised,
                 \* or of an instance that ended before the client had bound it
    swallowed,   \* events of a re-baseline that a recovery under way absorbed
    unreadable,  \* events of the running instance whose frame could not be decoded
    doubled,     \* shown events applied twice, though no history read explains it
    baseline,    \* the last history read installed, until a newer one is due
    troubles     \* how many so far

serverVars == <<epoch, heads, buffer>>
clientVars == <<resumeSeq, resumeEpoch, fence>>
threadVars == <<rec, shown, queue, doubled, baseline>>
ghostVars  == <<leapt, swallowed, unreadable>>
vars == <<serverVars, pump, conn, channel, dial, floor, clientVars, threadVars,
          shell, ghostVars, troubles>>

Epochs == 1 .. MaxEpoch
Events == Epochs \X (1 .. MaxSeq)
Frame  == [kind : {"ready", "resync"}, seq : 0 .. MaxSeq] \cup [kind : {"event"}, seq : 1 .. MaxSeq]
Linked == {"replaying", "live"}

seq == heads[epoch]

Published   == {ev \in Events : ev[2] <= heads[ev[1]]}
UpTo(e, n)  == {ev \in Published : ev[1] < e \/ (ev[1] = e /\ ev[2] <= n)}
Read        == UpTo(rec.epoch, rec.seq)      \* what the recovery's answer contains
Larger(a, b) == IF a > b THEN a ELSE b

ShellReads    == [at : {"idle", "read"}, fence : Nat, epoch : 0 .. MaxEpoch, seq : 0 .. MaxSeq]
Recovery == [at : {"idle", "reading", "pinned", "retry", "unread"}, fence : Nat,
             epoch : 0 .. MaxEpoch, seq : 0 .. MaxSeq, tries : Nat]
Cursor   == [cursor : 0 .. MaxSeq, epoch : 0 .. MaxEpoch]

ServerTypeOK ==
    /\ epoch \in Epochs
    /\ heads \in [Epochs -> 0 .. MaxSeq]
    /\ buffer \in Seq(1 .. MaxSeq)
    /\ Len(buffer) <= BufferLimit
    /\ pump \in 0 .. MaxSeq
    /\ troubles \in 0 .. MaxTroubles

SocketTypeOK ==
    /\ conn \in {"none", "lost", "dialing"} \cup Linked
    /\ channel \in Seq(Frame)
    /\ dial \in Cursor
    /\ floor \in 0 .. MaxSeq

ClientTypeOK ==
    /\ resumeSeq \in 0 .. MaxSeq
    /\ resumeEpoch \in 0 .. MaxEpoch
    /\ fence \in Nat
    /\ rec \in Recovery
    /\ shell \in ShellReads
    /\ baseline \in [epoch : 0 .. MaxEpoch, seq : 0 .. MaxSeq]

ThreadTypeOK ==
    /\ shown \subseteq Events
    /\ queue \subseteq Events
    /\ leapt \subseteq Events
    /\ swallowed \subseteq Events
    /\ unreadable \subseteq Events
    /\ doubled \subseteq Events

TypeOK == ServerTypeOK /\ SocketTypeOK /\ ClientTypeOK /\ ThreadTypeOK

(***************************************************************************)
(* Pairing installs a snapshot and binds its epoch; a session restored      *)
(* without one starts unbound, with the open thread still to be read.      *)
(***************************************************************************)
Init ==
    /\ epoch = 1
    /\ heads = [e \in Epochs |-> 0]
    /\ buffer = << >>
    /\ pump = 0
    /\ conn = "none"
    /\ channel = << >>
    /\ dial = [cursor |-> 0, epoch |-> 0]
    /\ floor = 0
    /\ resumeSeq = 0
    /\ resumeEpoch \in {0, 1}
    /\ fence = 0
    /\ rec = [at |-> IF resumeEpoch = 0 THEN "unread" ELSE "idle",
              fence |-> 0, epoch |-> 0, seq |-> 0, tries |-> 0]
    /\ shown = {}
    /\ queue = {}
    /\ shell = [at |-> "idle", fence |-> 0, epoch |-> 0, seq |-> 0]
    /\ leapt = {}
    /\ swallowed = {}
    /\ unreadable = {}
    /\ doubled = {}
    /\ baseline = [epoch |-> 0, seq |-> 0]
    /\ troubles = 0

Trouble == troubles < MaxTroubles /\ troubles' = troubles + 1

(***************************************************************************)
(* The server.                                                             *)
(***************************************************************************)
Send(f)   == channel' = Append(channel, f)
FrameOf(k, n) == [kind |-> k, seq |-> n]

\* A socket ends with everything both sides keep for it.
Drop(c) ==
    /\ conn' = c
    /\ channel' = << >>
    /\ pump' = 0
    /\ dial' = [cursor |-> 0, epoch |-> 0]
    /\ floor' = 0

Retain(s) == IF Len(s) > BufferLimit THEN Tail(s) ELSE s

\* Fault: live fan-out reaches a client whose replay is still running.
FanOutToAll(n) ==
    IF conn \in Linked THEN Send(FrameOf("event", n)) ELSE UNCHANGED channel

\* Live fan-out passes over a client whose replay has not caught up.
FanOut(n) ==
    IF conn = "live" THEN Send(FrameOf("event", n)) ELSE UNCHANGED channel

Publish ==
    /\ seq < MaxSeq
    /\ heads' = [heads EXCEPT ![epoch] = @ + 1]
    /\ buffer' = Retain(Append(buffer, seq + 1))
    /\ FanOut(seq + 1)
    /\ UNCHANGED <<epoch, pump, conn, dial, floor, clientVars, threadVars, shell, ghostVars, troubles>>

\* An event no socket can carry takes a number and never enters the buffer;
\* every client, caught up or not, is told to read a fresh snapshot.
PublishUndeliverable ==
    /\ seq < MaxSeq
    /\ Trouble
    /\ heads' = [heads EXCEPT ![epoch] = @ + 1]
    /\ IF conn \in Linked
       THEN conn' = "live" /\ pump' = 0 /\ Send(FrameOf("resync", seq + 1))
       ELSE UNCHANGED <<conn, pump, channel>>
    /\ UNCHANGED <<epoch, buffer, dial, floor, clientVars, threadVars, shell, ghostVars>>

\* Fault: a cursor is taken for one of this instance whatever it names.
VerifiedUnread == TRUE

\* A cursor is verified when it is zero or names this instance.
Verified == dial.cursor = 0 \/ dial.epoch = epoch

Accept ==
    /\ conn = "dialing"
    /\ LET ready == Append(channel, FrameOf("ready", seq)) IN
       \/ /\ dial.cursor > seq \/ ~Verified
          /\ conn' = "live"
          /\ channel' = Append(ready, FrameOf("resync", seq))
       \/ /\ dial.cursor <= seq /\ Verified
          /\ conn' = IF dial.cursor = seq THEN "live" ELSE "replaying"
          /\ channel' = ready
    /\ pump' = IF conn' = "replaying" THEN dial.cursor ELSE 0
    /\ UNCHANGED <<serverVars, dial, floor, clientVars, threadVars, shell, ghostVars, troubles>>

\* The pump seeks by index and then checks that it found the next number.
CanReplay(c) ==
    /\ buffer # << >>
    /\ LET i == c + 2 - Head(buffer) IN i \in DOMAIN buffer /\ buffer[i] = c + 1

PumpSend ==
    /\ conn = "replaying"
    /\ pump # seq
    /\ CanReplay(pump)
    /\ Send(FrameOf("event", pump + 1))
    /\ pump' = pump + 1
    /\ UNCHANGED <<serverVars, conn, dial, floor, clientVars, threadVars, shell, ghostVars, troubles>>

PumpExpired ==
    /\ conn = "replaying"
    /\ pump # seq
    /\ ~CanReplay(pump)
    /\ conn' = "live"
    /\ pump' = 0
    /\ Send(FrameOf("resync", seq))
    /\ UNCHANGED <<serverVars, dial, floor, clientVars, threadVars, shell, ghostVars, troubles>>

PumpDone ==
    /\ conn = "replaying"
    /\ pump = seq
    /\ conn' = "live"
    /\ pump' = 0
    /\ UNCHANGED <<serverVars, channel, dial, floor, clientVars, threadVars, shell, ghostVars, troubles>>

\* The sequence space, the buffer and every socket and ticket live in memory.
\* Frames the client has not routed by then are lost with the socket.
Restart ==
    /\ epoch < MaxEpoch
    /\ epoch' = epoch + 1
    /\ buffer' = << >>
    /\ Drop(IF conn = "lost" THEN "lost" ELSE "none")
    /\ unreadable' = {}
    /\ UNCHANGED <<heads, clientVars, threadVars, shell, leapt, swallowed, troubles>>

(***************************************************************************)
(* The recovery of the open thread: one authoritative history read at a    *)
(* time, its delta queue blocked behind it.                                *)
(***************************************************************************)
InFlight == rec.at \in {"reading", "pinned"}

\* An attempt that has no answer yet.
Attempt(at, f, tries) == [at |-> at, fence |-> f, epoch |-> 0, seq |-> 0, tries |-> tries]

\* Fault: a recovery that failed still counts as under way.
RecoveringStuck(f) == IF rec.at # "idle" THEN rec ELSE Attempt("reading", f, rec.tries)

\* recoverRuntimeHistory: a no-op while a recovery is under way.
Recovering(f) == IF InFlight THEN rec ELSE Attempt("reading", f, rec.tries)

\* Whether a read that is under way or owed is bound to contain an event.
Awaited(ev) ==
    \/ rec.at \in {"reading", "retry", "unread"}
    \/ rec.at = "pinned" /\ (ev \in Read \/ rec.fence # fence)

\* What the client counts as seen, though nothing shows, holds or awaits it.
Forgone ==
    {ev \in Events : /\ resumeEpoch = epoch /\ ev[1] = epoch /\ ev[2] <= resumeSeq
                     /\ ev \notin shown \cup queue
                     /\ ~Awaited(ev)}

Pin ==
    /\ rec.at = "reading"
    /\ rec' = [rec EXCEPT !.at = "pinned", !.epoch = epoch, !.seq = seq]
    /\ UNCHANGED <<serverVars, pump, conn, channel, dial, floor, clientVars,
                   shown, queue, doubled, baseline, shell, ghostVars, troubles>>

\* The answer replaces the transcript, the queue behind it keeps what is newer.
Install ==
    /\ rec.at = "pinned"
    /\ rec.fence = fence
    /\ shown' = Read \cup {ev \in queue : ev[2] > rec.seq}
    /\ queue' = {}
    /\ resumeSeq' = Larger(resumeSeq, rec.seq)
    /\ baseline' = [epoch |-> rec.epoch, seq |-> rec.seq]
    /\ doubled' = {ev \in queue : ev[2] > rec.seq /\ ev \in Read}
    /\ rec' = [at |-> "idle", fence |-> 0, epoch |-> 0, seq |-> 0, tries |-> 0]
    /\ UNCHANGED <<serverVars, pump, conn, channel, dial, floor, resumeEpoch, fence,
                   shell, ghostVars, troubles>>

\* An answer that crossed a change of epoch is read again.
Reread ==
    /\ rec.at = "pinned"
    /\ rec.fence # fence
    /\ rec' = Attempt("reading", fence, rec.tries)
    /\ UNCHANGED <<serverVars, pump, conn, channel, dial, floor, clientVars,
                   shown, queue, doubled, baseline, shell, ghostVars, troubles>>

RecoveryFails ==
    /\ InFlight
    /\ Trouble
    /\ rec' = IF rec.tries < RetryBudget
              THEN Attempt("retry", 0, rec.tries + 1)
              ELSE Attempt("unread", 0, 0)
    /\ UNCHANGED <<serverVars, pump, conn, channel, dial, floor, clientVars,
                   shown, queue, doubled, baseline, shell, ghostVars>>

Retry ==
    /\ rec.at = "retry"
    /\ rec' = Recovering(fence)
    /\ UNCHANGED <<serverVars, pump, conn, channel, dial, floor, clientVars,
                   shown, queue, doubled, baseline, shell, ghostVars, troubles>>

(***************************************************************************)
(* HTTP reads of other content (a shell snapshot, another thread): their   *)
(* answer raises the watermark unless it crossed a change of epoch.  That   *)
(* such an answer may also bind an unbound watermark is not modelled: the   *)
(* code does so only before a socket session exists, and here one does.    *)
(***************************************************************************)
ShellRead ==
    /\ shell.at = "idle"
    /\ Trouble
    /\ shell' = [at |-> "read", fence |-> fence, epoch |-> epoch, seq |-> seq]
    /\ UNCHANGED <<serverVars, pump, conn, channel, dial, floor, clientVars, threadVars, ghostVars>>

ShellReply ==
    /\ shell.at = "read"
    /\ shell' = [at |-> "idle", fence |-> 0, epoch |-> 0, seq |-> 0]
    /\ resumeSeq' = IF shell.fence = fence THEN Larger(resumeSeq, shell.seq) ELSE resumeSeq
    /\ UNCHANGED <<serverVars, pump, conn, channel, dial, floor, resumeEpoch, fence,
                   threadVars, swallowed, unreadable, troubles>>
    /\ leapt' = leapt \cup (unreadable \cap Forgone')

(***************************************************************************)
(* The socket session.                                                     *)
(***************************************************************************)
\* The resume cursor is the watermark; a noted loss, or a thread that is not
\* loaded, starts a recovery beside the resumed stream.
Dial ==
    /\ conn \in {"none", "lost"}
    /\ conn' = "dialing"
    /\ channel' = << >>
    /\ dial' = [cursor |-> resumeSeq, epoch |-> resumeEpoch]
    /\ floor' = resumeSeq
    /\ rec' = IF conn = "lost" \/ rec.at = "unread" THEN Recovering(fence) ELSE rec
    /\ UNCHANGED <<serverVars, pump, clientVars, shown, queue, doubled, baseline,
                   shell, unreadable, troubles>>
    /\ swallowed' = IF conn = "lost" THEN swallowed \cup Forgone' ELSE swallowed
    /\ leapt' = IF conn = "none" THEN leapt \cup Forgone' ELSE leapt

\* A close, a failed upgrade, a missed health probe: undecoded frames go too.
SocketLost ==
    /\ conn \in {"dialing"} \cup Linked
    /\ Trouble
    /\ Drop("none")
    /\ UNCHANGED <<serverVars, clientVars, threadVars, shell, ghostVars>>

\* The frame queue overflows, or its worker fails: the drain gives up.
LoseFrames ==
    /\ conn \in Linked
    /\ Trouble
    /\ Drop("lost")
    /\ UNCHANGED <<serverVars, clientVars, threadVars, shell, ghostVars>>

(***************************************************************************)
(* Frames, routed in order.                                                *)
(***************************************************************************)
HasFrame(k) == conn \in Linked /\ channel # << >> /\ Head(channel).kind = k
Consume == channel' = Tail(channel)

Bind(n) ==
    /\ resumeSeq' = n
    /\ resumeEpoch' = epoch
    /\ fence' = IF resumeEpoch = epoch THEN fence ELSE fence + 1

\* applyResync: adopt the server's head, drop what belongs to an instance that
\* is gone, and read the open thread again.
ApplyResync(n, restart) ==
    /\ floor' = n
    /\ Bind(n)
    /\ shown' = IF restart THEN {} ELSE shown
    /\ queue' = IF restart THEN {} ELSE queue
    /\ doubled' = IF restart THEN {} ELSE doubled
    /\ rec' = Recovering(fence')
    /\ swallowed' = swallowed \cup Forgone'
    /\ baseline' = [epoch |-> 0, seq |-> 0]

ReceiveReady ==
    /\ HasFrame("ready")
    /\ Consume
    /\ UNCHANGED <<serverVars, pump, conn, dial, shell, unreadable, troubles>>
    /\ \/ /\ resumeEpoch = epoch \/ dial.cursor > 0
          /\ UNCHANGED <<floor, clientVars, threadVars, leapt, swallowed>>
       \/ /\ resumeEpoch = 0 /\ dial.cursor = 0
          /\ Bind(0)
          /\ UNCHANGED <<floor, threadVars, swallowed>>
          /\ leapt' = leapt \cup {ev \in Published : ev[1] < epoch /\ ev \notin shown \cup queue
                                                     /\ ~Awaited(ev)'}
       \/ /\ resumeEpoch \notin {0, epoch} /\ dial.cursor = 0
          /\ ApplyResync(Head(channel).seq, TRUE)
          /\ UNCHANGED leapt

ReceiveResync ==
    /\ HasFrame("resync")
    /\ Consume
    /\ UNCHANGED <<serverVars, pump, conn, dial, shell, leapt, unreadable, troubles>>
    /\ LET n == Head(channel).seq IN
       ApplyResync(n, resumeEpoch \notin {0, epoch} \/ n < floor)

ReceiveGap ==
    /\ HasFrame("event")
    /\ Head(channel).seq > resumeSeq + 1
    /\ Drop("lost")
    /\ UNCHANGED <<serverVars, clientVars, threadVars, shell, ghostVars, troubles>>

\* A frame at or below the watermark is applied like the next one.
ReceiveEvent ==
    /\ HasFrame("event")
    /\ Head(channel).seq <= resumeSeq + 1
    /\ Consume
    /\ LET n  == Head(channel).seq
           ev == <<epoch, n>> IN
       /\ IF rec.at = "idle"
          THEN shown' = shown \cup {ev} /\ UNCHANGED queue
          ELSE queue' = queue \cup {ev} /\ UNCHANGED shown
       /\ resumeSeq' = Larger(resumeSeq, n)
       /\ floor' = Larger(floor, n)
       /\ doubled' = IF \/ rec.at # "idle" /\ ev \in queue
                        \/ rec.at = "idle" /\ ev \in shown
                           /\ ev \notin UpTo(baseline.epoch, baseline.seq)
                     THEN doubled \cup {ev} ELSE doubled
    /\ UNCHANGED <<serverVars, pump, conn, dial, resumeEpoch, fence, rec, baseline,
                   shell, ghostVars, troubles>>

\* A frame that does not decode is skipped.
FrameUnreadable ==
    /\ HasFrame("event")
    /\ Trouble
    /\ Consume
    /\ LET ev == <<epoch, Head(channel).seq>> IN
       /\ unreadable' = unreadable \cup {ev}
       /\ leapt' = leapt \cup (Forgone \cap {ev})
    /\ UNCHANGED <<serverVars, pump, conn, dial, floor, clientVars, threadVars, shell, swallowed>>

-----------------------------------------------------------------------------
ServerStep == Publish \/ PublishUndeliverable \/ Accept \/ PumpSend \/ PumpExpired \/ PumpDone \/ Restart
RecoveryStep == Pin \/ Install \/ Reread \/ RecoveryFails \/ Retry \/ ShellRead \/ ShellReply
SocketStep ==
    \/ Dial \/ SocketLost \/ LoseFrames
    \/ ReceiveReady \/ ReceiveResync \/ ReceiveGap \/ ReceiveEvent \/ FrameUnreadable

Next == ServerStep \/ RecoveryStep \/ SocketStep

Spec == Init /\ [][Next]_vars

\* Timers, sockets and HTTP calls that nothing disturbs complete.  Publishing,
\* restarts, losses and failures owe nobody anything.
FairSpec ==
    /\ Spec
    /\ WF_vars(Dial) /\ WF_vars(Accept)
    /\ WF_vars(PumpSend \/ PumpExpired \/ PumpDone)
    /\ WF_vars(ReceiveReady \/ ReceiveResync \/ ReceiveGap \/ ReceiveEvent)
    /\ WF_vars(Pin) /\ WF_vars(Install \/ Reread) /\ WF_vars(Retry)

-----------------------------------------------------------------------------
(***************************************************************************)
(* Properties.                                                             *)
(***************************************************************************)
\* While the watermark is bound to the running instance it never passes that
\* instance's head, whatever HTTP answers of an earlier instance arrive late:
\* only the fence (HostSession.resumeFence) refuses them.
WatermarkWithinHead == resumeEpoch = epoch => resumeSeq <= seq

\* Deltas queued from an instance that is gone never wait behind a baseline of
\* the instance the client is bound to (applyResync discards them).
QueueIsOfThisInstance == resumeEpoch = epoch => \A ev \in queue : ev[1] = epoch

\* A live socket with nothing on its way and no recovery under way.
Quiet == conn = "live" /\ channel = << >> /\ rec.at = "idle"

\* What the code gives up: the hazards of the watermark and of the absorbed
\* re-baseline, and an undecodable frame until the next one shows the gap.
Excused == leapt \cup swallowed \cup {ev \in unreadable : ev[2] > resumeSeq}

Complete == Published \subseteq shown \cup Excused

\* Whatever was lost, replayed, expired, restarted or re-read on the way, a
\* quiet client shows every event ever published, but for those excused.
QuietMeansComplete == Quiet => Complete

\* Replay and live fan-out never deliver one event twice into a transcript.
AppliedOnce == Quiet => doubled = {}

\* The client does not stay behind: it ends up complete, or showing a failure.
CatchesUp == <>[](Complete \/ rec.at = "unread")
=============================================================================

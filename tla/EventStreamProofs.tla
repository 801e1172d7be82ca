-------------------------- MODULE EventStreamProofs --------------------------
(***************************************************************************)
(* What the event stream guarantees for any number of instances, events,   *)
(* losses and failures, and any replay window.                             *)
(***************************************************************************)
EXTENDS EventStream, SequenceTheorems, TLAPS

\* The larger of two numbers of a range is in the range.
LEMMA LargerType == \A a, b \in 0 .. MaxSeq : Larger(a, b) \in 0 .. MaxSeq
BY DEF Larger

\* The head is a number of the range, and has room when an event is published.
LEMMA HeadType ==
    ASSUME TypeOK
    PROVE  /\ seq \in 0 .. MaxSeq
           /\ seq < MaxSeq => seq + 1 \in 1 .. MaxSeq
BY EventStreamAssumption DEF TypeOK, ServerTypeOK, seq

\* The frames the server sends.
LEMMA FrameType ==
    /\ \A n \in 0 .. MaxSeq : FrameOf("ready", n) \in Frame /\ FrameOf("resync", n) \in Frame
    /\ \A n \in 1 .. MaxSeq : FrameOf("event", n) \in Frame
BY DEF FrameOf, Frame

\* A frame carries the number it is made with.
LEMMA FrameSeq == \A k, n : FrameOf(k, n).seq = n /\ FrameOf(k, n).kind = k
BY DEF FrameOf

\* Sending a frame keeps a channel of frames.
LEMMA SendType ==
    ASSUME TypeOK, NEW f \in Frame
    PROVE  Append(channel, f) \in Seq(Frame)
BY DEF TypeOK, SocketTypeOK

\* The buffer is trimmed to its limit.
LEMMA RetainType ==
    ASSUME NEW s \in Seq(1 .. MaxSeq), Len(s) <= BufferLimit + 1
    PROVE  Retain(s) \in Seq(1 .. MaxSeq) /\ Len(Retain(s)) <= BufferLimit
<1>1. CASE Len(s) > BufferLimit
  <2>1. s # << >>  BY <1>1, EventStreamAssumption
  <2>2. Tail(s) \in Seq(1 .. MaxSeq) /\ Len(Tail(s)) = Len(s) - 1  BY <2>1
  <2> QED  BY <1>1, <2>2, EventStreamAssumption DEF Retain
<1>2. CASE ~(Len(s) > BufferLimit)
  BY <1>2, EventStreamAssumption DEF Retain
<1> QED  BY <1>1, <1>2

\* What the pump sends is an entry of the buffer.
LEMMA PumpRange == ASSUME TypeOK, PumpSend PROVE pump + 1 \in 1 .. MaxSeq
<1> DEFINE i == pump + 2 - Head(buffer)
<1>1. i \in DOMAIN buffer /\ buffer[i] = pump + 1  BY DEF PumpSend, CanReplay
<1>2. buffer \in Seq(1 .. MaxSeq)  BY DEF TypeOK, ServerTypeOK
<1> HIDE DEF i
<1>3. DOMAIN buffer = 1 .. Len(buffer)  BY <1>2
<1>4. buffer[i] \in 1 .. MaxSeq
  BY <1>1, <1>2, <1>3, ElementOfSeq, EventStreamAssumption
<1> QED  BY <1>1, <1>4

\* Sets of events that the model computes hold events only.
LEMMA EventSets ==
    /\ Published \subseteq Events /\ Forgone \subseteq Events
    /\ \A e, n : UpTo(e, n) \subseteq Events
BY DEF Published, Forgone, UpTo

\* The same of the next state.
LEMMA EventSetsPrimed == Forgone' \subseteq Events
BY DEF Forgone, Events, Epochs

\* An attempt is a recovery.
LEMMA AttemptType ==
    ASSUME NEW at \in {"reading", "retry", "unread"}, NEW f \in Nat, NEW tries \in Nat
    PROVE  Attempt(at, f, tries) \in Recovery
BY EventStreamAssumption DEF Attempt, Recovery

\* What an attempt is made of.
LEMMA AttemptFacts ==
    \A at, f, tries : Attempt(at, f, tries).at = at /\ Attempt(at, f, tries).fence = f
BY DEF Attempt

\* Starting a recovery gives a recovery.
LEMMA RecoveringType ==
    ASSUME rec \in Recovery, NEW f \in Nat
    PROVE  Recovering(f) \in Recovery
<1>1. rec.tries \in Nat  BY DEF Recovery
<1> QED  BY <1>1, AttemptType DEF Recovering

\* Routing a frame takes a frame off the channel.
LEMMA RoutedType ==
    ASSUME TypeOK, channel # << >>, Consume
    PROVE  /\ channel' \in Seq(Frame)
           /\ Head(channel).seq \in 0 .. MaxSeq
           /\ Head(channel).kind = "event" => Head(channel).seq \in 1 .. MaxSeq
<1>1. channel \in Seq(Frame)  BY DEF TypeOK, SocketTypeOK
<1>2. Head(channel) \in Frame /\ Tail(channel) \in Seq(Frame)  BY <1>1
<1> QED  BY <1>2, EventStreamAssumption DEF Consume, Frame

\* Steps preserve types.
LEMMA TypeStep == TypeOK /\ [Next]_vars => TypeOK'
<1> SUFFICES ASSUME TypeOK, [Next]_vars PROVE TypeOK'  OBVIOUS
<1>0. ServerTypeOK /\ SocketTypeOK /\ ClientTypeOK /\ ThreadTypeOK  BY DEF TypeOK
<1> USE <1>0, EventStreamAssumption DEF serverVars, clientVars, threadVars, ghostVars
<1>1. CASE Publish
  <2>1. ServerTypeOK'
    <3>1. seq + 1 \in 1 .. MaxSeq  BY <1>1, HeadType DEF Publish
    <3>2. Append(buffer, seq + 1) \in Seq(1 .. MaxSeq) /\ Len(Append(buffer, seq + 1)) <= BufferLimit + 1
      BY <3>1 DEF ServerTypeOK
    <3>3. buffer' \in Seq(1 .. MaxSeq) /\ Len(buffer') <= BufferLimit
      BY <1>1, <3>2, RetainType DEF Publish
    <3>4. heads' \in [Epochs -> 0 .. MaxSeq]
      BY <1>1, <3>1 DEF Publish, ServerTypeOK, seq
    <3> QED  BY <1>1, <3>3, <3>4 DEF Publish, ServerTypeOK
  <2>2. SocketTypeOK'
    <3>1. FrameOf("event", seq + 1) \in Frame  BY <1>1, HeadType, FrameType DEF Publish
    <3>2. channel' \in Seq(Frame)
      BY <1>1, <3>1, SendType DEF Publish, FanOut, Send, SocketTypeOK
    <3> QED  BY <1>1, <3>2 DEF Publish, SocketTypeOK
  <2>3. ClientTypeOK'
    BY <1>1 DEF Publish, ClientTypeOK
  <2>4. ThreadTypeOK'
    BY <1>1 DEF Publish, ThreadTypeOK
  <2> QED  BY <2>1, <2>2, <2>3, <2>4 DEF TypeOK
<1>2. CASE PublishUndeliverable
  <2>1. ServerTypeOK'
    BY <1>2, HeadType DEF PublishUndeliverable, ServerTypeOK, Trouble, seq
  <2>2. SocketTypeOK'
    <3>1. FrameOf("resync", seq + 1) \in Frame
      BY <1>2, HeadType, FrameType DEF PublishUndeliverable
    <3>2. channel' \in Seq(Frame)
      BY <1>2, <3>1, SendType DEF PublishUndeliverable, Send, SocketTypeOK
    <3> QED  BY <1>2, <3>2 DEF PublishUndeliverable, SocketTypeOK, Linked
  <2>3. ClientTypeOK'
    BY <1>2 DEF PublishUndeliverable, ClientTypeOK
  <2>4. ThreadTypeOK'
    BY <1>2 DEF PublishUndeliverable, ThreadTypeOK
  <2> QED  BY <2>1, <2>2, <2>3, <2>4 DEF TypeOK
<1>3. CASE Accept
  <2>1. ServerTypeOK'
    BY <1>3 DEF Accept, ServerTypeOK, SocketTypeOK, Cursor
  <2>2. SocketTypeOK'
    <3>1. FrameOf("ready", seq) \in Frame /\ FrameOf("resync", seq) \in Frame
      BY HeadType, FrameType
    <3>2. channel' \in Seq(Frame)
      <4> DEFINE ready == Append(channel, FrameOf("ready", seq))
      <4>1. ready \in Seq(Frame)  BY <3>1, AppendProperties DEF SocketTypeOK
      <4>2. Append(ready, FrameOf("resync", seq)) \in Seq(Frame)  BY <3>1, <4>1, AppendProperties
      <4>3. channel' = ready \/ channel' = Append(ready, FrameOf("resync", seq))
        BY <1>3 DEF Accept
      <4> HIDE DEF ready
      <4> QED  BY <4>1, <4>2, <4>3
    <3> QED  BY <1>3, <3>2 DEF Accept, SocketTypeOK, Linked
  <2>3. ClientTypeOK'
    BY <1>3 DEF Accept, ClientTypeOK
  <2>4. ThreadTypeOK'
    BY <1>3 DEF Accept, ThreadTypeOK
  <2> QED  BY <2>1, <2>2, <2>3, <2>4 DEF TypeOK
<1>4. CASE PumpSend
  <2>0. pump' \in 0 .. MaxSeq
    <3>1. TypeOK  BY DEF TypeOK
    <3> QED  BY <1>4, <3>1, PumpRange DEF PumpSend
  <2>1. ServerTypeOK'
    BY <1>4, <2>0 DEF PumpSend, ServerTypeOK
  <2>2. SocketTypeOK'
    <3>1. FrameOf("event", pump + 1) \in Frame
      <4>1. TypeOK  BY DEF TypeOK
      <4> QED  BY <1>4, <4>1, PumpRange, FrameType
    <3>2. channel' = Append(channel, FrameOf("event", pump + 1))  BY <1>4 DEF PumpSend, Send
    <3>3. channel' \in Seq(Frame)  BY <3>1, <3>2, AppendProperties DEF SocketTypeOK
    <3> QED  BY <1>4, <3>3 DEF PumpSend, SocketTypeOK
  <2>3. ClientTypeOK'
    BY <1>4 DEF PumpSend, ClientTypeOK
  <2>4. ThreadTypeOK'
    BY <1>4 DEF PumpSend, ThreadTypeOK
  <2> QED  BY <2>1, <2>2, <2>3, <2>4 DEF TypeOK
<1>5. CASE PumpExpired
  <2>1. ServerTypeOK'
    BY <1>5 DEF PumpExpired, ServerTypeOK
  <2>2. SocketTypeOK'
    BY <1>5, HeadType DEF PumpExpired, SocketTypeOK, Send, FrameOf, Frame, Linked
  <2>3. ClientTypeOK'
    BY <1>5 DEF PumpExpired, ClientTypeOK
  <2>4. ThreadTypeOK'
    BY <1>5 DEF PumpExpired, ThreadTypeOK
  <2> QED  BY <2>1, <2>2, <2>3, <2>4 DEF TypeOK
<1>6. CASE PumpDone
  <2>1. ServerTypeOK'
    BY <1>6 DEF PumpDone, ServerTypeOK
  <2>2. SocketTypeOK'
    BY <1>6 DEF PumpDone, SocketTypeOK, Linked
  <2>3. ClientTypeOK'
    BY <1>6 DEF PumpDone, ClientTypeOK
  <2>4. ThreadTypeOK'
    BY <1>6 DEF PumpDone, ThreadTypeOK
  <2> QED  BY <2>1, <2>2, <2>3, <2>4 DEF TypeOK
<1>7. CASE Restart
  <2>1. ServerTypeOK'
    BY <1>7 DEF Restart, ServerTypeOK, Drop, Epochs
  <2>2. SocketTypeOK'
    BY <1>7 DEF Restart, SocketTypeOK, Drop, Cursor
  <2>3. ClientTypeOK'
    BY <1>7 DEF Restart, ClientTypeOK
  <2>4. ThreadTypeOK'
    BY <1>7 DEF Restart, ThreadTypeOK
  <2> QED  BY <2>1, <2>2, <2>3, <2>4 DEF TypeOK
<1>8. CASE Pin
  <2>1. ServerTypeOK'
    BY <1>8 DEF Pin, ServerTypeOK
  <2>2. SocketTypeOK'
    BY <1>8 DEF Pin, SocketTypeOK
  <2>3. ClientTypeOK'
    <3>1. epoch \in 0 .. MaxEpoch  BY DEF ServerTypeOK, Epochs
    <3>2. rec' \in Recovery  BY <1>8, <3>1, HeadType DEF Pin, ClientTypeOK, Recovery
    <3> QED  BY <1>8, <3>2 DEF Pin, ClientTypeOK
  <2>4. ThreadTypeOK'
    BY <1>8 DEF Pin, ThreadTypeOK
  <2> QED  BY <2>1, <2>2, <2>3, <2>4 DEF TypeOK
<1>9. CASE Install
  <2>1. ServerTypeOK'
    BY <1>9 DEF Install, ServerTypeOK
  <2>2. SocketTypeOK'
    BY <1>9 DEF Install, SocketTypeOK
  <2>3. ClientTypeOK'
    BY <1>9, LargerType DEF Install, ClientTypeOK, Recovery
  <2>4. ThreadTypeOK'
    BY <1>9, EventSets DEF Install, ThreadTypeOK, Read
  <2> QED  BY <2>1, <2>2, <2>3, <2>4 DEF TypeOK
<1>10. CASE Reread
  <2>1. ServerTypeOK'
    BY <1>10 DEF Reread, ServerTypeOK
  <2>2. SocketTypeOK'
    BY <1>10 DEF Reread, SocketTypeOK
  <2>3. ClientTypeOK'
    <3>1. rec.tries \in Nat /\ fence \in Nat  BY DEF ClientTypeOK, Recovery
    <3>2. rec' \in Recovery  BY <1>10, <3>1, AttemptType DEF Reread
    <3> QED  BY <1>10, <3>2 DEF Reread, ClientTypeOK
  <2>4. ThreadTypeOK'
    BY <1>10 DEF Reread, ThreadTypeOK
  <2> QED  BY <2>1, <2>2, <2>3, <2>4 DEF TypeOK
<1>11. CASE RecoveryFails
  <2>1. ServerTypeOK'
    BY <1>11 DEF RecoveryFails, ServerTypeOK, Trouble
  <2>2. SocketTypeOK'
    BY <1>11 DEF RecoveryFails, SocketTypeOK
  <2>3. ClientTypeOK'
    <3>1. rec.tries + 1 \in Nat  BY DEF ClientTypeOK, Recovery
    <3>2. Attempt("retry", 0, rec.tries + 1) \in Recovery  BY <3>1, AttemptType
    <3>3. Attempt("unread", 0, 0) \in Recovery  BY AttemptType
    <3>4. rec' \in Recovery  BY <1>11, <3>2, <3>3 DEF RecoveryFails
    <3> QED  BY <1>11, <3>4 DEF RecoveryFails, ClientTypeOK
  <2>4. ThreadTypeOK'
    BY <1>11 DEF RecoveryFails, ThreadTypeOK
  <2> QED  BY <2>1, <2>2, <2>3, <2>4 DEF TypeOK
<1>12. CASE Retry
  <2>1. ServerTypeOK'
    BY <1>12 DEF Retry, ServerTypeOK
  <2>2. SocketTypeOK'
    BY <1>12 DEF Retry, SocketTypeOK
  <2>3. ClientTypeOK'
    BY <1>12, RecoveringType DEF Retry, ClientTypeOK
  <2>4. ThreadTypeOK'
    BY <1>12 DEF Retry, ThreadTypeOK
  <2> QED  BY <2>1, <2>2, <2>3, <2>4 DEF TypeOK
<1>13. CASE ShellRead
  <2>1. ServerTypeOK'
    BY <1>13 DEF ShellRead, ServerTypeOK, Trouble
  <2>2. SocketTypeOK'
    BY <1>13 DEF ShellRead, SocketTypeOK
  <2>3. ClientTypeOK'
    BY <1>13, HeadType DEF ShellRead, ClientTypeOK, ShellReads, ServerTypeOK, Epochs
  <2>4. ThreadTypeOK'
    BY <1>13 DEF ShellRead, ThreadTypeOK
  <2> QED  BY <2>1, <2>2, <2>3, <2>4 DEF TypeOK
<1>14. CASE ShellReply
  <2>1. ServerTypeOK'
    BY <1>14 DEF ShellReply, ServerTypeOK
  <2>2. SocketTypeOK'
    BY <1>14 DEF ShellReply, SocketTypeOK
  <2>3. ClientTypeOK'
    BY <1>14, LargerType DEF ShellReply, ClientTypeOK, ShellReads
  <2>4. ThreadTypeOK'
    BY <1>14 DEF ShellReply, ThreadTypeOK
  <2> QED  BY <2>1, <2>2, <2>3, <2>4 DEF TypeOK
<1>15. CASE Dial
  <2>1. ServerTypeOK'
    BY <1>15 DEF Dial, ServerTypeOK
  <2>2. SocketTypeOK'
    BY <1>15 DEF Dial, SocketTypeOK, Cursor, ClientTypeOK, Linked
  <2>3. ClientTypeOK'
    BY <1>15, RecoveringType DEF Dial, ClientTypeOK
  <2>4. ThreadTypeOK'
    BY <1>15, EventSetsPrimed DEF Dial, ThreadTypeOK
  <2> QED  BY <2>1, <2>2, <2>3, <2>4 DEF TypeOK
<1>16. CASE SocketLost
  <2>1. ServerTypeOK'
    BY <1>16 DEF SocketLost, ServerTypeOK, Drop, Trouble
  <2>2. SocketTypeOK'
    BY <1>16 DEF SocketLost, SocketTypeOK, Drop, Cursor
  <2>3. ClientTypeOK'
    BY <1>16 DEF SocketLost, ClientTypeOK
  <2>4. ThreadTypeOK'
    BY <1>16 DEF SocketLost, ThreadTypeOK
  <2> QED  BY <2>1, <2>2, <2>3, <2>4 DEF TypeOK
<1>17. CASE LoseFrames
  <2>1. ServerTypeOK'
    BY <1>17 DEF LoseFrames, ServerTypeOK, Drop, Trouble
  <2>2. SocketTypeOK'
    BY <1>17 DEF LoseFrames, SocketTypeOK, Drop, Cursor
  <2>3. ClientTypeOK'
    BY <1>17 DEF LoseFrames, ClientTypeOK
  <2>4. ThreadTypeOK'
    BY <1>17 DEF LoseFrames, ThreadTypeOK
  <2> QED  BY <2>1, <2>2, <2>3, <2>4 DEF TypeOK
<1>18. CASE ReceiveReady
  <2>1. ServerTypeOK'
    BY <1>18 DEF ReceiveReady, ServerTypeOK
  <2>2. SocketTypeOK'
    BY <1>18, RoutedType DEF ReceiveReady, SocketTypeOK, ApplyResync, HasFrame
  <2>3. ClientTypeOK'
    <3>1. epoch \in 0 .. MaxEpoch  BY DEF ServerTypeOK, Epochs
    <3>2. Head(channel).seq \in 0 .. MaxSeq  BY <1>18, RoutedType DEF ReceiveReady, HasFrame
    <3>3. fence' \in Nat  BY <1>18 DEF ReceiveReady, Bind, ApplyResync, ClientTypeOK
    <3>4. rec' \in Recovery
      BY <1>18, <3>3, RecoveringType DEF ReceiveReady, ApplyResync, ClientTypeOK
    <3>5. resumeSeq' \in 0 .. MaxSeq /\ resumeEpoch' \in 0 .. MaxEpoch
      BY <1>18, <3>1, <3>2 DEF ReceiveReady, Bind, ApplyResync, ClientTypeOK
    <3> QED  BY <1>18, <3>3, <3>4, <3>5 DEF ReceiveReady, ApplyResync, ClientTypeOK
  <2>4. ThreadTypeOK'
    BY <1>18, EventSets, EventSetsPrimed DEF ReceiveReady, ThreadTypeOK, ApplyResync
  <2> QED  BY <2>1, <2>2, <2>3, <2>4 DEF TypeOK
<1>19. CASE ReceiveResync
  <2>1. ServerTypeOK'
    BY <1>19 DEF ReceiveResync, ServerTypeOK
  <2>2. SocketTypeOK'
    BY <1>19, RoutedType DEF ReceiveResync, SocketTypeOK, ApplyResync, HasFrame
  <2>3. ClientTypeOK'
    BY <1>19, RoutedType, RecoveringType DEF ReceiveResync, ClientTypeOK, HasFrame, Bind, ApplyResync, ServerTypeOK, Epochs
  <2>4. ThreadTypeOK'
    BY <1>19, EventSetsPrimed DEF ReceiveResync, ThreadTypeOK, ApplyResync
  <2> QED  BY <2>1, <2>2, <2>3, <2>4 DEF TypeOK
<1>20. CASE ReceiveGap
  <2>1. ServerTypeOK'
    BY <1>20 DEF ReceiveGap, ServerTypeOK, Drop
  <2>2. SocketTypeOK'
    BY <1>20 DEF ReceiveGap, SocketTypeOK, Drop, Cursor
  <2>3. ClientTypeOK'
    BY <1>20 DEF ReceiveGap, ClientTypeOK
  <2>4. ThreadTypeOK'
    BY <1>20 DEF ReceiveGap, ThreadTypeOK
  <2> QED  BY <2>1, <2>2, <2>3, <2>4 DEF TypeOK
<1>21. CASE ReceiveEvent
  <2>1. ServerTypeOK'
    BY <1>21 DEF ReceiveEvent, ServerTypeOK
  <2>2. SocketTypeOK'
    BY <1>21, RoutedType, LargerType DEF ReceiveEvent, SocketTypeOK, HasFrame
  <2>3. ClientTypeOK'
    BY <1>21, RoutedType, LargerType DEF ReceiveEvent, ClientTypeOK, HasFrame
  <2>4. ThreadTypeOK'
    BY <1>21, RoutedType DEF ReceiveEvent, ThreadTypeOK, HasFrame, Events, ServerTypeOK
  <2> QED  BY <2>1, <2>2, <2>3, <2>4 DEF TypeOK
<1>22. CASE FrameUnreadable
  <2>1. ServerTypeOK'
    BY <1>22 DEF FrameUnreadable, ServerTypeOK, Trouble
  <2>2. SocketTypeOK'
    BY <1>22, RoutedType DEF FrameUnreadable, SocketTypeOK, HasFrame
  <2>3. ClientTypeOK'
    BY <1>22 DEF FrameUnreadable, ClientTypeOK
  <2>4. ThreadTypeOK'
    BY <1>22, RoutedType, EventSets DEF FrameUnreadable, ThreadTypeOK, HasFrame, Events, ServerTypeOK
  <2> QED  BY <2>1, <2>2, <2>3, <2>4 DEF TypeOK
<1>23. CASE UNCHANGED vars
  BY <1>23 DEF TypeOK, ServerTypeOK, SocketTypeOK, ClientTypeOK, ThreadTypeOK, vars
<1> QED  BY <1>1, <1>2, <1>3, <1>4, <1>5, <1>6, <1>7, <1>8, <1>9, <1>10, <1>11, <1>12, <1>13, <1>14,
            <1>15, <1>16, <1>17, <1>18, <1>19, <1>20, <1>21, <1>22, <1>23
         DEF Next, ServerStep, RecoveryStep, SocketStep

\* The initial state is well typed.
LEMMA TypeInit == Init => TypeOK
<1> SUFFICES ASSUME Init PROVE TypeOK  OBVIOUS
<1> USE EventStreamAssumption
<1>1. ServerTypeOK  BY DEF Init, ServerTypeOK, Epochs
<1>2. SocketTypeOK  BY DEF Init, SocketTypeOK, Cursor
<1>3. ClientTypeOK  BY DEF Init, ClientTypeOK, Recovery, ShellReads
<1>4. ThreadTypeOK  BY DEF Init, ThreadTypeOK
<1> QED  BY <1>1, <1>2, <1>3, <1>4 DEF TypeOK

\* Type correctness of the server, the socket and the client, whatever the
\* bounds: the buffer never exceeds its limit.
THEOREM TypeCorrect == Spec => []TypeOK
<1>1. Init => TypeOK  BY TypeInit
<1>2. TypeOK /\ [Next]_vars => TypeOK'  BY TypeStep
<1> QED  BY <1>1, <1>2, PTL DEF Spec

-----------------------------------------------------------------------------
(***************************************************************************)
(* The invariant that keeps the watermark and the queue in step with the   *)
(* instance they are bound to.                                             *)
(***************************************************************************)
\* An answer was pinned by an instance that ran; one that the fence lets
\* through comes from the bound instance or a later one.
Pinned(answer) ==
    /\ answer.epoch \in 1 .. epoch
    /\ answer.seq <= heads[answer.epoch]
    /\ answer.fence = fence => resumeEpoch <= answer.epoch

AnswersInv ==
    /\ resumeEpoch <= epoch
    /\ rec.fence <= fence /\ shell.fence <= fence
    /\ rec.at = "pinned" => Pinned(rec)
    /\ shell.at = "read" => Pinned(shell)

\* Nothing retained or on its way is ahead of the head.
HeadInv ==
    /\ \A i \in DOMAIN buffer : buffer[i] <= seq
    /\ \A i \in DOMAIN channel : channel[i].seq <= seq

\* Before the first event a socket's client is bound to the instance, or the
\* frames that bind it are the first on their way.
Tuned ==
    \/ resumeEpoch = epoch
    \/ channel # << >> /\ Head(channel).kind = "resync"
    \/ /\ channel # << >> /\ Head(channel).kind = "ready"
       /\ \/ dial.cursor = 0
          \/ Len(channel) > 1 /\ channel[2].kind = "resync"

LinkInv ==
    /\ conn = "dialing" => dial.epoch = resumeEpoch /\ channel = << >>
    /\ conn \in Linked => Tuned
    /\ resumeEpoch = 0 => queue = {}

SyncInv == AnswersInv /\ HeadInv /\ LinkInv /\ WatermarkWithinHead /\ QueueIsOfThisInstance

\* The numbers that the invariant compares are naturals.
LEMMA Numbers ==
    ASSUME TypeOK
    PROVE  /\ epoch \in Nat /\ epoch \in Epochs /\ resumeEpoch \in Nat /\ fence \in Nat
           /\ resumeSeq \in Nat /\ seq \in Nat
           /\ rec.fence \in Nat /\ rec.epoch \in Nat /\ rec.seq \in Nat
           /\ shell.fence \in Nat /\ shell.epoch \in Nat /\ shell.seq \in Nat
           /\ \A e \in Epochs : heads[e] \in Nat
           /\ \A e \in 1 .. epoch : e \in Epochs
<1> USE EventStreamAssumption DEF TypeOK
<1>1. epoch \in Epochs /\ epoch \in Nat /\ \A e \in 1 .. epoch : e \in Epochs
  BY DEF ServerTypeOK, Epochs
<1>2. \A e \in Epochs : heads[e] \in Nat  BY DEF ServerTypeOK
<1>3. resumeEpoch \in Nat /\ fence \in Nat /\ resumeSeq \in Nat  BY DEF ClientTypeOK
<1>4. rec.fence \in Nat /\ rec.epoch \in Nat /\ rec.seq \in Nat  BY DEF ClientTypeOK, Recovery
<1>5. shell.fence \in Nat /\ shell.epoch \in Nat /\ shell.seq \in Nat
  BY DEF ClientTypeOK, ShellReads
<1> QED  BY <1>1, <1>2, <1>3, <1>4, <1>5 DEF seq

\* Publishing moves the head of the running instance on, and no other.
LEMMA PublishMoves ==
    ASSUME TypeOK, Publish \/ PublishUndeliverable
    PROVE  /\ seq' = seq + 1 /\ epoch' = epoch
           /\ \A e \in Epochs : heads'[e] \in Nat /\ heads[e] <= heads'[e]
<1>1. heads' = [heads EXCEPT ![epoch] = @ + 1] /\ epoch' = epoch
  BY DEF Publish, PublishUndeliverable
<1>2. epoch \in Epochs /\ heads \in [Epochs -> 0 .. MaxSeq]  BY DEF TypeOK, ServerTypeOK
<1>3. \A e \in Epochs : heads[e] \in Nat  BY <1>2, EventStreamAssumption
<1>4. \A e \in Epochs : heads'[e] = IF e = epoch THEN heads[e] + 1 ELSE heads[e]
  BY <1>1, <1>2
<1> QED  BY <1>1, <1>2, <1>3, <1>4 DEF seq

\* An answer stays what it is while heads grow and nothing is bound anew.
LEMMA PinnedStays ==
    ASSUME TypeOK, NEW a, Pinned(a), epoch' \in Nat, epoch <= epoch',
           \A e \in Epochs : heads'[e] \in Nat /\ heads[e] <= heads'[e],
           a.seq \in Nat, fence' = fence, resumeEpoch' = resumeEpoch
    PROVE  /\ a.epoch \in 1 .. epoch' /\ a.seq <= heads'[a.epoch]
           /\ a.fence = fence' => resumeEpoch' <= a.epoch
BY Numbers DEF Pinned

\* Binding the running instance raises the fence over every earlier answer,
\* unless it was bound already.
LEMMA PinnedBound ==
    ASSUME TypeOK, NEW a, Pinned(a), a.fence \in Nat, a.fence <= fence, NEW n, Bind(n)
    PROVE  /\ fence <= fence' /\ resumeEpoch' = epoch
           /\ a.fence = fence' => resumeEpoch' <= a.epoch
BY Numbers DEF Bind, Pinned

\* A recovery that starts takes the fence; one under way stays as it is.
LEMMA RecoveringFacts ==
    ASSUME rec \in Recovery, NEW f \in Nat
    PROVE  \/ Recovering(f) = rec /\ InFlight
           \/ Recovering(f).at = "reading" /\ Recovering(f).fence = f
BY AttemptFacts DEF Recovering

\* Steps keep what is known of answers on their way.
LEMMA AnswersStep == ASSUME TypeOK, AnswersInv, Next PROVE AnswersInv'
<1> USE Numbers DEF serverVars, clientVars, threadVars, ghostVars
<1>1. CASE Publish \/ PublishUndeliverable
  <2>1. /\ epoch' = epoch /\ fence' = fence /\ resumeEpoch' = resumeEpoch
        /\ rec' = rec /\ shell' = shell
    BY <1>1 DEF Publish, PublishUndeliverable
  <2>2. \A e \in Epochs : heads'[e] \in Nat /\ heads[e] <= heads'[e]
    BY <1>1, PublishMoves
  <2>3. rec.at = "pinned" => Pinned(rec)'  BY <2>1, <2>2, PinnedStays DEF AnswersInv, Pinned
  <2>4. shell.at = "read" => Pinned(shell)'  BY <2>1, <2>2, PinnedStays DEF AnswersInv, Pinned
  <2> QED  BY <2>1, <2>3, <2>4 DEF AnswersInv
<1>2. CASE Restart
  <2>1. /\ epoch' = epoch + 1 /\ fence' = fence /\ resumeEpoch' = resumeEpoch /\ heads' = heads
        /\ rec' = rec /\ shell' = shell
    BY <1>2 DEF Restart
  <2>2. rec.at = "pinned" => Pinned(rec)'  BY <2>1, PinnedStays DEF AnswersInv, Pinned
  <2>3. shell.at = "read" => Pinned(shell)'  BY <2>1, PinnedStays DEF AnswersInv, Pinned
  <2> QED  BY <2>1, <2>2, <2>3 DEF AnswersInv
<1>3. CASE Pin
  <2>1. Pinned(shell)' = Pinned(shell)  BY <1>3 DEF Pin, Pinned
  <2>2. /\ rec'.fence = rec.fence /\ rec'.epoch = epoch /\ rec'.seq = seq
    BY <1>3 DEF Pin, TypeOK, ClientTypeOK, Recovery
  <2>3. Pinned(rec)'  BY <1>3, <2>2 DEF Pin, Pinned, AnswersInv, seq, Epochs
  <2> QED  BY <1>3, <2>1, <2>2, <2>3 DEF Pin, AnswersInv
<1>4. CASE Install \/ Reread \/ RecoveryFails \/ Retry
  <2>1. /\ epoch' = epoch /\ fence' = fence /\ resumeEpoch' = resumeEpoch /\ heads' = heads
        /\ shell' = shell
    BY <1>4 DEF Install, Reread, RecoveryFails, Retry
  <2>2. rec'.at # "pinned" /\ rec'.fence <= fence
    <3>1. rec \in Recovery  BY DEF TypeOK, ClientTypeOK
    <3>2. CASE Install  BY <3>2 DEF Install, AnswersInv
    <3>3. CASE Reread  BY <3>3, AttemptFacts DEF Reread
    <3>4. CASE RecoveryFails  BY <3>4, AttemptFacts DEF RecoveryFails
    <3>5. CASE Retry
      <4>1. ~InFlight  BY <3>5 DEF Retry, InFlight
      <4> QED  BY <3>1, <3>5, <4>1, RecoveringFacts DEF Retry
    <3> QED  BY <1>4, <3>2, <3>3, <3>4, <3>5
  <2> QED  BY <2>1, <2>2 DEF AnswersInv, Pinned
<1>5. CASE ShellRead
  BY <1>5 DEF ShellRead, AnswersInv, Pinned, seq, Epochs
<1>6. CASE ShellReply
  BY <1>6 DEF ShellReply, AnswersInv, Pinned
<1>7. CASE Dial
  <2>1. /\ epoch' = epoch /\ fence' = fence /\ resumeEpoch' = resumeEpoch /\ heads' = heads
        /\ shell' = shell
    BY <1>7 DEF Dial
  <2>2. rec' = rec \/ (rec'.at = "reading" /\ rec'.fence = fence)
    <3>1. rec \in Recovery  BY DEF TypeOK, ClientTypeOK
    <3>2. rec' = rec \/ rec' = Recovering(fence)  BY <1>7 DEF Dial
    <3>3. \/ Recovering(fence) = rec
          \/ Recovering(fence).at = "reading" /\ Recovering(fence).fence = fence
      BY <3>1, RecoveringFacts
    <3>4. CASE rec' = rec  BY <3>4
    <3>5. CASE rec' = Recovering(fence)
      <4>1. CASE Recovering(fence) = rec  BY <3>5, <4>1
      <4>2. CASE Recovering(fence).at = "reading" /\ Recovering(fence).fence = fence
        BY <3>5, <4>2
      <4> QED  BY <3>3, <4>1, <4>2
    <3> QED  BY <3>2, <3>4, <3>5
  <2> QED  BY <2>1, <2>2 DEF AnswersInv, Pinned
<1>8. CASE ReceiveReady \/ ReceiveResync
  <2>1. epoch' = epoch /\ heads' = heads /\ shell' = shell
    BY <1>8 DEF ReceiveReady, ReceiveResync
  <2>2. \/ fence' = fence /\ resumeEpoch' = resumeEpoch /\ rec' = rec
        \/ \E n : Bind(n) /\ (rec' = rec \/ rec' = Recovering(fence'))
    BY <1>8 DEF ReceiveReady, ReceiveResync, ApplyResync
  <2>3. CASE fence' = fence /\ resumeEpoch' = resumeEpoch /\ rec' = rec
    BY <2>1, <2>3 DEF AnswersInv, Pinned
  <2>4. ASSUME NEW n, Bind(n), rec' = rec \/ rec' = Recovering(fence')
        PROVE  AnswersInv'
    <3>1. fence <= fence' /\ resumeEpoch' = epoch /\ fence' \in Nat  BY <2>4 DEF Bind
    <3>2. rec' = rec \/ (rec'.at = "reading" /\ rec'.fence = fence')
      BY <2>4, AttemptFacts DEF Recovering
    <3>3. rec'.at = "pinned" => Pinned(rec)'
      BY <2>1, <2>4, <3>1, <3>2, PinnedBound DEF AnswersInv, Pinned
    <3>4. shell'.at = "read" => Pinned(shell)'
      BY <2>1, <2>4, <3>1, PinnedBound DEF AnswersInv, Pinned
    <3> QED  BY <2>1, <3>1, <3>2, <3>3, <3>4 DEF AnswersInv
  <2> QED  BY <2>2, <2>3, <2>4
<1>9. CASE Accept \/ PumpSend \/ PumpExpired \/ PumpDone \/ SocketLost \/ LoseFrames
           \/ ReceiveGap \/ ReceiveEvent \/ FrameUnreadable
  <2>1. /\ epoch' = epoch /\ fence' = fence /\ resumeEpoch' = resumeEpoch /\ heads' = heads
        /\ shell' = shell /\ rec' = rec
    BY <1>9 DEF Accept, PumpSend, PumpExpired, PumpDone, SocketLost, LoseFrames, ReceiveGap,
                ReceiveEvent, FrameUnreadable
  <2> QED  BY <2>1 DEF AnswersInv, Pinned
<1> QED  BY <1>1, <1>2, <1>3, <1>4, <1>5, <1>6, <1>7, <1>8, <1>9
         DEF Next, ServerStep, RecoveryStep, SocketStep

\* Frames up to a number, after one more is sent and after one is routed.
LEMMA SentBelow ==
    ASSUME NEW s \in Seq(Frame), NEW t, NEW f \in Frame, NEW n \in Nat, f.seq <= n,
           \A i \in DOMAIN s : s[i].seq <= n, t = s \/ t = Append(s, f)
    PROVE  \A i \in DOMAIN t : t[i].seq <= n
<1>1. CASE t = s  BY <1>1
<1>2. CASE t = Append(s, f)
  <2>1. Len(t) = Len(s) + 1 /\ DOMAIN t = 1 .. Len(t) /\ DOMAIN s = 1 .. Len(s)  BY <1>2
  <2>2. \A i \in 1 .. Len(s) : t[i] = s[i]  BY <1>2
  <2>3. t[Len(s) + 1] = f  BY <1>2
  <2> QED  BY <2>1, <2>2, <2>3
<1> QED  BY <1>1, <1>2

\* Numbers up to the one that is appended.
LEMMA NumberedBelow ==
    ASSUME NEW s \in Seq(1 .. MaxSeq), NEW n \in 1 .. MaxSeq, \A i \in DOMAIN s : s[i] <= n
    PROVE  \A i \in DOMAIN Append(s, n) : Append(s, n)[i] <= n
<1> DEFINE t == Append(s, n)
<1>1. /\ t \in Seq(1 .. MaxSeq) /\ Len(t) = Len(s) + 1
      /\ \A i \in 1 .. Len(s) : t[i] = s[i]
      /\ t[Len(s) + 1] = n
  BY AppendProperties
<1>2. DOMAIN s = 1 .. Len(s) /\ Len(s) \in Nat  OBVIOUS
<1> HIDE DEF t
<1>3. DOMAIN t = 1 .. Len(s) + 1  BY <1>1
<1>4. n <= n  BY EventStreamAssumption
<1> QED  BY <1>1, <1>2, <1>3, <1>4 DEF t

\* Routing a frame leaves the others below the number they were below.
LEMMA RoutedBelow ==
    ASSUME NEW s \in Seq(Frame), s # << >>, NEW n, \A i \in DOMAIN s : s[i].seq <= n
    PROVE  \A i \in DOMAIN Tail(s) : Tail(s)[i].seq <= n
OBVIOUS

\* The buffer holds nothing newer than what was published last.
LEMMA RetainBelow ==
    ASSUME NEW s \in Seq(1 .. MaxSeq), s # << >>, NEW n, \A i \in DOMAIN s : s[i] <= n
    PROVE  \A i \in DOMAIN Retain(s) : Retain(s)[i] <= n
BY DEF Retain

\* Steps keep frames and buffer within the head.
LEMMA HeadStep == ASSUME TypeOK, HeadInv, Next PROVE HeadInv'
<1> USE DEF serverVars, clientVars, threadVars, ghostVars
<1>n. seq \in Nat  BY Numbers
<1>0. channel \in Seq(Frame) /\ buffer \in Seq(1 .. MaxSeq)  BY DEF TypeOK, SocketTypeOK, ServerTypeOK
<1>a. \A i \in DOMAIN channel : channel[i].seq \in Nat
  <2>1. DOMAIN channel = 1 .. Len(channel)  BY <1>0
  <2>2. \A i \in DOMAIN channel : channel[i] \in Frame  BY <1>0, <2>1, ElementOfSeq
  <2> QED  BY <2>2, EventStreamAssumption DEF Frame
<1>b. \A i \in DOMAIN buffer : buffer[i] \in Nat
  <2>1. DOMAIN buffer = 1 .. Len(buffer)  BY <1>0
  <2>2. \A i \in DOMAIN buffer : buffer[i] \in 1 .. MaxSeq  BY <1>0, <2>1, ElementOfSeq
  <2> QED  BY <2>2, EventStreamAssumption
<1>1. CASE Publish
  <2>1. seq' = seq + 1 /\ seq + 1 \in 1 .. MaxSeq  BY <1>1, PublishMoves, HeadType DEF Publish
  <2>2. \A i \in DOMAIN buffer' : buffer'[i] <= seq'
    <3> DEFINE b == Append(buffer, seq + 1)
    <3>0. \A i \in DOMAIN buffer : buffer[i] <= seq + 1  BY <1>b, <1>n DEF HeadInv
    <3>1. b \in Seq(1 .. MaxSeq) /\ b # << >>  BY <1>0, <2>1, AppendProperties
    <3>2. \A i \in DOMAIN b : b[i] <= seq + 1  BY <1>0, <2>1, <3>0, NumberedBelow
    <3>3. buffer' = Retain(b)  BY <1>1 DEF Publish
    <3> HIDE DEF b
    <3> QED  BY <2>1, <3>1, <3>2, <3>3, RetainBelow
  <2>3. \A i \in DOMAIN channel' : channel'[i].seq <= seq'
    <3>1. FrameOf("event", seq + 1) \in Frame /\ FrameOf("event", seq + 1).seq <= seq + 1
      BY <2>1, FrameType, FrameSeq
    <3>2. \A i \in DOMAIN channel : channel[i].seq <= seq + 1  BY <1>a, <1>n DEF HeadInv
    <3>3. channel' = channel \/ channel' = Append(channel, FrameOf("event", seq + 1))
      BY <1>1 DEF Publish, FanOut, Send
    <3>4. \A i \in DOMAIN channel' : channel'[i].seq <= seq + 1
      <4>1. seq + 1 \in Nat  BY <1>n
      <4> QED  BY <1>0, <3>1, <3>2, <3>3, <4>1, <1>n, SentBelow
    <3> QED  BY <2>1, <3>4
  <2> QED  BY <2>2, <2>3 DEF HeadInv
<1>2. CASE PublishUndeliverable
  <2>1. seq' = seq + 1 /\ seq + 1 \in 1 .. MaxSeq
    BY <1>2, PublishMoves, HeadType DEF PublishUndeliverable
  <2>2. FrameOf("resync", seq + 1) \in Frame /\ FrameOf("resync", seq + 1).seq <= seq + 1
    <3>1. seq + 1 \in 0 .. MaxSeq  BY <2>1
    <3> QED  BY <3>1, FrameType, FrameSeq
  <2>3. \A i \in DOMAIN channel : channel[i].seq <= seq + 1  BY <1>a, <1>n DEF HeadInv
  <2>4. channel' = channel \/ channel' = Append(channel, FrameOf("resync", seq + 1))
    BY <1>2 DEF PublishUndeliverable, Send
  <2>5. \A i \in DOMAIN channel' : channel'[i].seq <= seq + 1
    <3>1. seq + 1 \in Nat  BY <1>n
    <3> QED  BY <1>0, <2>2, <2>3, <2>4, <3>1, <1>n, SentBelow
  <2>6. buffer' = buffer  BY <1>2 DEF PublishUndeliverable
  <2>7. \A i \in DOMAIN buffer : buffer[i] <= seq + 1  BY <1>b, <1>n DEF HeadInv
  <2> QED  BY <2>1, <2>5, <2>6, <2>7 DEF HeadInv
<1>3. CASE Accept
  <2>1. seq' = seq /\ buffer' = buffer  BY <1>3 DEF Accept, seq
  <2> DEFINE ready == Append(channel, FrameOf("ready", seq))
  <2>2. /\ FrameOf("ready", seq) \in Frame /\ FrameOf("resync", seq) \in Frame
        /\ FrameOf("ready", seq).seq <= seq /\ FrameOf("resync", seq).seq <= seq
    BY HeadType, FrameType, FrameSeq
  <2>3. ready \in Seq(Frame)  BY <1>0, <2>2
  <2>4. \A i \in DOMAIN ready : ready[i].seq <= seq  BY <1>0, <2>2, <1>n, SentBelow DEF HeadInv
  <2>5. channel' = ready \/ channel' = Append(ready, FrameOf("resync", seq))  BY <1>3 DEF Accept
  <2> HIDE DEF ready
  <2>6. \A i \in DOMAIN channel' : channel'[i].seq <= seq  BY <2>2, <2>3, <2>4, <2>5, <1>n, SentBelow
  <2> QED  BY <2>1, <2>6 DEF HeadInv
<1>4. CASE PumpSend
  <2>1. seq' = seq /\ buffer' = buffer  BY <1>4 DEF PumpSend, seq
  <2>2. pump + 1 \in 1 .. MaxSeq /\ pump + 1 <= seq
    <3> DEFINE i == pump + 2 - Head(buffer)
    <3>1. i \in DOMAIN buffer /\ buffer[i] = pump + 1  BY <1>4 DEF PumpSend, CanReplay
    <3> HIDE DEF i
    <3>2. buffer[i] <= seq  BY <3>1 DEF HeadInv
    <3>3. pump \in Nat  BY DEF TypeOK, ServerTypeOK
    <3> QED  BY <3>1, <3>2, <3>3, HeadType, EventStreamAssumption
  <2>3. FrameOf("event", pump + 1) \in Frame /\ FrameOf("event", pump + 1).seq <= seq
    BY <2>2, FrameType, FrameSeq
  <2>4. channel' = Append(channel, FrameOf("event", pump + 1))  BY <1>4 DEF PumpSend, Send
  <2>5. \A i \in DOMAIN channel : channel[i].seq <= seq  BY DEF HeadInv
  <2>6. \A i \in DOMAIN channel' : channel'[i].seq <= seq
    BY <1>0, <2>3, <2>4, <2>5, <1>n, SentBelow
  <2> QED  BY <2>1, <2>6 DEF HeadInv
<1>5. CASE PumpExpired
  <2>1. seq' = seq /\ buffer' = buffer  BY <1>5 DEF PumpExpired, seq
  <2>2. FrameOf("resync", seq) \in Frame /\ FrameOf("resync", seq).seq <= seq
    BY HeadType, FrameType, FrameSeq
  <2>3. \A i \in DOMAIN channel' : channel'[i].seq <= seq
    BY <1>0, <1>5, <2>2, <1>n, SentBelow DEF PumpExpired, Send, HeadInv
  <2> QED  BY <2>1, <2>3 DEF HeadInv
<1>6. CASE Restart
  BY <1>6 DEF Restart, Drop, HeadInv
<1>7. CASE SocketLost \/ LoseFrames \/ ReceiveGap
  BY <1>7 DEF SocketLost, LoseFrames, ReceiveGap, Drop, HeadInv, seq
<1>8. CASE Dial
  BY <1>8 DEF Dial, HeadInv, seq
<1>9. CASE ReceiveReady \/ ReceiveResync \/ ReceiveEvent \/ FrameUnreadable
  <2>1. seq' = seq /\ buffer' = buffer
    BY <1>9 DEF ReceiveReady, ReceiveResync, ReceiveEvent, FrameUnreadable, seq
  <2>2. channel # << >> /\ channel' = Tail(channel)
    BY <1>9 DEF ReceiveReady, ReceiveResync, ReceiveEvent, FrameUnreadable, HasFrame, Consume
  <2>3. \A i \in DOMAIN channel' : channel'[i].seq <= seq
    BY <1>0, <2>2, RoutedBelow DEF HeadInv
  <2> QED  BY <2>1, <2>3 DEF HeadInv
<1>10. CASE PumpDone \/ RecoveryStep
  <2>1. seq' = seq /\ buffer' = buffer /\ channel' = channel
    BY <1>10 DEF PumpDone, RecoveryStep, Pin, Install, Reread, RecoveryFails, Retry, ShellRead, ShellReply, seq
  <2> QED  BY <2>1 DEF HeadInv
<1> QED  BY <1>1, <1>2, <1>3, <1>4, <1>5, <1>6, <1>7, <1>8, <1>9, <1>10 DEF Next, ServerStep, SocketStep

\* Frames sent behind the binding ones leave the binding ones in place.
LEMMA TunedAppend ==
    ASSUME TypeOK, Tuned, NEW f, f \in Frame,
           channel' = channel \/ channel' = Append(channel, f),
           resumeEpoch' = resumeEpoch, epoch' = epoch, dial' = dial
    PROVE  Tuned'
<1>1. channel \in Seq(Frame)  BY DEF TypeOK, SocketTypeOK
<1>2. CASE channel' = channel  BY <1>2 DEF Tuned
<1>3. CASE channel' = Append(channel, f)
  <2>1. Len(channel') = Len(channel) + 1 /\ channel' # << >>  BY <1>1, <1>3
  <2>2. channel # << >> => channel'[1] = channel[1]  BY <1>1, <1>3
  <2>3. channel # << >> => Head(channel') = Head(channel)  BY <1>1, <2>1, <2>2
  <2>4. Len(channel) > 1 => channel'[2] = channel[2]  BY <1>1, <1>3
  <2> QED  BY <1>1, <2>1, <2>3, <2>4 DEF Tuned
<1> QED  BY <1>2, <1>3

\* Steps keep a socket's client bound, or about to be.
LEMMA LinkStep == ASSUME TypeOK, LinkInv, Next PROVE LinkInv'
<1> USE Numbers DEF serverVars, clientVars, threadVars, ghostVars
<1>0. channel \in Seq(Frame)  BY DEF TypeOK, SocketTypeOK
<1>1. CASE Publish \/ PublishUndeliverable \/ PumpSend \/ PumpExpired
  <2>1. /\ resumeEpoch' = resumeEpoch /\ epoch' = epoch /\ dial' = dial /\ queue' = queue
    BY <1>1 DEF Publish, PublishUndeliverable, PumpSend, PumpExpired
  <2>2. \/ conn' = conn /\ conn \notin Linked /\ channel' = channel
        \/ conn' \in Linked /\ conn \in Linked
    BY <1>1 DEF Publish, PublishUndeliverable, PumpSend, PumpExpired, FanOut, Linked
  <2>3. \E f \in Frame : channel' = channel \/ channel' = Append(channel, f)
    <3>1. CASE Publish
      <4>1. FrameOf("event", seq + 1) \in Frame  BY <3>1, HeadType, FrameType DEF Publish
      <4> QED  BY <3>1, <4>1 DEF Publish, FanOut, Send
    <3>2. CASE PublishUndeliverable
      <4>1. FrameOf("resync", seq + 1) \in Frame
        BY <3>2, HeadType, FrameType DEF PublishUndeliverable
      <4> QED  BY <3>2, <4>1 DEF PublishUndeliverable, Send
    <3>3. CASE PumpSend
      <4>1. pump + 1 \in 1 .. MaxSeq
        BY <3>3, PumpRange
      <4> QED  BY <3>3, <4>1, FrameType DEF PumpSend, Send
    <3>4. CASE PumpExpired
      BY <3>4, HeadType, FrameType DEF PumpExpired, Send
    <3> QED  BY <1>1, <3>1, <3>2, <3>3, <3>4
  <2>4. conn' \in Linked => Tuned'  BY <2>1, <2>2, <2>3, TunedAppend DEF LinkInv
  <2>5. conn' = "dialing" => dial'.epoch = resumeEpoch' /\ channel' = << >>
    BY <2>1, <2>2 DEF LinkInv, Linked
  <2> QED  BY <2>1, <2>4, <2>5 DEF LinkInv
<1>2. CASE Accept
  <2>1. /\ resumeEpoch' = resumeEpoch /\ epoch' = epoch /\ dial' = dial /\ queue' = queue
        /\ conn' \in Linked /\ dial.epoch = resumeEpoch /\ channel = << >>
    BY <1>2 DEF Accept, LinkInv, Linked
  <2> DEFINE ready == FrameOf("ready", seq)  resync == FrameOf("resync", seq)
  <2>2. channel' = <<ready>> \/ channel' = <<ready, resync>>
    BY <1>2, <2>1 DEF Accept
  <2>3. ready.kind = "ready" /\ resync.kind = "resync"  BY FrameSeq
  <2>4. ~Verified => channel' = <<ready, resync>>  BY <1>2, <2>1 DEF Accept
  <2> HIDE DEF ready, resync
  <2>5. channel' # << >> /\ Head(channel').kind = "ready"  BY <2>2, <2>3
  <2>6. CASE ~Verified
    <3>0. channel' = <<ready, resync>>  BY <2>4, <2>6
    <3>1. Len(channel') > 1 /\ channel'[2] = resync  BY <3>0
    <3>2. channel'[2].kind = "resync"  BY <2>3, <3>1
    <3> QED  BY <2>1, <2>5, <3>1, <3>2 DEF LinkInv, Tuned, Linked
  <2>7. CASE Verified
    BY <2>1, <2>5, <2>7 DEF LinkInv, Tuned, Linked, Verified
  <2> QED  BY <2>6, <2>7
<1>3. CASE PumpDone
  BY <1>3 DEF PumpDone, LinkInv, Tuned, Linked
<1>4. CASE Restart \/ SocketLost \/ LoseFrames \/ ReceiveGap
  BY <1>4 DEF Restart, SocketLost, LoseFrames, ReceiveGap, Drop, LinkInv, Linked
<1>5. CASE RecoveryStep
  <2>1. /\ resumeEpoch' = resumeEpoch /\ epoch' = epoch /\ dial' = dial /\ conn' = conn
        /\ channel' = channel /\ (queue' = queue \/ queue' = {})
    BY <1>5 DEF RecoveryStep, Pin, Install, Reread, RecoveryFails, Retry, ShellRead, ShellReply
  <2> QED  BY <2>1 DEF LinkInv, Tuned
<1>6. CASE Dial
  BY <1>6 DEF Dial, LinkInv, Linked
<1>7. CASE ReceiveResync
  <2>1. resumeEpoch' = epoch' /\ epoch' = epoch /\ conn' = conn /\ conn \in Linked
    BY <1>7 DEF ReceiveResync, ApplyResync, Bind, HasFrame
  <2> QED  BY <2>1 DEF LinkInv, Tuned, Linked, Epochs
<1>8. CASE ReceiveReady
  <2>1. conn' = conn /\ conn \in Linked /\ epoch' = epoch /\ dial' = dial /\ channel # << >>
        /\ Head(channel).kind = "ready" /\ channel' = Tail(channel)
    BY <1>8 DEF ReceiveReady, HasFrame, Consume
  <2>2. CASE resumeEpoch' = epoch
    BY <2>1, <2>2 DEF LinkInv, Tuned, Linked, Epochs
  <2>3. CASE resumeEpoch' # epoch
    <3>1. dial.cursor # 0 /\ resumeEpoch # epoch /\ resumeEpoch' = resumeEpoch /\ queue' = queue
      BY <1>8, <2>3 DEF ReceiveReady, ApplyResync, Bind
    <3>2. Len(channel) > 1 /\ channel[2].kind = "resync"
      BY <2>1, <3>1 DEF LinkInv, Tuned
    <3>3. Len(channel') = Len(channel) - 1 /\ channel' \in Seq(Frame)  BY <1>0, <2>1
    <3>4. channel' # << >>  BY <1>0, <3>2, <3>3
    <3>5. channel'[1] = channel[2]  BY <1>0, <2>1, <3>2
    <3>6. Head(channel') = channel[2]  BY <3>3, <3>4, <3>5
    <3> QED  BY <2>1, <3>1, <3>2, <3>4, <3>6 DEF LinkInv, Tuned, Linked
  <2> QED  BY <2>2, <2>3
<1>9. CASE ReceiveEvent \/ FrameUnreadable
  <2>1. conn' = conn /\ conn \in Linked /\ epoch' = epoch /\ resumeEpoch' = resumeEpoch
        /\ channel # << >> /\ Head(channel).kind = "event"
    BY <1>9 DEF ReceiveEvent, FrameUnreadable, HasFrame
  <2>2. resumeEpoch = epoch  BY <2>1 DEF LinkInv, Tuned
  <2> QED  BY <2>1, <2>2 DEF LinkInv, Tuned, Linked, Epochs
<1> QED  BY <1>1, <1>2, <1>3, <1>4, <1>5, <1>6, <1>7, <1>8, <1>9 DEF Next, ServerStep, SocketStep

\* Steps keep the watermark within the head of the bound instance.
LEMMA WatermarkStep ==
    ASSUME TypeOK, AnswersInv, HeadInv, WatermarkWithinHead, Next
    PROVE  WatermarkWithinHead'
<1> USE Numbers DEF serverVars, clientVars, threadVars, ghostVars
<1>1. CASE Publish \/ PublishUndeliverable
  <2>1. resumeEpoch' = resumeEpoch /\ resumeSeq' = resumeSeq /\ epoch' = epoch
    BY <1>1 DEF Publish, PublishUndeliverable
  <2> QED  BY <1>1, <2>1, PublishMoves DEF WatermarkWithinHead
<1>2. CASE Restart
  BY <1>2 DEF Restart, AnswersInv, WatermarkWithinHead
<1>3. CASE Install
  <2>1. resumeEpoch' = resumeEpoch /\ epoch' = epoch /\ seq' = seq
        /\ resumeSeq' = Larger(resumeSeq, rec.seq)
    BY <1>3 DEF Install, seq
  <2>2. resumeEpoch = epoch => rec.seq <= seq
    BY <1>3 DEF Install, AnswersInv, Pinned, seq
  <2> QED  BY <2>1, <2>2 DEF WatermarkWithinHead, Larger
<1>4. CASE ShellReply
  <2>1. resumeEpoch' = resumeEpoch /\ epoch' = epoch /\ seq' = seq
        /\ resumeSeq' = IF shell.fence = fence THEN Larger(resumeSeq, shell.seq) ELSE resumeSeq
    BY <1>4 DEF ShellReply, seq
  <2>2. resumeEpoch = epoch /\ shell.fence = fence => shell.seq <= seq
    BY <1>4 DEF ShellReply, AnswersInv, Pinned, seq
  <2> QED  BY <2>1, <2>2 DEF WatermarkWithinHead, Larger
<1>5. CASE ReceiveReady \/ ReceiveResync
  <2>1. seq' = seq /\ Head(channel).seq <= seq
    <3>1. channel # << >> /\ channel \in Seq(Frame)
      BY <1>5 DEF ReceiveReady, ReceiveResync, HasFrame, TypeOK, SocketTypeOK
    <3>2. Head(channel).seq <= seq  BY <3>1 DEF HeadInv
    <3> QED  BY <1>5, <3>2 DEF ReceiveReady, ReceiveResync, seq
  <2>2. epoch' = epoch /\ \/ resumeEpoch' = resumeEpoch /\ resumeSeq' = resumeSeq
                          \/ resumeSeq' = 0
                          \/ resumeSeq' = Head(channel).seq
    BY <1>5 DEF ReceiveReady, ReceiveResync, ApplyResync, Bind
  <2> QED  BY <2>1, <2>2 DEF WatermarkWithinHead
<1>6. CASE ReceiveEvent
  <2>1. channel # << >> /\ channel \in Seq(Frame)
    BY <1>6 DEF ReceiveEvent, HasFrame, TypeOK, SocketTypeOK
  <2>2. Head(channel).seq <= seq /\ Head(channel).seq \in Nat
    <3>1. Head(channel).seq <= seq  BY <2>1 DEF HeadInv
    <3>2. Head(channel).seq \in 0 .. MaxSeq  BY <1>6, <2>1, RoutedType DEF ReceiveEvent
    <3> QED  BY <3>1, <3>2, EventStreamAssumption
  <2>3. epoch' = epoch /\ resumeEpoch' = resumeEpoch /\ seq' = seq
        /\ resumeSeq' = Larger(resumeSeq, Head(channel).seq)
    BY <1>6 DEF ReceiveEvent, seq
  <2> QED  BY <2>2, <2>3 DEF WatermarkWithinHead, Larger
<1>7. CASE Accept \/ PumpSend \/ PumpExpired \/ PumpDone \/ Pin \/ Reread \/ RecoveryFails \/ Retry
           \/ ShellRead \/ Dial \/ SocketLost \/ LoseFrames \/ ReceiveGap \/ FrameUnreadable
  <2>1. epoch' = epoch /\ resumeEpoch' = resumeEpoch /\ seq' = seq /\ resumeSeq' = resumeSeq
    BY <1>7 DEF Accept, PumpSend, PumpExpired, PumpDone, Pin, Reread, RecoveryFails, Retry,
                ShellRead, Dial, SocketLost, LoseFrames, ReceiveGap, FrameUnreadable, seq
  <2> QED  BY <2>1 DEF WatermarkWithinHead
<1> QED  BY <1>1, <1>2, <1>3, <1>4, <1>5, <1>6, <1>7
         DEF Next, ServerStep, RecoveryStep, SocketStep

\* Steps keep deltas of an instance that is gone out of the queue.
LEMMA QueueStep ==
    ASSUME TypeOK, AnswersInv, LinkInv, QueueIsOfThisInstance, Next
    PROVE  QueueIsOfThisInstance'
<1> USE Numbers DEF serverVars, clientVars, threadVars, ghostVars
<1>1. CASE Restart
  BY <1>1 DEF Restart, AnswersInv, QueueIsOfThisInstance
<1>2. CASE ReceiveReady
  <2>1. \/ resumeEpoch' = resumeEpoch /\ queue' = queue
        \/ resumeEpoch = 0 /\ queue' = queue
        \/ queue' = {}
    BY <1>2 DEF ReceiveReady, ApplyResync
  <2>2. epoch' = epoch  BY <1>2 DEF ReceiveReady
  <2> QED  BY <2>1, <2>2 DEF LinkInv, QueueIsOfThisInstance
<1>3. CASE ReceiveResync
  <2>1. epoch' = epoch /\ (queue' = {} \/ (queue' = queue /\ resumeEpoch \in {0, epoch}))
    BY <1>3 DEF ReceiveResync, ApplyResync
  <2> QED  BY <2>1 DEF LinkInv, QueueIsOfThisInstance
<1>4. CASE ReceiveEvent
  <2> DEFINE ev == <<epoch, Head(channel).seq>>
  <2>1. epoch' = epoch /\ resumeEpoch' = resumeEpoch
        /\ (queue' = queue \/ queue' = queue \cup {ev})
    BY <1>4 DEF ReceiveEvent
  <2>2. ev[1] = epoch  OBVIOUS
  <2> HIDE DEF ev
  <2> QED  BY <2>1, <2>2 DEF QueueIsOfThisInstance
<1>5. CASE Install
  BY <1>5 DEF Install, QueueIsOfThisInstance
<1>6. CASE ~Restart /\ ~ReceiveReady /\ ~ReceiveResync /\ ~ReceiveEvent /\ ~Install
  <2>1. epoch' = epoch /\ resumeEpoch' = resumeEpoch /\ queue' = queue
    BY <1>6 DEF Next, ServerStep, RecoveryStep, SocketStep, Publish, PublishUndeliverable, Accept,
                PumpSend, PumpExpired, PumpDone, Pin, Reread, RecoveryFails, Retry, ShellRead,
                ShellReply, Dial, SocketLost, LoseFrames, ReceiveGap, FrameUnreadable
  <2> QED  BY <2>1 DEF QueueIsOfThisInstance
<1> QED  BY <1>1, <1>2, <1>3, <1>4, <1>5, <1>6

\* The initial state satisfies the invariant.
LEMMA SyncInit == Init => SyncInv
<1> SUFFICES ASSUME Init PROVE SyncInv  OBVIOUS
<1> USE EventStreamAssumption DEF Init
<1>1. AnswersInv  BY DEF AnswersInv
<1>2. HeadInv  BY DEF HeadInv
<1>3. LinkInv  BY DEF LinkInv, Linked
<1>4. WatermarkWithinHead /\ QueueIsOfThisInstance
  BY DEF WatermarkWithinHead, QueueIsOfThisInstance, seq, Epochs
<1> QED  BY <1>1, <1>2, <1>3, <1>4 DEF SyncInv

\* The invariant is inductive.
LEMMA SyncStep == TypeOK /\ SyncInv /\ [Next]_vars => SyncInv'
<1> SUFFICES ASSUME TypeOK, SyncInv, [Next]_vars PROVE SyncInv'  OBVIOUS
<1>1. CASE Next
  BY <1>1, AnswersStep, HeadStep, LinkStep, WatermarkStep, QueueStep DEF SyncInv
<1>2. CASE UNCHANGED vars
  BY <1>2 DEF SyncInv, AnswersInv, Pinned, HeadInv, LinkInv, Tuned, WatermarkWithinHead,
              QueueIsOfThisInstance, seq, vars, serverVars, clientVars, threadVars
<1> QED  BY <1>1, <1>2

\* While the client is bound to the running instance, no answer of an earlier
\* one and no frame raises its resume watermark over that instance's head.
THEOREM WatermarkHolds == Spec => []WatermarkWithinHead
<1>1. Init => TypeOK /\ SyncInv  BY TypeInit, SyncInit
<1>2. TypeOK /\ SyncInv /\ [Next]_vars => (TypeOK /\ SyncInv)'  BY TypeStep, SyncStep
<1>3. SyncInv => WatermarkWithinHead  BY DEF SyncInv
<1> QED  BY <1>1, <1>2, <1>3, PTL DEF Spec

\* No delta of an instance that is gone is ever queued behind a baseline of the
\* instance the client is bound to.
THEOREM QueueHolds == Spec => []QueueIsOfThisInstance
<1>1. Init => TypeOK /\ SyncInv  BY TypeInit, SyncInit
<1>2. TypeOK /\ SyncInv /\ [Next]_vars => (TypeOK /\ SyncInv)'  BY TypeStep, SyncStep
<1>3. SyncInv => QueueIsOfThisInstance  BY DEF SyncInv
<1> QED  BY <1>1, <1>2, <1>3, PTL DEF Spec

-----------------------------------------------------------------------------
(***************************************************************************)
(* The invariant behind the two promises about the transcript: every       *)
(* published event is accounted for, and none is applied twice.            *)
(***************************************************************************)
\* The numbers of the frames on their way.
Deltas  == {n \in 1 .. MaxSeq : \E i \in DOMAIN channel : channel[i].kind = "event" /\ channel[i].seq = n}
Resyncs == {n \in 0 .. MaxSeq : \E i \in DOMAIN channel : channel[i].kind = "resync" /\ channel[i].seq = n}

\* Frames go out in order: no event twice, no event behind a resync that
\* covers it, and the pump behind what it has sent.
InOrder ==
    \A i, j \in DOMAIN channel :
       i < j => /\ channel[j].kind = "resync" => channel[i].seq <= channel[j].seq
                /\ channel[i].kind = "event" /\ channel[j].kind = "event" =>
                      channel[i].seq < channel[j].seq
OrderInv ==
    /\ InOrder
    /\ conn = "replaying" => pump <= seq /\ \A n \in Deltas : n <= pump

\* The socket still carries the event, or the pump has it before it.
Covered(n) == n \in Deltas \/ (conn = "replaying" /\ n > pump)

\* A socket that is up carries every event of the instance, or a resync over
\* it, unless it began above it.
StreamInv ==
    /\ conn = "dialing" => dial.cursor <= resumeSeq
    /\ conn \in Linked =>
          \A m \in 1 .. seq : \/ Covered(m)
                              \/ \E n \in Resyncs : m <= n
                              \/ Resyncs = {} /\ (resumeEpoch = epoch \/ dial.cursor > 0)

\* What the transcript, the queue and the answer consist of.
HeldInv ==
    /\ \A e \in Epochs : e > epoch => heads[e] = 0
    /\ shown \subseteq Published
    /\ queue \subseteq Published
    /\ \A ev \in queue : ev[1] = resumeEpoch
    /\ \A ev \in unreadable : ev[1] = epoch
    /\ rec.at = "idle" => queue = {}
    /\ rec.at = "pinned" => shown \subseteq Read

\* The event will still be sent, or passed over in one of the known ways.
Coming(ev) ==
    \/ conn = "lost" \/ resumeEpoch # epoch
    \/ /\ ev[1] = epoch
       /\ \/ conn = "none"
          \/ conn = "dialing" /\ ev[2] > dial.cursor
          \/ conn \in Linked /\ (Covered(ev[2]) \/ Resyncs # {})

Accounted(ev) == ev \in shown \cup queue \cup Excused \/ Awaited(ev) \/ Coming(ev)
AccountedInv == \A ev \in Published : Accounted(ev)

\* The events applied one by one, which no history read covers.
Applied ==
    {ev \in Events : /\ ev[1] = epoch
                     /\ \/ ev \in queue
                        \/ rec.at = "idle" /\ ev \in shown /\ ev \notin UpTo(baseline.epoch, baseline.seq)}

\* What is on its way is newer than what was applied.
OnceInv ==
    /\ resumeEpoch = 0 /\ rec.at = "idle" => shown \subseteq UpTo(baseline.epoch, baseline.seq)
    /\ resumeEpoch \in {0, epoch} => doubled = {}
    /\ resumeEpoch = epoch =>
          \A ev \in Applied :
             /\ ev[2] <= resumeSeq
             /\ conn = "dialing" => ev[2] <= dial.cursor
             /\ conn = "replaying" => ev[2] <= pump
             /\ \A n \in Deltas : ev[2] < n
             /\ \A n \in Resyncs : ev[2] <= n

CareInv == OrderInv /\ StreamInv /\ HeldInv /\ AccountedInv /\ OnceInv

\* The channel after a frame is sent.
LEMMA Sent ==
    ASSUME TypeOK, NEW f \in Frame, channel' = Append(channel, f)
    PROVE  /\ \A i \in DOMAIN channel : i \in DOMAIN channel' /\ channel'[i] = channel[i]
           /\ \A i \in DOMAIN channel' :
                 i \in DOMAIN channel \/ (channel'[i] = f /\ \A j \in DOMAIN channel' : ~(i < j))
           /\ \E i \in DOMAIN channel' : channel'[i] = f
<1>1. channel \in Seq(Frame)  BY DEF TypeOK, SocketTypeOK
<1>2. /\ Len(channel') = Len(channel) + 1 /\ Len(channel) \in Nat
      /\ DOMAIN channel' = 1 .. Len(channel) + 1 /\ DOMAIN channel = 1 .. Len(channel)
  BY <1>1
<1>3. \A i \in 1 .. Len(channel) : channel'[i] = channel[i]  BY <1>1
<1>4. channel'[Len(channel) + 1] = f  BY <1>1
<1> QED  BY <1>2, <1>3, <1>4

\* The channel after its first frame is routed.
LEMMA Routed ==
    ASSUME TypeOK, channel # << >>, channel' = Tail(channel)
    PROVE  /\ 1 \in DOMAIN channel /\ channel[1] = Head(channel)
           /\ \A i \in DOMAIN channel' : /\ i \in Nat /\ i + 1 \in DOMAIN channel /\ 1 < i + 1
                                         /\ channel'[i] = channel[i + 1]
           /\ \A i \in DOMAIN channel : i = 1 \/ \E j \in DOMAIN channel' : channel'[j] = channel[i]
<1>1. channel \in Seq(Frame)  BY DEF TypeOK, SocketTypeOK
<1>2. /\ Len(channel') = Len(channel) - 1 /\ Len(channel) \in Nat \ {0}
      /\ DOMAIN channel' = 1 .. Len(channel) - 1 /\ DOMAIN channel = 1 .. Len(channel)
  BY <1>1
<1>3. \A i \in 1 .. Len(channel) - 1 : channel'[i] = channel[i + 1]  BY <1>1
<1>4. \A i \in DOMAIN channel : i = 1 \/ (i - 1 \in DOMAIN channel' /\ channel'[i - 1] = channel[i])
  <2> SUFFICES ASSUME NEW i \in 1 .. Len(channel), i # 1
               PROVE  i - 1 \in 1 .. Len(channel) - 1 /\ channel'[i - 1] = channel[i]
    BY <1>2
  <2>1. i - 1 \in 1 .. Len(channel) - 1 /\ (i - 1) + 1 = i  BY <1>2
  <2> QED  BY <1>2, <1>3, <2>1
<1>5. \A i \in DOMAIN channel' : /\ i \in Nat /\ i + 1 \in DOMAIN channel /\ 1 < i + 1
                                /\ channel'[i] = channel[i + 1]
  BY <1>2, <1>3
<1>6. 1 \in DOMAIN channel /\ channel[1] = Head(channel)
  BY <1>1, <1>2
<1> QED  BY <1>4, <1>5, <1>6

\* Frames on their way are frames.
LEMMA OnTheWay ==
    ASSUME TypeOK
    PROVE  \A i \in DOMAIN channel :
              /\ channel[i].seq \in 0 .. MaxSeq
              /\ channel[i].kind = "event" => channel[i].seq \in 1 .. MaxSeq
              /\ channel[i].kind \in {"ready", "resync", "event"}
<1>1. \A i \in DOMAIN channel : channel[i] \in Frame
  BY ElementOfSeq DEF TypeOK, SocketTypeOK
<1> QED  BY <1>1, EventStreamAssumption DEF Frame

\* What sending a frame adds to the numbers on their way.
LEMMA SentNumbers ==
    ASSUME TypeOK, NEW f \in Frame, channel' = Append(channel, f)
    PROVE  /\ Deltas' = IF f.kind = "event" THEN Deltas \cup {f.seq} ELSE Deltas
           /\ Resyncs' = IF f.kind = "resync" THEN Resyncs \cup {f.seq} ELSE Resyncs
<1>1. /\ f.seq \in 0 .. MaxSeq /\ (f.kind = "event" => f.seq \in 1 .. MaxSeq)
  BY EventStreamAssumption DEF Frame
<1> QED  BY <1>1, Sent DEF Deltas, Resyncs

\* What routing a frame takes away.
LEMMA RoutedNumbers ==
    ASSUME TypeOK, channel # << >>, channel' = Tail(channel)
    PROVE  /\ Head(channel).kind = "event" => Deltas = Deltas' \cup {Head(channel).seq}
           /\ Head(channel).kind # "event" => Deltas' = Deltas
           /\ Head(channel).kind = "resync" => Resyncs = Resyncs' \cup {Head(channel).seq}
           /\ Head(channel).kind # "resync" => Resyncs' = Resyncs
<1>1. \A i \in DOMAIN channel' : i + 1 \in DOMAIN channel /\ channel'[i] = channel[i + 1]
  BY Routed
<1>2. \A i \in DOMAIN channel :
         channel[i] = Head(channel) \/ \E j \in DOMAIN channel' : channel'[j] = channel[i]
  BY Routed
<1>3. \E i \in DOMAIN channel : channel[i] = Head(channel)
  BY Routed
<1>4. /\ Head(channel).seq \in 0 .. MaxSeq
      /\ Head(channel).kind = "event" => Head(channel).seq \in 1 .. MaxSeq
  BY <1>3, OnTheWay
<1>5. \A n : n \in Deltas <=> n \in Deltas' \/ (Head(channel).kind = "event" /\ n = Head(channel).seq)
  <2>1. ASSUME NEW n \in Deltas PROVE n \in Deltas' \/ (Head(channel).kind = "event" /\ n = Head(channel).seq)
    <3>1. PICK i \in DOMAIN channel : channel[i].kind = "event" /\ channel[i].seq = n /\ n \in 1 .. MaxSeq
      BY DEF Deltas
    <3>2. channel[i] = Head(channel) \/ \E j \in DOMAIN channel' : channel'[j] = channel[i]
      BY <1>2
    <3> QED  BY <3>1, <3>2 DEF Deltas
  <2>2. ASSUME NEW n \in Deltas' PROVE n \in Deltas
    BY <1>1 DEF Deltas
  <2>3. Head(channel).kind = "event" => Head(channel).seq \in Deltas
    BY <1>3, <1>4 DEF Deltas
  <2> QED  BY <2>1, <2>2, <2>3
<1>6. \A n : n \in Resyncs <=> n \in Resyncs' \/ (Head(channel).kind = "resync" /\ n = Head(channel).seq)
  <2>1. ASSUME NEW n \in Resyncs PROVE n \in Resyncs' \/ (Head(channel).kind = "resync" /\ n = Head(channel).seq)
    <3>1. PICK i \in DOMAIN channel : channel[i].kind = "resync" /\ channel[i].seq = n /\ n \in 0 .. MaxSeq
      BY DEF Resyncs
    <3>2. channel[i] = Head(channel) \/ \E j \in DOMAIN channel' : channel'[j] = channel[i]
      BY <1>2
    <3> QED  BY <3>1, <3>2 DEF Resyncs
  <2>2. ASSUME NEW n \in Resyncs' PROVE n \in Resyncs
    BY <1>1 DEF Resyncs
  <2>3. Head(channel).kind = "resync" => Head(channel).seq \in Resyncs
    BY <1>3, <1>4 DEF Resyncs
  <2> QED  BY <2>1, <2>2, <2>3
<1> QED  BY <1>5, <1>6

\* What is behind the first frame is not older.
LEMMA RoutedOrder ==
    ASSUME TypeOK, OrderInv, channel # << >>, channel' = Tail(channel)
    PROVE  /\ \A n \in Resyncs' : Head(channel).seq <= n
           /\ Head(channel).kind = "event" => \A n \in Deltas' : Head(channel).seq < n
<1>1. \A i \in DOMAIN channel' : i + 1 \in DOMAIN channel /\ 1 < i + 1 /\ channel'[i] = channel[i + 1]
  BY Routed
<1>2. 1 \in DOMAIN channel /\ channel[1] = Head(channel)
  BY Routed
<1> QED  BY <1>1, <1>2 DEF OrderInv, InOrder, Deltas, Resyncs


\* Sending a frame that is not older than those before it keeps their order.
LEMMA OrderSent ==
    ASSUME TypeOK, InOrder, NEW f \in Frame, channel' = Append(channel, f),
           f.kind = "resync" => \A i \in DOMAIN channel : channel[i].seq <= f.seq,
           f.kind = "event" => \A n \in Deltas : n < f.seq
    PROVE  InOrder'
<1>1. \A i \in DOMAIN channel : channel[i].kind = "event" => channel[i].seq \in Deltas
  BY OnTheWay DEF Deltas
<1> QED  BY <1>1, Sent DEF InOrder

\* Routing a frame keeps the order of the others.
LEMMA OrderRouted ==
    ASSUME TypeOK, InOrder, channel # << >>, channel' = Tail(channel)
    PROVE  InOrder'
<1>1. \A i \in DOMAIN channel' : i \in Nat /\ i + 1 \in DOMAIN channel /\ channel'[i] = channel[i + 1]
  BY Routed
<1> QED  BY <1>1 DEF InOrder

\* What the pump sends next is on its way to the head.
LEMMA PumpNext ==
    ASSUME TypeOK, HeadInv, PumpSend
    PROVE  pump \in Nat /\ pump + 1 \in 1 .. MaxSeq /\ pump + 1 <= seq
<1> DEFINE i == pump + 2 - Head(buffer)
<1>1. i \in DOMAIN buffer /\ buffer[i] = pump + 1  BY DEF PumpSend, CanReplay
<1> HIDE DEF i
<1>2. buffer[i] <= seq  BY <1>1 DEF HeadInv
<1>3. pump \in Nat  BY DEF TypeOK, ServerTypeOK
<1> QED  BY <1>1, <1>2, <1>3, PumpRange

\* A socket that ends leaves nothing on its way.
LEMMA Dropped ==
    ASSUME TypeOK, NEW c, Drop(c)
    PROVE  conn' = c /\ channel' = << >> /\ Deltas' = {} /\ Resyncs' = {}
BY DEF Drop, Deltas, Resyncs

\* Steps keep the frames in order.
LEMMA OrderStep == ASSUME TypeOK, SyncInv, OrderInv, Next PROVE OrderInv'
<1> USE Numbers DEF serverVars, clientVars, threadVars, ghostVars
<1>h. /\ \A i \in DOMAIN channel : channel[i].seq <= seq
      /\ \A n \in Deltas : n \in Nat /\ n <= seq
  BY EventStreamAssumption DEF SyncInv, HeadInv, Deltas
<1>1. CASE Publish
  <2>1. seq' = seq + 1 /\ seq + 1 \in 1 .. MaxSeq  BY <1>1, PublishMoves, HeadType DEF Publish
  <2>2. FrameOf("event", seq + 1) \in Frame  BY <2>1, FrameType
  <2>3. CASE conn = "live"
    <3>1. channel' = Append(channel, FrameOf("event", seq + 1)) /\ conn' = "live"
      BY <1>1, <2>3 DEF Publish, FanOut, Send
    <3> QED  BY <1>h, <2>2, <3>1, FrameSeq, OrderSent DEF OrderInv
  <2>4. CASE conn # "live"
    <3>1. channel' = channel /\ conn' = conn /\ pump' = pump
      BY <1>1, <2>4 DEF Publish, FanOut
    <3>2. conn = "replaying" => pump \in Nat  BY DEF TypeOK, ServerTypeOK
    <3> QED  BY <2>1, <3>1, <3>2 DEF OrderInv, InOrder, Deltas
  <2> QED  BY <2>3, <2>4
<1>2. CASE PublishUndeliverable
  <2>1. seq' = seq + 1 /\ seq + 1 \in 0 .. MaxSeq
    BY <1>2, PublishMoves, HeadType DEF PublishUndeliverable
  <2>2. FrameOf("resync", seq + 1) \in Frame  BY <2>1, FrameType
  <2>3. CASE conn \in Linked
    <3>1. channel' = Append(channel, FrameOf("resync", seq + 1)) /\ conn' = "live"
      BY <1>2, <2>3 DEF PublishUndeliverable, Send
    <3>2. \A i \in DOMAIN channel : channel[i].seq <= seq + 1  BY <1>h, OnTheWay, EventStreamAssumption
    <3> QED  BY <2>2, <3>1, <3>2, FrameSeq, OrderSent DEF OrderInv
  <2>4. CASE conn \notin Linked
    BY <1>2, <2>4 DEF PublishUndeliverable, OrderInv, InOrder, Linked
  <2> QED  BY <2>3, <2>4
<1>3. CASE Accept
  <2>1. channel = << >> /\ seq' = seq
    BY <1>3 DEF Accept, SyncInv, LinkInv, seq
  <2> DEFINE ready == FrameOf("ready", seq)  resync == FrameOf("resync", seq)
  <2>2. channel' = <<ready>> \/ channel' = <<ready, resync>>
    BY <1>3, <2>1 DEF Accept
  <2>3. ready.kind = "ready" /\ resync.kind = "resync" /\ ready.seq = seq /\ resync.seq = seq
    BY FrameSeq
  <2> HIDE DEF ready, resync
  <2>4. InOrder' /\ Deltas' = {}
    BY <2>2, <2>3 DEF InOrder, Deltas
  <2>5. conn' = "replaying" => pump' <= seq
    BY <1>3 DEF Accept
  <2> QED  BY <2>1, <2>4, <2>5 DEF OrderInv
<1>4. CASE PumpSend
  <2>1. seq' = seq /\ conn' = conn /\ pump' = pump + 1 /\ conn = "replaying"
        /\ channel' = Append(channel, FrameOf("event", pump + 1))
    BY <1>4 DEF PumpSend, Send, seq
  <2>2. pump \in Nat /\ FrameOf("event", pump + 1) \in Frame /\ pump + 1 <= seq
    BY <1>4, PumpNext, FrameType DEF SyncInv
  <2>3. \A n \in Deltas : n <= pump /\ n \in Nat  BY <1>h, <2>1 DEF OrderInv
  <2>4. Deltas' = Deltas \cup {pump + 1}  BY <2>1, <2>2, SentNumbers, FrameSeq
  <2>5. InOrder'
    BY <2>1, <2>2, <2>3, FrameSeq, OrderSent DEF OrderInv
  <2> QED  BY <2>1, <2>2, <2>3, <2>4, <2>5 DEF OrderInv
<1>5. CASE PumpExpired
  <2>1. FrameOf("resync", seq) \in Frame  BY HeadType, FrameType
  <2>2. channel' = Append(channel, FrameOf("resync", seq)) /\ conn' = "live"
    BY <1>5 DEF PumpExpired, Send
  <2> QED  BY <1>h, <2>1, <2>2, FrameSeq, OrderSent DEF OrderInv
<1>6. CASE Restart \/ SocketLost \/ LoseFrames \/ ReceiveGap
  BY <1>6 DEF Restart, SocketLost, LoseFrames, ReceiveGap, Drop, OrderInv, InOrder
<1>7. CASE Dial
  BY <1>7 DEF Dial, OrderInv, InOrder
<1>8. CASE ReceiveReady \/ ReceiveResync \/ ReceiveEvent \/ FrameUnreadable
  <2>1. /\ seq' = seq /\ conn' = conn /\ pump' = pump
        /\ channel # << >> /\ channel' = Tail(channel)
    BY <1>8 DEF ReceiveReady, ReceiveResync, ReceiveEvent, FrameUnreadable, HasFrame, Consume, seq
  <2>2. Deltas' \subseteq Deltas  BY <2>1, RoutedNumbers, OnTheWay, Routed
  <2> QED  BY <2>1, <2>2, OrderRouted DEF OrderInv
<1>9. CASE PumpDone \/ RecoveryStep
  <2>1. channel' = channel /\ (conn' = "replaying" => conn = "replaying" /\ pump' = pump /\ seq' = seq)
    BY <1>9 DEF PumpDone, RecoveryStep, Pin, Install, Reread, RecoveryFails, Retry, ShellRead, ShellReply, seq
  <2> QED  BY <2>1 DEF OrderInv, InOrder, Deltas
<1> QED  BY <1>1, <1>2, <1>3, <1>4, <1>5, <1>6, <1>7, <1>8, <1>9 DEF Next, ServerStep, SocketStep


\* What publishing puts on its way.
LEMMA PublishSends ==
    ASSUME TypeOK, Publish
    PROVE  /\ conn' = conn /\ pump' = pump /\ Resyncs' = Resyncs
           /\ Deltas' = IF conn = "live" THEN Deltas \cup {seq + 1} ELSE Deltas
<1>1. FrameOf("event", seq + 1) \in Frame  BY HeadType, FrameType DEF Publish
<1>2. CASE conn = "live"
  <2>1. channel' = Append(channel, FrameOf("event", seq + 1))
    BY <1>2 DEF Publish, FanOut, Send
  <2> QED  BY <1>1, <1>2, <2>1, SentNumbers, FrameSeq DEF Publish
<1>3. CASE conn # "live"
  BY <1>3 DEF Publish, FanOut, Deltas, Resyncs
<1> QED  BY <1>2, <1>3

\* An event no socket carries leaves a resync behind everything sent.
LEMMA UndeliverableSends ==
    ASSUME TypeOK, PublishUndeliverable
    PROVE  IF conn \in Linked THEN conn' = "live" /\ Resyncs' = Resyncs \cup {seq + 1}
                              ELSE conn' = conn /\ pump' = pump
<1>1. FrameOf("resync", seq + 1) \in Frame
  <2>1. seq + 1 \in 0 .. MaxSeq  BY HeadType, EventStreamAssumption DEF PublishUndeliverable
  <2> QED  BY <2>1, FrameType
<1> QED  BY <1>1, SentNumbers, FrameSeq DEF PublishUndeliverable, Send

\* A socket begins with a ready frame, and a resync if it cannot resume.
LEMMA AcceptSends ==
    ASSUME TypeOK, LinkInv, Accept
    PROVE  /\ conn = "dialing" /\ conn' \in Linked /\ Deltas' = {}
           /\ \/ conn' = "live" /\ Resyncs' = {seq}
              \/ /\ dial.cursor <= seq /\ Resyncs' = {}
                 /\ conn' = (IF dial.cursor = seq THEN "live" ELSE "replaying")
           /\ conn' = "replaying" => pump' = dial.cursor
<1>1. channel = << >> /\ conn = "dialing" /\ conn' \in Linked
  BY DEF Accept, LinkInv, Linked
<1> DEFINE ready == FrameOf("ready", seq)  resync == FrameOf("resync", seq)
<1>2. ready.kind = "ready" /\ resync.kind = "resync" /\ ready.seq = seq /\ resync.seq = seq
  BY FrameSeq
<1>3. \/ conn' = "live" /\ channel' = <<ready, resync>>
      \/ /\ dial.cursor <= seq /\ channel' = <<ready>>
         /\ conn' = (IF dial.cursor = seq THEN "live" ELSE "replaying")
  BY <1>1 DEF Accept
<1>4. conn' = "replaying" => pump' = dial.cursor  BY DEF Accept
<1> HIDE DEF ready, resync
<1>5. Deltas' = {}  BY <1>2, <1>3 DEF Deltas
<1>6. channel' = <<ready, resync>> => Resyncs' = {seq}
  BY <1>2, HeadType DEF Resyncs
<1>7. channel' = <<ready>> => Resyncs' = {}
  BY <1>2 DEF Resyncs
<1> QED  BY <1>1, <1>3, <1>4, <1>5, <1>6, <1>7

\* The pump sends the next event, and hands over to a resync when it cannot.
LEMMA PumpSends ==
    ASSUME TypeOK, HeadInv, PumpSend
    PROVE  /\ conn = "replaying" /\ conn' = conn /\ pump \in Nat /\ pump' = pump + 1 /\ pump + 1 <= seq
           /\ Deltas' = Deltas \cup {pump + 1} /\ Resyncs' = Resyncs
<1>1. conn = "replaying" /\ conn' = conn /\ pump' = pump + 1
      /\ channel' = Append(channel, FrameOf("event", pump + 1))
  BY DEF PumpSend, Send
<1> QED  BY <1>1, PumpNext, FrameType, FrameSeq, SentNumbers

LEMMA ExpiredSends ==
    ASSUME TypeOK, PumpExpired
    PROVE  conn = "replaying" /\ conn' = "live" /\ Deltas' = Deltas /\ Resyncs' = Resyncs \cup {seq}
BY HeadType, FrameType, FrameSeq, SentNumbers DEF PumpExpired, Send

\* Steps keep a socket that is up in charge of every event.
LEMMA StreamStep == ASSUME TypeOK, SyncInv, OrderInv, StreamInv, Next PROVE StreamInv'
<1> USE Numbers DEF serverVars, clientVars, threadVars, ghostVars
<1>0. pump \in Nat /\ dial.cursor \in Nat  BY DEF TypeOK, ServerTypeOK, SocketTypeOK, Cursor
<1>1. CASE Publish
  <2>1. seq' = seq + 1 /\ seq + 1 \in 1 .. MaxSeq  BY <1>1, PublishMoves, HeadType DEF Publish
  <2>2. UNCHANGED <<resumeSeq, resumeEpoch, epoch, dial>>  BY <1>1 DEF Publish
  <2>3. conn \in Linked => \A m : m = seq + 1 => Covered(m)'
    BY <1>0, <1>1, PublishSends DEF Covered, Linked, OrderInv
  <2>4. \A m \in 1 .. seq : Covered(m) => Covered(m)'
    BY <1>1, PublishSends DEF Covered
  <2>5. conn' = conn /\ Resyncs' = Resyncs  BY <1>1, PublishSends
  <2>6. 1 .. seq' = 1 .. seq \cup {seq + 1}  BY <2>1
  <2> QED  BY <2>2, <2>3, <2>4, <2>5, <2>6 DEF StreamInv
<1>2. CASE PublishUndeliverable
  <2>1. seq' = seq + 1  BY <1>2, PublishMoves
  <2>2. UNCHANGED <<resumeSeq, resumeEpoch, epoch, dial>>  BY <1>2 DEF PublishUndeliverable
  <2>3. CASE conn \in Linked
    <3>1. conn' = "live" /\ seq' \in Resyncs'  BY <1>2, <2>1, <2>3, UndeliverableSends
    <3> QED  BY <2>1, <3>1 DEF StreamInv
  <2>4. CASE conn \notin Linked
    BY <1>2, <2>2, <2>4, UndeliverableSends DEF StreamInv
  <2> QED  BY <2>3, <2>4
<1>3. CASE Accept
  <2>1. seq' = seq /\ dial' = dial  BY <1>3 DEF Accept, seq
  <2>2. LinkInv  BY DEF SyncInv
  <2> QED  BY <1>0, <1>3, <2>1, <2>2, AcceptSends DEF StreamInv, Covered, Linked
<1>4. CASE PumpSend
  <2>1. UNCHANGED <<resumeEpoch, epoch, dial, seq>>  BY <1>4 DEF PumpSend, seq
  <2>2. HeadInv  BY DEF SyncInv
  <2> QED  BY <1>4, <2>1, <2>2, PumpSends DEF StreamInv, Covered, Linked
<1>5. CASE PumpExpired
  <2>1. seq' = seq  BY <1>5 DEF PumpExpired, seq
  <2> QED  BY <1>5, <2>1, ExpiredSends DEF StreamInv
<1>6. CASE PumpDone
  <2>1. /\ UNCHANGED <<resumeEpoch, epoch, dial, seq, channel>>
        /\ conn = "replaying" /\ conn' = "live" /\ pump = seq
    BY <1>6 DEF PumpDone, seq
  <2>2. Deltas' = Deltas /\ Resyncs' = Resyncs  BY <2>1 DEF Deltas, Resyncs
  <2> QED  BY <1>0, <2>1, <2>2 DEF StreamInv, Covered, Linked
<1>7. CASE Restart \/ SocketLost \/ LoseFrames \/ ReceiveGap
  BY <1>7 DEF Restart, SocketLost, LoseFrames, ReceiveGap, Drop, StreamInv, Linked
<1>8. CASE Dial
  BY <1>8 DEF Dial, StreamInv, Linked
<1>9. CASE RecoveryStep
  <2>1. UNCHANGED <<resumeEpoch, epoch, dial, seq, channel, conn, pump>>
    BY <1>9 DEF RecoveryStep, Pin, Install, Reread, RecoveryFails, Retry, ShellRead, ShellReply, seq
  <2>2. resumeSeq <= resumeSeq' /\ resumeSeq' \in Nat
    BY <1>9 DEF RecoveryStep, Pin, Install, Reread, RecoveryFails, Retry, ShellRead, ShellReply, Larger
  <2> QED  BY <1>0, <2>1, <2>2 DEF StreamInv, Covered, Deltas, Resyncs
<1>10. CASE ReceiveReady \/ ReceiveResync \/ ReceiveEvent \/ FrameUnreadable
  <2>1. /\ UNCHANGED <<seq, conn, pump, dial, epoch>> /\ conn \in Linked
        /\ channel # << >> /\ channel' = Tail(channel)
        /\ resumeEpoch' = resumeEpoch \/ resumeEpoch' = epoch
    BY <1>10 DEF ReceiveReady, ReceiveResync, ReceiveEvent, FrameUnreadable, HasFrame, Consume,
                 ApplyResync, Bind, seq
  <2>2. \A n \in Resyncs' : Head(channel).seq <= n  BY <2>1, RoutedOrder
  <2>3. Head(channel).seq \in Nat /\ \A n \in Resyncs : n \in Nat
    BY <2>1, Routed, OnTheWay, EventStreamAssumption DEF Resyncs
  <2>4. CASE ReceiveEvent \/ FrameUnreadable
    <3>1. /\ Deltas = Deltas' \cup {Head(channel).seq} /\ Resyncs' = Resyncs
          /\ Head(channel).kind = "event" /\ resumeEpoch' = resumeEpoch
      BY <2>1, <2>4, RoutedNumbers DEF ReceiveEvent, FrameUnreadable, HasFrame
    <3>2. resumeEpoch = epoch
      BY <2>1, <3>1 DEF SyncInv, LinkInv, Tuned
    <3> QED  BY <2>1, <2>2, <2>3, <3>1, <3>2 DEF StreamInv, Covered, Linked
  <2>5. CASE ReceiveReady
    <3>1. Deltas' = Deltas /\ Resyncs' = Resyncs
      BY <2>1, <2>5, RoutedNumbers DEF ReceiveReady, HasFrame
    <3> QED  BY <2>1, <3>1 DEF StreamInv, Covered, Linked
  <2>6. CASE ReceiveResync
    <3>1. Deltas' = Deltas /\ Resyncs = Resyncs' \cup {Head(channel).seq} /\ resumeEpoch' = epoch
      BY <2>1, <2>6, RoutedNumbers DEF ReceiveResync, HasFrame, ApplyResync, Bind
    <3> QED  BY <2>1, <2>2, <2>3, <3>1 DEF StreamInv, Covered, Linked
  <2> QED  BY <1>10, <2>4, <2>5, <2>6
<1> QED  BY <1>1, <1>2, <1>3, <1>4, <1>5, <1>6, <1>7, <1>8, <1>9, <1>10 DEF Next, ServerStep, SocketStep


-----------------------------------------------------------------------------
\* An event is an instance and a number.
LEMMA EventFacts ==
    /\ \A ev \in Events : ev[1] \in Epochs /\ ev[1] \in Nat /\ ev[2] \in Nat /\ ev[2] \in 1 .. MaxSeq
    /\ \A ev \in Events : \A e, n : ev[1] = e /\ ev[2] = n => ev = <<e, n>>
    /\ \A e \in Epochs, n \in 1 .. MaxSeq : <<e, n>> \in Events
BY EventStreamAssumption DEF Events, Epochs

\* What was published, and what a read contains, only grows.
LEMMA PublishedGrows ==
    ASSUME TypeOK, [Next]_vars
    PROVE  /\ Published \subseteq Published'
           /\ rec' = rec => Read \subseteq Read'
           /\ baseline' = baseline =>
                 UpTo(baseline.epoch, baseline.seq) \subseteq UpTo(baseline.epoch, baseline.seq)'
<1>1. \A e \in Epochs : heads[e] \in Nat /\ heads'[e] \in Nat /\ heads[e] <= heads'[e]
  <2>1. CASE Publish \/ PublishUndeliverable
    BY <2>1, PublishMoves, Numbers
  <2>2. CASE ~(Publish \/ PublishUndeliverable)
    <3>1. heads' = heads
      BY <2>2 DEF Next, ServerStep, RecoveryStep, SocketStep, Accept, PumpSend, PumpExpired, PumpDone,
                  Restart, Pin, Install, Reread, RecoveryFails, Retry, ShellRead, ShellReply, Dial,
                  SocketLost, LoseFrames, ReceiveReady, ReceiveResync, ReceiveGap, ReceiveEvent,
                  FrameUnreadable, vars, serverVars
    <3> QED  BY <3>1, Numbers
  <2> QED  BY <2>1, <2>2
<1>2. Published \subseteq Published'
  BY <1>1, EventFacts DEF Published
<1> QED  BY <1>2 DEF Read, UpTo

\* What a running instance has published.
LEMMA PublishedFacts ==
    ASSUME TypeOK
    PROVE  /\ \A ev \in Published : ev \in Events /\ (ev[1] = epoch => ev[2] \in 1 .. seq)
           /\ \A n \in 1 .. MaxSeq : n <= seq => <<epoch, n>> \in Published
           /\ (\A e \in Epochs : e > epoch => heads[e] = 0) => \A ev \in Published : ev[1] <= epoch
BY Numbers, EventFacts DEF Published, seq

\* A routed event is an event the instance has published.
LEMMA RoutedEvent ==
    ASSUME TypeOK, SyncInv, HasFrame("event")
    PROVE  /\ resumeEpoch = epoch /\ <<epoch, Head(channel).seq>> \in Published
           /\ Head(channel).seq \in Nat
<1>1. conn \in Linked /\ channel # << >> /\ Head(channel).kind = "event"
  BY DEF HasFrame
<1>2. channel[1] = Head(channel) /\ 1 \in DOMAIN channel
  BY <1>1 DEF TypeOK, SocketTypeOK
<1>3. Head(channel).seq \in 1 .. MaxSeq /\ Head(channel).seq <= seq
  BY <1>1, <1>2, OnTheWay DEF SyncInv, HeadInv
<1>4. resumeEpoch = epoch  BY <1>1 DEF SyncInv, LinkInv, Tuned
<1> QED  BY <1>3, <1>4, PublishedFacts, EventStreamAssumption

\* A pin sees everything published so far.
LEMMA PinSeesAll ==
    ASSUME TypeOK, HeldInv, Pin
    PROVE  Read' = Published /\ Published' = Published
<1>1. rec'.epoch = epoch /\ rec'.seq = seq /\ heads' = heads
  BY DEF Pin, TypeOK, ClientTypeOK, Recovery, serverVars
<1>2. \A ev \in Published : ev[1] < epoch \/ (ev[1] = epoch /\ ev[2] <= seq)
  BY Numbers, EventFacts, PublishedFacts DEF HeldInv
<1> QED  BY <1>1, <1>2 DEF Read, UpTo, Published

\* Steps keep what is held.
LEMMA HeldStep == ASSUME TypeOK, SyncInv, HeldInv, Next PROVE HeldInv'
<1> USE Numbers, PublishedGrows DEF serverVars, clientVars, threadVars, ghostVars
<1>1. CASE Publish \/ PublishUndeliverable
  <2>1. UNCHANGED <<epoch, resumeEpoch, rec, shown, queue, unreadable>>
    BY <1>1 DEF Publish, PublishUndeliverable
  <2>2. \A e \in Epochs : e # epoch => heads'[e] = heads[e]
    BY <1>1 DEF Publish, PublishUndeliverable, TypeOK, ServerTypeOK
  <2> QED  BY <2>1, <2>2 DEF HeldInv
<1>2. CASE Restart
  <2>1. UNCHANGED <<heads, resumeEpoch, rec, shown, queue>> /\ epoch' = epoch + 1 /\ unreadable' = {}
    BY <1>2 DEF Restart
  <2> QED  BY <2>1 DEF HeldInv, Epochs
<1>3. CASE Pin
  <2>1. UNCHANGED <<heads, epoch, resumeEpoch, shown, queue, unreadable>> /\ rec'.at = "pinned"
    BY <1>3 DEF Pin, TypeOK, ClientTypeOK, Recovery
  <2> QED  BY <1>3, <2>1, PinSeesAll DEF HeldInv
<1>4. CASE Install
  <2>1. UNCHANGED <<heads, epoch, resumeEpoch, unreadable>> /\ rec'.at = "idle" /\ queue' = {}
        /\ shown' \subseteq Read \cup queue
    BY <1>4 DEF Install
  <2>2. Read \subseteq Published  BY DEF Read, UpTo
  <2> QED  BY <2>1, <2>2 DEF HeldInv
<1>5. CASE Reread \/ RecoveryFails \/ Retry \/ Dial
  <2>1. UNCHANGED <<heads, epoch, resumeEpoch, shown, queue, unreadable>>
    BY <1>5 DEF Reread, RecoveryFails, Retry, Dial
  <2>2. rec' = rec \/ rec'.at \in {"reading", "retry", "unread"}
    BY <1>5, AttemptFacts DEF Reread, RecoveryFails, Retry, Dial, Recovering
  <2> QED  BY <2>1, <2>2 DEF HeldInv
<1>6. CASE ReceiveReady \/ ReceiveResync
  <2>1. UNCHANGED <<heads, epoch, unreadable>>
    BY <1>6 DEF ReceiveReady, ReceiveResync
  <2>2. rec' = rec \/ rec'.at = "reading"
    BY <1>6, AttemptFacts DEF ReceiveReady, ReceiveResync, ApplyResync, Recovering
  <2>3. shown' \in {shown, {}}
    BY <1>6 DEF ReceiveReady, ReceiveResync, ApplyResync
  <2>4. queue' = {} \/ (queue' = queue /\ (resumeEpoch' = resumeEpoch \/ resumeEpoch = 0))
    BY <1>6 DEF ReceiveReady, ReceiveResync, ApplyResync, Bind
  <2>5. resumeEpoch = 0 => queue = {}
    BY DEF SyncInv, LinkInv
  <2> QED  BY <2>1, <2>2, <2>3, <2>4, <2>5 DEF HeldInv
<1>7. CASE ReceiveEvent
  <2> DEFINE ev == <<epoch, Head(channel).seq>>
  <2>1. UNCHANGED <<heads, epoch, resumeEpoch, unreadable, rec>>
        /\ IF rec.at = "idle" THEN shown' = shown \cup {ev} /\ queue' = queue
                              ELSE queue' = queue \cup {ev} /\ shown' = shown
    BY <1>7 DEF ReceiveEvent
  <2>2. ev \in Published /\ ev[1] = epoch /\ resumeEpoch = epoch
    BY <1>7, RoutedEvent DEF ReceiveEvent
  <2> HIDE DEF ev
  <2> QED  BY <2>1, <2>2 DEF HeldInv
<1>8. CASE FrameUnreadable
  <2>1. UNCHANGED <<heads, epoch, resumeEpoch, rec, shown, queue>>
        /\ unreadable' = unreadable \cup {<<epoch, Head(channel).seq>>}
    BY <1>8 DEF FrameUnreadable
  <2> QED  BY <2>1 DEF HeldInv
<1>9. CASE Accept \/ PumpSend \/ PumpExpired \/ PumpDone \/ ShellRead \/ ShellReply
           \/ SocketLost \/ LoseFrames \/ ReceiveGap
  <2>1. UNCHANGED <<heads, epoch, resumeEpoch, rec, shown, queue, unreadable>>
    BY <1>9 DEF Accept, PumpSend, PumpExpired, PumpDone, ShellRead, ShellReply,
                SocketLost, LoseFrames, ReceiveGap
  <2> QED  BY <2>1 DEF HeldInv
<1> QED  BY <1>1, <1>2, <1>3, <1>4, <1>5, <1>6, <1>7, <1>8, <1>9
         DEF Next, ServerStep, RecoveryStep, SocketStep


-----------------------------------------------------------------------------
\* A recovery that goes on awaits what it awaited.
LEMMA AwaitedStays ==
    ASSUME TypeOK, Next, rec' = rec, fence' = fence, NEW ev, Awaited(ev)
    PROVE  Awaited(ev)'
BY PublishedGrows DEF Awaited

\* A recovery that is asked for awaits what earlier instances published.
LEMMA RecoveringAwaits ==
    ASSUME TypeOK, AnswersInv, Next, rec' = Recovering(fence'), fence' \in Nat,
           \/ fence' > fence
           \/ fence' = fence /\ resumeEpoch = epoch,
           NEW ev \in Published, ev[1] < epoch
    PROVE  Awaited(ev)'
<1>1. rec \in Recovery  BY DEF TypeOK, ClientTypeOK
<1>2. CASE ~InFlight
  BY <1>2, AttemptFacts DEF Recovering, Awaited
<1>3. CASE InFlight /\ rec.at = "reading"
  BY <1>3 DEF Recovering, Awaited
<1>4. CASE InFlight /\ rec.at = "pinned"
  <2>1. rec' = rec  BY <1>4 DEF Recovering
  <2>2. rec.fence \in Nat /\ rec.fence <= fence /\ fence \in Nat
    BY Numbers DEF AnswersInv
  <2>3. CASE rec.fence # fence'
    BY <1>4, <2>1, <2>3 DEF Awaited
  <2>4. CASE rec.fence = fence'
    <3>1. resumeEpoch = epoch /\ rec.epoch = epoch
      BY <1>4, <2>2, <2>4, Numbers DEF AnswersInv, Pinned
    <3>2. ev \in Read  BY <3>1 DEF Read, UpTo
    <3> QED  BY <1>4, <2>1, <3>2, PublishedGrows DEF Awaited
  <2> QED  BY <2>3, <2>4
<1> QED  BY <1>2, <1>3, <1>4 DEF InFlight

\* What is not forgone is shown, held or awaited.
LEMMA NotForgone ==
    ASSUME NEW ev \in Events, resumeEpoch' = epoch', ev[1] = epoch', ev[2] <= resumeSeq', ev \notin Forgone'
    PROVE  ev \in shown' \cup queue' \/ Awaited(ev)'
BY DEF Forgone

\* A re-baseline accounts for everything below it; the socket carries the rest.
LEMMA ResyncAccounts ==
    ASSUME TypeOK, SyncInv, HeldInv, Next, epoch' = epoch, heads' = heads, conn' = conn, conn \in Linked,
           NEW n \in Nat, NEW restart, ApplyResync(n, restart),
           \A m \in 1 .. seq : m > n => Covered(m)' \/ Resyncs' # {}
    PROVE  AccountedInv'
<1> SUFFICES ASSUME NEW ev \in Published' PROVE Accounted(ev)'
  BY DEF AccountedInv
<1>1. resumeEpoch' = epoch /\ resumeSeq' = n /\ rec' = Recovering(fence') /\ swallowed' = swallowed \cup Forgone'
      /\ fence' = IF resumeEpoch = epoch THEN fence ELSE fence + 1
  BY DEF ApplyResync, Bind
<1>2. Published' = Published  BY DEF Published
<1>3. ev \in Events /\ ev[1] \in Nat /\ ev[2] \in Nat /\ ev[1] <= epoch /\ (ev[1] = epoch => ev[2] \in 1 .. seq)
  BY <1>2, PublishedFacts, EventFacts DEF HeldInv
<1>4. CASE ev[1] < epoch
  <2>1. fence' \in Nat /\ (fence' > fence \/ (fence' = fence /\ resumeEpoch = epoch))
    BY <1>1, Numbers
  <2> QED  BY <1>1, <1>2, <1>4, <2>1, RecoveringAwaits DEF SyncInv, Accounted
<1>5. CASE ev[1] = epoch /\ ev[2] <= n
  BY <1>1, <1>3, <1>5, NotForgone DEF Accounted, Excused
<1>6. CASE ev[1] = epoch /\ ev[2] > n
  BY <1>3, <1>6 DEF Accounted, Coming
<1> QED  BY <1>3, <1>4, <1>5, <1>6, Numbers

\* Steps account for every event.
LEMMA AccountedStep ==
    ASSUME TypeOK, SyncInv, OrderInv, StreamInv, HeldInv, AccountedInv, Next
    PROVE  AccountedInv'
<1> USE DEF serverVars, clientVars, threadVars, ghostVars
<1>0. pump \in Nat /\ dial.cursor \in Nat  BY DEF TypeOK, ServerTypeOK, SocketTypeOK, Cursor
<1>e. \A ev \in Published : ev \in Events /\ ev[1] \in Nat /\ ev[2] \in Nat /\ ev[1] <= epoch
                            /\ (ev[1] = epoch => ev[2] \in 1 .. seq)
  BY PublishedFacts, EventFacts DEF HeldInv
<1>1. CASE Publish \/ PublishUndeliverable
  <2> SUFFICES ASSUME NEW ev \in Published' PROVE Accounted(ev)'
    BY DEF AccountedInv
  <2>1. /\ UNCHANGED <<epoch, dial, resumeSeq, resumeEpoch, fence, rec, shown, queue, leapt, swallowed, unreadable>>
        /\ seq' = seq + 1
    BY <1>1, PublishMoves DEF Publish, PublishUndeliverable
  <2>2. \/ conn' = conn /\ (conn = "replaying" => pump' = pump) /\ Deltas \subseteq Deltas' /\ Resyncs' = Resyncs
           /\ (conn = "live" => seq + 1 \in Deltas')
        \/ conn \in Linked /\ conn' = "live" /\ Resyncs' # {}
    BY <1>1, PublishSends, UndeliverableSends DEF PublishUndeliverable, Linked, Deltas, Resyncs
  <2>3. ev \in Published \/ (ev[1] = epoch /\ ev[2] = seq + 1)
    <3>1. heads' = [heads EXCEPT ![epoch] = @ + 1]
      BY <1>1 DEF Publish, PublishUndeliverable
    <3>2. \A e \in Epochs : heads'[e] = IF e = epoch THEN seq + 1 ELSE heads[e]
      BY <3>1, Numbers DEF seq, TypeOK, ServerTypeOK
    <3>3. ev \in Events /\ ev[2] <= heads'[ev[1]]  BY DEF Published
    <3> QED  BY <3>2, <3>3, Numbers, EventFacts DEF Published, seq
  <2>4. CASE ev \in Published
    <3>1. Accounted(ev)  BY <2>4 DEF AccountedInv
    <3>2. ev \in shown \cup queue \cup Excused => ev \in (shown \cup queue \cup Excused)'
      BY <2>1 DEF Excused
    <3>3. Awaited(ev) => Awaited(ev)'  BY <2>1, AwaitedStays
    <3>4. Coming(ev) => Coming(ev)'
      BY <2>1, <2>2 DEF Coming, Covered, Linked
    <3> QED  BY <3>1, <3>2, <3>3, <3>4 DEF Accounted
  <2>5. CASE ev[1] = epoch /\ ev[2] = seq + 1
    <3>1. conn = "dialing" /\ resumeEpoch = epoch => dial.cursor < ev[2]
      BY <1>0, <2>5, Numbers DEF StreamInv, SyncInv, WatermarkWithinHead
    <3>2. conn = "replaying" => pump < ev[2]
      BY <1>0, <2>5, Numbers DEF OrderInv
    <3>3. conn \in {"none", "lost", "dialing"} \cup Linked  BY DEF TypeOK, SocketTypeOK
    <3>4. Coming(ev)'
      BY <1>0, <2>1, <2>2, <2>5, <3>1, <3>2, <3>3 DEF Coming, Covered, Linked
    <3> QED  BY <3>4 DEF Accounted
  <2> QED  BY <2>3, <2>4, <2>5
<1>2. CASE Accept \/ PumpSend \/ PumpExpired \/ PumpDone \/ SocketLost \/ LoseFrames \/ ReceiveGap \/ ShellRead
  <2> SUFFICES ASSUME NEW ev \in Published' PROVE Accounted(ev)'
    BY DEF AccountedInv
  <2>1. /\ UNCHANGED <<heads, epoch, resumeSeq, resumeEpoch, fence, rec, shown, queue, leapt, swallowed, unreadable>>
    BY <1>2 DEF Accept, PumpSend, PumpExpired, PumpDone, SocketLost, LoseFrames, ReceiveGap, ShellRead
  <2>2. ev \in Published /\ Accounted(ev)
    BY <2>1 DEF Published, AccountedInv
  <2>3. ev \in shown \cup queue \cup Excused => ev \in (shown \cup queue \cup Excused)'
    BY <2>1 DEF Excused
  <2>4. Awaited(ev) => Awaited(ev)'  BY <2>1, AwaitedStays
  <2>5. ASSUME Coming(ev) PROVE Coming(ev)'
    <3>1. CASE conn = "lost" \/ resumeEpoch # epoch
      BY <1>2, <2>1, <3>1 DEF Coming, Accept, PumpSend, PumpExpired, PumpDone, SocketLost, LoseFrames,
                              ReceiveGap, HasFrame, Linked, ShellRead
    <3>2. CASE ev[1] = epoch /\ ev[2] \in 1 .. seq /\ resumeEpoch = epoch
      <4>1. CASE Accept
        <5>1. LinkInv /\ dial' = dial  BY <4>1 DEF SyncInv, Accept
        <5> QED  BY <1>0, <2>1, <2>5, <3>2, <4>1, <5>1, AcceptSends, Numbers DEF Coming, Covered, Linked
      <4>2. CASE PumpSend
        <5>1. HeadInv  BY DEF SyncInv
        <5> QED  BY <2>1, <2>5, <3>2, <4>2, <5>1, PumpSends DEF Coming, Covered, Linked
      <4>3. CASE PumpExpired
        BY <2>1, <3>2, <4>3, ExpiredSends DEF Coming, Linked
      <4>4. CASE PumpDone
        <5>1. conn = "replaying" /\ conn' = "live" /\ pump = seq /\ Deltas' = Deltas /\ Resyncs' = Resyncs
          BY <4>4 DEF PumpDone, Deltas, Resyncs
        <5> QED  BY <1>0, <2>1, <2>5, <3>2, <5>1 DEF Coming, Covered, Linked
      <4>5. CASE SocketLost \/ LoseFrames \/ ReceiveGap
        BY <2>1, <3>2, <4>5 DEF SocketLost, LoseFrames, ReceiveGap, Drop, Coming
      <4>6. CASE ShellRead
        BY <2>1, <2>5, <4>6 DEF ShellRead, Coming, Covered, Deltas, Resyncs
      <4> QED  BY <1>2, <4>1, <4>2, <4>3, <4>4, <4>5, <4>6
    <3> QED  BY <1>e, <2>2, <2>5, <3>1, <3>2 DEF Coming
  <2> QED  BY <2>2, <2>3, <2>4, <2>5 DEF Accounted
<1>3. CASE Restart
  <2>1. resumeEpoch' = resumeEpoch /\ epoch' = epoch + 1 /\ resumeEpoch <= epoch
    BY <1>3 DEF Restart, SyncInv, AnswersInv
  <2> QED  BY <2>1, Numbers DEF AccountedInv, Accounted, Coming
<1>4. CASE Pin
  <2>1. rec'.at = "pinned"  BY <1>4 DEF Pin, TypeOK, ClientTypeOK, Recovery
  <2> QED  BY <1>4, <2>1, PinSeesAll DEF AccountedInv, Accounted, Awaited
<1>5. CASE Reread \/ RecoveryFails \/ Retry
  <2>1. rec'.at \in {"reading", "retry", "unread"}
    BY <1>5, AttemptFacts DEF Reread, RecoveryFails, Retry, Recovering, InFlight
  <2> QED  BY <2>1 DEF AccountedInv, Accounted, Awaited
<1>6. CASE ReceiveResync
  <2> DEFINE n == Head(channel).seq
  <2>1. /\ conn \in Linked /\ channel # << >> /\ Head(channel).kind = "resync" /\ channel' = Tail(channel)
        /\ UNCHANGED <<heads, epoch, pump, conn>> /\ \E r : ApplyResync(n, r)
    BY <1>6 DEF ReceiveResync, HasFrame, Consume
  <2>2. n \in Nat /\ \A m \in Resyncs' : n <= m  BY <2>1, Routed, OnTheWay, RoutedOrder, EventStreamAssumption
  <2>3. Deltas' = Deltas /\ Resyncs = Resyncs' \cup {n}  BY <2>1, RoutedNumbers
  <2> HIDE DEF n
  <2>4. \A m \in 1 .. seq : m > n => Covered(m)' \/ Resyncs' # {}
    <3> SUFFICES ASSUME NEW m \in 1 .. seq, m > n, ~Covered(m) PROVE Resyncs' # {}
      BY <2>1, <2>3 DEF Covered
    <3>1. \E k \in Resyncs : m <= k  BY <2>1, <2>3 DEF StreamInv
    <3> QED  BY <2>2, <2>3, <3>1, Numbers
  <2> QED  BY <2>1, <2>2, <2>4, ResyncAccounts
<1>7. CASE ReceiveReady
  <2>1. /\ conn \in Linked /\ channel # << >> /\ Head(channel).kind = "ready" /\ channel' = Tail(channel)
        /\ UNCHANGED <<heads, epoch, pump, conn, dial, unreadable>>
    BY <1>7 DEF ReceiveReady, HasFrame, Consume
  <2>2. Deltas' = Deltas /\ Resyncs' = Resyncs  BY <2>1, RoutedNumbers
  <2>a. \/ /\ resumeEpoch = epoch \/ dial.cursor > 0
           /\ UNCHANGED <<resumeSeq, resumeEpoch, fence, rec, shown, queue, leapt, swallowed>>
        \/ resumeEpoch = 0 /\ dial.cursor = 0
        \/ resumeEpoch \notin {0, epoch} /\ dial.cursor = 0 /\ \E r : ApplyResync(Head(channel).seq, r)
    BY <1>7 DEF ReceiveReady
  <2>b. resumeEpoch = epoch \/ dial.cursor > 0 \/ dial.cursor = 0
    BY <1>0
  <2>3. CASE resumeEpoch = epoch \/ dial.cursor > 0
    <3>1. UNCHANGED <<resumeSeq, resumeEpoch, fence, rec, shown, queue, leapt, swallowed>>
      BY <1>0, <2>a, <2>3, Numbers DEF Epochs
    <3> SUFFICES ASSUME NEW ev \in Published PROVE Accounted(ev)'
      BY <2>1 DEF AccountedInv, Published
    <3>2. Accounted(ev)  BY DEF AccountedInv
    <3>3. Awaited(ev) => Awaited(ev)'  BY <3>1, AwaitedStays
    <3> QED  BY <2>1, <2>2, <3>1, <3>2, <3>3 DEF Accounted, Excused, Coming, Covered, Linked
  <2>4. CASE resumeEpoch = 0 /\ dial.cursor = 0
    <3>1. /\ resumeEpoch' = epoch /\ fence' = fence + 1 /\ rec' = rec /\ shown' = shown /\ queue' = queue
          /\ leapt' = leapt \cup {ev \in Published : ev[1] < epoch /\ ev \notin shown \cup queue
                                                     /\ ~Awaited(ev)'}
      BY <1>7, <1>0, <2>4, Numbers DEF ReceiveReady, Bind, Epochs
    <3> SUFFICES ASSUME NEW ev \in Published PROVE Accounted(ev)'
      BY <2>1 DEF AccountedInv, Published
    <3>2. CASE ev[1] < epoch
      BY <3>1, <3>2 DEF Accounted, Excused
    <3>3. CASE ev[1] = epoch
      <4>1. ev[2] \in 1 .. seq  BY <1>e, <3>3
      <4>2. Covered(ev[2]) \/ Resyncs # {}
        BY <2>1, <2>4, <4>1, Numbers DEF StreamInv, Epochs
      <4> QED  BY <2>1, <2>2, <3>3, <4>2 DEF Accounted, Coming, Covered
    <3> QED  BY <1>e, <3>2, <3>3, Numbers
  <2>5. CASE resumeEpoch \notin {0, epoch} /\ dial.cursor = 0
    <3>1. \E r : ApplyResync(Head(channel).seq, r)
      BY <1>0, <2>a, <2>5, Numbers DEF Epochs
    <3>2. Head(channel).seq \in Nat  BY <2>1, Routed, OnTheWay, EventStreamAssumption
    <3>3. \A m \in 1 .. seq : Covered(m)' \/ Resyncs' # {}
      BY <2>1, <2>2, <2>5 DEF StreamInv, Covered
    <3> QED  BY <2>1, <3>1, <3>2, <3>3, ResyncAccounts
  <2> QED  BY <1>0, <2>3, <2>4, <2>5
<1>8. CASE Install
  <2> SUFFICES ASSUME NEW ev \in Published PROVE Accounted(ev)'
    BY <1>8 DEF Install, AccountedInv, Published
  <2>1. /\ UNCHANGED <<heads, epoch, conn, channel, pump, dial, resumeEpoch, leapt, swallowed, unreadable>>
        /\ rec.at = "pinned" /\ rec.fence = fence
        /\ shown' = Read \cup {d \in queue : d[2] > rec.seq}
        /\ resumeSeq' = Larger(resumeSeq, rec.seq)
    BY <1>8 DEF Install
  <2>2. resumeEpoch <= rec.epoch /\ rec.epoch <= epoch /\ rec.epoch \in Nat /\ rec.seq \in Nat
        /\ resumeSeq \in Nat /\ resumeEpoch \in Nat /\ epoch \in Nat
    BY <2>1, Numbers DEF SyncInv, AnswersInv, Pinned
  <2>3. Accounted(ev) /\ ev[1] \in Nat /\ ev[2] \in Nat  BY <1>e DEF AccountedInv
  <2>4. ev \in shown => ev \in shown'  BY <2>1 DEF HeldInv
  <2>5. ASSUME ev \in queue PROVE ev \in shown'
    <3>1. ev[1] = resumeEpoch  BY <2>5 DEF HeldInv
    <3>2. CASE ev[2] <= rec.seq
      BY <2>1, <2>2, <2>3, <3>1, <3>2 DEF Read, UpTo
    <3>3. CASE ev[2] > rec.seq
      BY <2>1, <2>5, <3>3
    <3> QED  BY <2>2, <2>3, <3>2, <3>3
  <2>6. ASSUME ev \in Excused PROVE Accounted(ev)'
    <3>1. CASE ev \in leapt \cup swallowed
      BY <2>1, <3>1 DEF Accounted, Excused
    <3>2. CASE ev \in unreadable /\ ev[2] <= rec.seq /\ resumeEpoch = epoch
      <4>1. ev[1] = epoch  BY <3>2 DEF HeldInv
      <4>2. ev \in Read  BY <2>2, <3>2, <4>1 DEF Read, UpTo
      <4> QED  BY <2>1, <4>2 DEF Accounted
    <3>3. CASE ev \in unreadable /\ resumeEpoch # epoch
      BY <2>1, <3>3 DEF Accounted, Coming
    <3>4. CASE ev \in unreadable /\ ev[2] > rec.seq /\ ev[2] > resumeSeq
      BY <2>1, <3>4 DEF Accounted, Excused, Larger
    <3> QED  BY <2>2, <2>3, <2>6, <3>1, <3>2, <3>3, <3>4 DEF Excused
  <2>7. Awaited(ev) => ev \in shown'  BY <2>1 DEF Awaited
  <2>8. Coming(ev) => Coming(ev)'  BY <2>1 DEF Coming, Covered, Deltas, Resyncs
  <2> QED  BY <2>3, <2>4, <2>5, <2>6, <2>7, <2>8 DEF Accounted
<1>9. CASE ShellReply
  <2> SUFFICES ASSUME NEW ev \in Published PROVE Accounted(ev)'
    BY <1>9 DEF ShellReply, AccountedInv, Published
  <2>1. /\ UNCHANGED <<heads, epoch, conn, channel, pump, dial, resumeEpoch, fence, rec, shown, queue, swallowed, unreadable>>
        /\ leapt' = leapt \cup (unreadable \cap Forgone')
    BY <1>9 DEF ShellReply
  <2>2. Accounted(ev)  BY DEF AccountedInv
  <2>3. Awaited(ev) => Awaited(ev)'  BY <2>1, AwaitedStays
  <2>4. Coming(ev) => Coming(ev)'  BY <2>1 DEF Coming, Covered, Deltas, Resyncs
  <2>5. ASSUME ev \in unreadable PROVE Accounted(ev)'
    <3>1. ev[1] = epoch /\ ev \in Events /\ ev[2] \in Nat  BY <1>e, <2>5 DEF HeldInv
    <3>2. CASE resumeEpoch # epoch
      BY <2>1, <3>2 DEF Accounted, Coming
    <3>3. CASE resumeEpoch = epoch /\ ev[2] <= resumeSeq'
      BY <2>1, <2>5, <3>1, <3>3, NotForgone DEF Accounted, Excused
    <3>4. CASE ev[2] > resumeSeq'
      BY <2>1, <2>5, <3>4 DEF Accounted, Excused
    <3>5. resumeSeq' \in Nat  BY <1>9, Numbers DEF ShellReply, Larger
    <3> QED  BY <3>1, <3>2, <3>3, <3>4, <3>5
  <2> QED  BY <2>1, <2>2, <2>3, <2>4, <2>5 DEF Accounted, Excused
<1>10. CASE Dial
  <2> SUFFICES ASSUME NEW ev \in Published PROVE Accounted(ev)'
    BY <1>10 DEF Dial, AccountedInv, Published
  <2>1. /\ UNCHANGED <<heads, epoch, resumeSeq, resumeEpoch, fence, shown, queue, unreadable>>
        /\ conn \in {"none", "lost"} /\ conn' = "dialing" /\ dial'.cursor = resumeSeq
        /\ rec' = (IF conn = "lost" \/ rec.at = "unread" THEN Recovering(fence) ELSE rec)
        /\ leapt \subseteq leapt' /\ swallowed \subseteq swallowed' /\ Forgone' \subseteq leapt' \cup swallowed'
    BY <1>10 DEF Dial
  <2>2. Accounted(ev) /\ ev \in Events /\ ev[1] \in Nat /\ ev[2] \in Nat /\ ev[1] <= epoch
    BY <1>e DEF AccountedInv
  <2>3. Awaited(ev) => Awaited(ev)'
    <3>1. rec' = rec \/ rec'.at = "reading"  BY <2>1, AttemptFacts DEF Recovering
    <3> QED  BY <2>1, <3>1, AwaitedStays DEF Awaited
  <2>4. ASSUME Coming(ev) PROVE Accounted(ev)'
    <3>1. CASE resumeEpoch # epoch
      BY <2>1, <3>1 DEF Accounted, Coming
    <3>2. CASE ev[1] = epoch /\ ev[2] > resumeSeq
      BY <2>1, <3>2 DEF Accounted, Coming
    <3>3. CASE resumeEpoch = epoch /\ ev[1] = epoch /\ ev[2] <= resumeSeq
      BY <2>1, <2>2, <3>3, NotForgone DEF Accounted, Excused
    <3>4. CASE resumeEpoch = epoch /\ ev[1] < epoch
      <4>1. conn = "lost"  BY <2>1, <2>4, <3>4, Numbers DEF Coming, Linked
      <4>2. rec' = Recovering(fence') /\ fence' = fence /\ fence' \in Nat  BY <2>1, <4>1, Numbers
      <4> QED  BY <3>4, <4>2, RecoveringAwaits DEF SyncInv, Accounted
    <3> QED  BY <2>2, <3>1, <3>2, <3>3, <3>4, Numbers
  <2> QED  BY <2>1, <2>2, <2>3, <2>4 DEF Accounted, Excused
<1>11. CASE ReceiveEvent
  <2> SUFFICES ASSUME NEW ev \in Published PROVE Accounted(ev)'
    BY <1>11 DEF ReceiveEvent, AccountedInv, Published
  <2> DEFINE n == Head(channel).seq
  <2>1. /\ UNCHANGED <<heads, epoch, conn, pump, dial, resumeEpoch, fence, rec, leapt, swallowed, unreadable>>
        /\ conn \in Linked /\ channel # << >> /\ Head(channel).kind = "event" /\ channel' = Tail(channel)
        /\ n <= resumeSeq + 1 /\ resumeSeq' = Larger(resumeSeq, n)
        /\ shown \cup queue \cup {<<epoch, n>>} \subseteq shown' \cup queue'
    BY <1>11 DEF ReceiveEvent, HasFrame, Consume
  <2>2. resumeEpoch = epoch /\ n \in Nat  BY <1>11, RoutedEvent DEF ReceiveEvent
  <2>3. Deltas = Deltas' \cup {n} /\ Resyncs' = Resyncs  BY <2>1, RoutedNumbers
  <2> HIDE DEF n
  <2>4. Accounted(ev) /\ ev \in Events /\ ev[2] \in Nat  BY <1>e DEF AccountedInv
  <2>5. Awaited(ev) => Awaited(ev)'  BY <2>1, AwaitedStays
  <2>6. CASE ev[1] = epoch /\ ev[2] = n
    <3>1. ev = <<epoch, n>>  BY <2>4, <2>6, EventFacts
    <3> QED  BY <2>1, <3>1 DEF Accounted
  <2>7. CASE ~(ev[1] = epoch /\ ev[2] = n)
    <3>1. Coming(ev) => Coming(ev)'
      BY <2>1, <2>2, <2>3, <2>7 DEF Coming, Covered, Linked
    <3>2. ev \in Excused => ev \in Excused'
      BY <2>1, <2>2, <2>4, <2>7, Numbers DEF Excused, HeldInv, Larger
    <3> QED  BY <2>1, <2>4, <2>5, <3>1, <3>2 DEF Accounted
  <2> QED  BY <2>6, <2>7
<1>12. CASE FrameUnreadable
  <2> SUFFICES ASSUME NEW ev \in Published PROVE Accounted(ev)'
    BY <1>12 DEF FrameUnreadable, AccountedInv, Published
  <2> DEFINE n == Head(channel).seq
  <2>1. /\ UNCHANGED <<heads, epoch, conn, pump, dial, resumeSeq, resumeEpoch, fence, rec, shown, queue, swallowed>>
        /\ conn \in Linked /\ channel # << >> /\ Head(channel).kind = "event" /\ channel' = Tail(channel)
        /\ unreadable' = unreadable \cup {<<epoch, n>>}
        /\ leapt' = leapt \cup (Forgone \cap {<<epoch, n>>})
    BY <1>12 DEF FrameUnreadable, HasFrame, Consume
  <2>2. resumeEpoch = epoch /\ n \in Nat  BY <1>12, RoutedEvent DEF FrameUnreadable
  <2>3. Deltas = Deltas' \cup {n} /\ Resyncs' = Resyncs  BY <2>1, RoutedNumbers
  <2> HIDE DEF n
  <2>4. Accounted(ev) /\ ev \in Events /\ ev[2] \in Nat  BY <1>e DEF AccountedInv
  <2>5. Awaited(ev) => Awaited(ev)'  BY <2>1, AwaitedStays
  <2>6. CASE ev[1] = epoch /\ ev[2] = n
    <3>1. ev = <<epoch, n>>  BY <2>4, <2>6, EventFacts
    <3>2. CASE n > resumeSeq
      BY <2>1, <3>1, <3>2 DEF Accounted, Excused
    <3>3. CASE n <= resumeSeq
      BY <2>1, <2>2, <2>4, <2>5, <2>6, <3>1, <3>3 DEF Accounted, Excused, Forgone
    <3> QED  BY <2>2, <3>2, <3>3, Numbers
  <2>7. CASE ~(ev[1] = epoch /\ ev[2] = n)
    <3>1. Coming(ev) => Coming(ev)'
      BY <2>1, <2>2, <2>3, <2>7 DEF Coming, Covered, Linked
    <3> QED  BY <2>1, <2>4, <2>5, <3>1 DEF Accounted, Excused
  <2> QED  BY <2>6, <2>7
<1> QED  BY <1>1, <1>2, <1>3, <1>4, <1>5, <1>6, <1>7, <1>8, <1>9, <1>10, <1>11, <1>12
         DEF Next, ServerStep, RecoveryStep, SocketStep


-----------------------------------------------------------------------------
\* A newer event joins those applied one by one, and is not among them.
LEMMA OnceEvent ==
    ASSUME TypeOK, SyncInv, OrderInv, HeldInv, OnceInv, ReceiveEvent
    PROVE  OnceInv'
<1> DEFINE n == Head(channel).seq  ev == <<epoch, n>>
<1>1. /\ UNCHANGED <<heads, epoch, conn, pump, dial, resumeEpoch, rec, baseline>>
      /\ conn \in Linked /\ channel # << >> /\ Head(channel).kind = "event" /\ channel' = Tail(channel)
      /\ resumeSeq' = Larger(resumeSeq, n)
      /\ IF rec.at = "idle" THEN shown' = shown \cup {ev} /\ queue' = queue
                            ELSE queue' = queue \cup {ev} /\ shown' = shown
      /\ doubled' = IF \/ rec.at # "idle" /\ ev \in queue
                       \/ rec.at = "idle" /\ ev \in shown
                          /\ ev \notin UpTo(baseline.epoch, baseline.seq)
                    THEN doubled \cup {ev} ELSE doubled
  BY DEF ReceiveEvent, HasFrame, Consume, serverVars
<1>2. resumeEpoch = epoch /\ ev \in Published /\ n \in Nat  BY RoutedEvent DEF ReceiveEvent
<1>3. Deltas = Deltas' \cup {n} /\ Resyncs' = Resyncs  BY <1>1, RoutedNumbers
<1>4. (\A m \in Deltas' : n < m) /\ \A m \in Resyncs' : n <= m  BY <1>1, RoutedOrder
<1>5. ev[1] = epoch /\ ev[2] = n /\ ev \in Events  BY <1>2 DEF Published
<1> HIDE DEF n, ev
<1>6. \A d \in Applied : d[2] < n /\ d[2] <= resumeSeq /\ d[2] \in Nat
  BY <1>2, <1>3, EventFacts DEF OnceInv, Applied
<1>7. ev \notin Applied  BY <1>2, <1>5, <1>6
<1>8. UpTo(baseline.epoch, baseline.seq)' = UpTo(baseline.epoch, baseline.seq)
  BY <1>1 DEF UpTo, Published
<1>9. Applied' \subseteq Applied \cup {ev}
  BY <1>1, <1>8 DEF Applied
<1>10. doubled' = doubled
  BY <1>1, <1>5, <1>7 DEF Applied
<1>11. \A d \in Applied' : d[2] <= resumeSeq'
  BY <1>1, <1>2, <1>5, <1>6, <1>9, Numbers DEF Larger
<1>12. conn = "replaying" => n <= pump
  BY <1>3 DEF OrderInv
<1>13. resumeEpoch # 0  BY <1>2, Numbers DEF Epochs
<1> QED  BY <1>1, <1>2, <1>3, <1>4, <1>5, <1>6, <1>9, <1>10, <1>11, <1>12, <1>13 DEF OnceInv, Linked

\* Steps apply nothing twice.
LEMMA OnceStep ==
    ASSUME TypeOK, SyncInv, OrderInv, StreamInv, HeldInv, OnceInv, Next
    PROVE  OnceInv'
<1> USE DEF serverVars, clientVars, threadVars, ghostVars
<1>0. pump \in Nat /\ dial.cursor \in Nat  BY DEF TypeOK, ServerTypeOK, SocketTypeOK, Cursor
<1>a. \A ev \in Applied : ev \in Events /\ ev[1] = epoch /\ ev[2] \in Nat
  BY EventFacts DEF Applied
<1>b. resumeEpoch = epoch => \A ev \in Applied : ev[2] <= resumeSeq /\ ev[2] <= seq
  BY <1>a, Numbers DEF OnceInv, SyncInv, WatermarkWithinHead
<1>1. CASE Publish \/ PublishUndeliverable \/ Accept \/ PumpSend \/ PumpExpired \/ PumpDone
           \/ SocketLost \/ LoseFrames \/ ReceiveGap \/ ShellRead
  <2>1. UNCHANGED <<epoch, resumeSeq, resumeEpoch, rec, shown, queue, doubled, baseline>>
    BY <1>1 DEF Publish, PublishUndeliverable, Accept, PumpSend, PumpExpired, PumpDone,
                SocketLost, LoseFrames, ReceiveGap, ShellRead
  <2>2. Applied' \subseteq Applied /\ UpTo(baseline.epoch, baseline.seq) \subseteq UpTo(baseline.epoch, baseline.seq)'
    BY <2>1, PublishedGrows DEF Applied
  <2>3. ASSUME resumeEpoch = epoch, NEW ev \in Applied
        PROVE  /\ conn' = "dialing" => ev[2] <= dial'.cursor
               /\ conn' = "replaying" => ev[2] <= pump'
               /\ \A n \in Deltas' : ev[2] < n
               /\ \A n \in Resyncs' : ev[2] <= n
    <3>1. ev[2] \in Nat /\ ev[2] <= resumeSeq /\ ev[2] <= seq  BY <1>a, <1>b, <2>3
    <3>2. /\ conn = "dialing" => ev[2] <= dial.cursor
          /\ conn = "replaying" => ev[2] <= pump
          /\ \A n \in Deltas : ev[2] < n
          /\ \A n \in Resyncs : ev[2] <= n
      BY <2>3 DEF OnceInv
    <3>3. CASE Publish
      <4>1. dial' = dial  BY <3>3 DEF Publish
      <4> QED  BY <3>1, <3>2, <3>3, <4>1, PublishSends, Numbers
    <3>4. CASE PublishUndeliverable
      <4>1. dial' = dial /\ Deltas' = Deltas /\ (conn \notin Linked => Resyncs' = Resyncs)
        <5>1. seq + 1 \in 0 .. MaxSeq
          BY <3>4, HeadType, EventStreamAssumption DEF PublishUndeliverable
        <5>2. FrameOf("resync", seq + 1) \in Frame
          BY <5>1, FrameType
        <5> QED  BY <3>4, <5>2, SentNumbers, FrameSeq DEF PublishUndeliverable, Send, Deltas, Resyncs
      <4> QED  BY <3>1, <3>2, <3>4, <4>1, UndeliverableSends, Numbers
    <3>5. CASE Accept
      <4>1. LinkInv /\ dial' = dial  BY <3>5 DEF SyncInv, Accept
      <4> QED  BY <3>1, <3>2, <3>5, <4>1, AcceptSends DEF Linked
    <3>6. CASE PumpSend
      <4>1. HeadInv /\ dial' = dial  BY <3>6 DEF SyncInv, PumpSend
      <4> QED  BY <3>1, <3>2, <3>6, <4>1, PumpSends
    <3>7. CASE PumpExpired
      BY <3>1, <3>2, <3>7, ExpiredSends
    <3>8. CASE PumpDone
      BY <3>2, <3>8 DEF PumpDone, Deltas, Resyncs
    <3>9. CASE SocketLost \/ LoseFrames \/ ReceiveGap
      BY <3>9, Dropped DEF SocketLost, LoseFrames, ReceiveGap
    <3>10. CASE ShellRead
      BY <3>2, <3>10 DEF ShellRead, Deltas, Resyncs
    <3> QED  BY <1>1, <3>3, <3>4, <3>5, <3>6, <3>7, <3>8, <3>9, <3>10
  <2> QED  BY <1>b, <2>1, <2>2, <2>3 DEF OnceInv
<1>2. CASE Restart
  <2>1. /\ UNCHANGED <<heads, resumeEpoch, rec, shown, doubled, baseline>>
        /\ epoch' = epoch + 1 /\ resumeEpoch <= epoch
    BY <1>2 DEF Restart, SyncInv, AnswersInv
  <2> QED  BY <2>1, PublishedGrows, Numbers DEF OnceInv
<1>3. CASE Pin \/ Reread \/ RecoveryFails \/ Retry \/ ShellReply \/ Dial
  <2>0. UNCHANGED <<heads, epoch, resumeEpoch, shown, queue, doubled, baseline, pump>>
    BY <1>3 DEF Pin, Reread, RecoveryFails, Retry, ShellReply, Dial
  <2>1. rec' = rec \/ rec'.at # "idle"
    <3>1. CASE Pin
      BY <3>1 DEF Pin, TypeOK, ClientTypeOK, Recovery
    <3>2. CASE Reread \/ RecoveryFails \/ Retry \/ ShellReply \/ Dial
      BY <3>2, AttemptFacts DEF Reread, RecoveryFails, Retry, ShellReply, Dial, Recovering
    <3> QED  BY <1>3, <3>1, <3>2
  <2>2. /\ resumeSeq' \in Nat /\ resumeSeq <= resumeSeq'
        /\ channel' = channel \/ channel' = << >>
        /\ \/ conn' = conn /\ dial' = dial
           \/ conn' = "dialing" /\ dial'.cursor = resumeSeq
    BY <1>3, Numbers DEF Pin, Reread, RecoveryFails, Retry, ShellReply, Dial, Larger
  <2>3. Deltas' \subseteq Deltas /\ Resyncs' \subseteq Resyncs
    BY <2>2 DEF Deltas, Resyncs
  <2>4. Applied' \subseteq Applied /\ UpTo(baseline.epoch, baseline.seq) \subseteq UpTo(baseline.epoch, baseline.seq)'
    BY <2>0, <2>1, PublishedGrows DEF Applied
  <2> QED  BY <1>a, <1>b, <2>0, <2>1, <2>2, <2>3, <2>4, Numbers DEF OnceInv
<1>4. CASE Install
  <2>1. /\ UNCHANGED <<heads, epoch, resumeEpoch, conn, channel, dial, pump>>
        /\ rec.at = "pinned" /\ rec.fence = fence
        /\ shown' = Read \cup {d \in queue : d[2] > rec.seq} /\ queue' = {}
        /\ resumeSeq' = Larger(resumeSeq, rec.seq)
        /\ doubled' = {d \in queue : d[2] > rec.seq /\ d \in Read}
        /\ baseline'.epoch = rec.epoch /\ baseline'.seq = rec.seq
    BY <1>4 DEF Install
  <2>2. resumeEpoch <= rec.epoch /\ rec.epoch <= epoch
    BY <2>1, Numbers DEF SyncInv, AnswersInv, Pinned
  <2>3. UpTo(baseline.epoch, baseline.seq)' = Read
    BY <2>1 DEF UpTo, Published, Read
  <2>4. Applied' \subseteq Applied
    BY <2>1, <2>3 DEF Applied
  <2>5. resumeEpoch = 0 => queue = {}
    BY DEF SyncInv, LinkInv
  <2>6. resumeEpoch = epoch => doubled' = {}
    <3> SUFFICES ASSUME resumeEpoch = epoch, NEW d \in queue, d[2] > rec.seq, d \in Read PROVE FALSE
      BY <2>1
    <3>1. d[1] = epoch /\ rec.epoch = epoch  BY <2>2, Numbers DEF HeldInv
    <3>2. d \in Events  BY DEF HeldInv, Published
    <3> QED  BY <3>1, <3>2, Numbers, EventFacts DEF Read, UpTo
  <2>7. Deltas' = Deltas /\ Resyncs' = Resyncs  BY <2>1 DEF Deltas, Resyncs
  <2>8. \A ev \in Applied : resumeEpoch = epoch => ev[2] <= resumeSeq'
    BY <1>a, <1>b, <2>1, Numbers DEF Larger
  <2> QED  BY <2>1, <2>3, <2>4, <2>5, <2>6, <2>7, <2>8 DEF OnceInv
<1>5. CASE ReceiveReady \/ ReceiveResync
  <2>1. /\ UNCHANGED <<heads, epoch, pump, conn, dial>> /\ conn \in Linked
        /\ channel # << >> /\ channel' = Tail(channel) /\ Head(channel).kind # "event"
    BY <1>5 DEF ReceiveReady, ReceiveResync, HasFrame, Consume
  <2>2. Deltas' \subseteq Deltas /\ Resyncs' \subseteq Resyncs  BY <2>1, RoutedNumbers, Routed, OnTheWay
  <2>3. \/ UNCHANGED <<resumeSeq, resumeEpoch, rec, shown, queue, doubled, baseline>>
        \/ resumeEpoch = 0 /\ UNCHANGED <<rec, shown, queue, doubled, baseline>>
        \/ shown' = {} /\ queue' = {} /\ doubled' = {}
        \/ /\ resumeEpoch \in {0, epoch} /\ resumeEpoch' = epoch /\ doubled' = doubled /\ queue' = queue
           /\ Head(channel).kind = "resync" /\ resumeSeq' = Head(channel).seq /\ rec' = Recovering(fence')
    BY <1>5 DEF ReceiveReady, ReceiveResync, HasFrame, ApplyResync, Bind
  <2>4. resumeEpoch = 0 => queue = {}
    BY DEF SyncInv, LinkInv
  <2>5. CASE UNCHANGED <<resumeSeq, resumeEpoch, rec, shown, queue, doubled, baseline>>
    <3>1. Applied' = Applied /\ UpTo(baseline.epoch, baseline.seq)' = UpTo(baseline.epoch, baseline.seq)
      BY <2>1, <2>5 DEF Applied, UpTo, Published
    <3> QED  BY <2>1, <2>2, <2>5, <3>1 DEF OnceInv
  <2>6. CASE resumeEpoch = 0 /\ UNCHANGED <<rec, shown, queue, doubled, baseline>>
    <3>1. Applied' = Applied /\ UpTo(baseline.epoch, baseline.seq)' = UpTo(baseline.epoch, baseline.seq)
      BY <2>1, <2>6 DEF Applied, UpTo, Published
    <3>2. Applied = {}
      BY <2>4, <2>6 DEF Applied, OnceInv
    <3> QED  BY <2>1, <2>6, <3>1, <3>2 DEF OnceInv
  <2>7. CASE shown' = {} /\ queue' = {} /\ doubled' = {}
    <3>1. Applied' = {}  BY <2>7 DEF Applied
    <3> QED  BY <2>7, <3>1 DEF OnceInv
  <2>8. CASE /\ resumeEpoch \in {0, epoch} /\ resumeEpoch' = epoch /\ doubled' = doubled /\ queue' = queue
             /\ Head(channel).kind = "resync" /\ resumeSeq' = Head(channel).seq /\ rec' = Recovering(fence')
    <3>1. rec'.at # "idle"
      BY <2>8, AttemptFacts DEF Recovering, InFlight
    <3>2. Applied' \subseteq Applied /\ (resumeEpoch = 0 => Applied' = {})
      BY <2>1, <2>4, <2>8, <3>1 DEF Applied
    <3>3. Head(channel).seq \in Resyncs  BY <2>1, <2>8, RoutedNumbers
    <3>4. resumeEpoch # 0 => \A ev \in Applied' : ev[2] <= resumeSeq'
      BY <2>8, <3>2, <3>3 DEF OnceInv
    <3>5. resumeEpoch' # 0  BY <2>8, Numbers DEF Epochs
    <3> QED  BY <2>1, <2>2, <2>8, <3>1, <3>2, <3>4, <3>5 DEF OnceInv, Linked
  <2> QED  BY <2>3, <2>5, <2>6, <2>7, <2>8
<1>6. CASE ReceiveEvent
  BY <1>6, OnceEvent
<1>7. CASE FrameUnreadable
  <2>1. /\ UNCHANGED <<heads, epoch, pump, conn, dial, resumeSeq, resumeEpoch, rec, shown, queue, doubled, baseline>>
        /\ channel # << >> /\ channel' = Tail(channel)
    BY <1>7 DEF FrameUnreadable, HasFrame, Consume
  <2>2. Deltas' \subseteq Deltas /\ Resyncs' \subseteq Resyncs  BY <2>1, RoutedNumbers, Routed, OnTheWay
  <2>3. Applied' = Applied /\ UpTo(baseline.epoch, baseline.seq)' = UpTo(baseline.epoch, baseline.seq)
    BY <2>1 DEF Applied, UpTo, Published
  <2> QED  BY <2>1, <2>2, <2>3 DEF OnceInv
<1> QED  BY <1>1, <1>2, <1>3, <1>4, <1>5, <1>6, <1>7 DEF Next, ServerStep, RecoveryStep, SocketStep

-----------------------------------------------------------------------------
\* The initial state satisfies the invariant.
LEMMA CareInit == Init => CareInv
<1> SUFFICES ASSUME Init PROVE CareInv  OBVIOUS
<1>1. Published = {} /\ Deltas = {} /\ Resyncs = {} /\ Applied = {}
  BY EventFacts DEF Init, Published, Deltas, Resyncs, Applied
<1>2. OrderInv /\ StreamInv /\ AccountedInv
  BY <1>1 DEF Init, OrderInv, InOrder, StreamInv, AccountedInv, Linked
<1>3. HeldInv /\ OnceInv
  BY <1>1 DEF Init, HeldInv, OnceInv
<1> QED  BY <1>2, <1>3 DEF CareInv

\* The invariant is inductive.
LEMMA CareStep == TypeOK /\ SyncInv /\ CareInv /\ [Next]_vars => CareInv'
<1> SUFFICES ASSUME TypeOK, SyncInv, CareInv, [Next]_vars PROVE CareInv'  OBVIOUS
<1>1. CASE Next
  BY <1>1, OrderStep, StreamStep, HeldStep, AccountedStep, OnceStep DEF CareInv
<1>2. CASE UNCHANGED vars
  <2>1. /\ Deltas' = Deltas /\ Resyncs' = Resyncs /\ Published' = Published /\ Read' = Read
        /\ UpTo(baseline.epoch, baseline.seq)' = UpTo(baseline.epoch, baseline.seq)
    BY <1>2 DEF vars, serverVars, clientVars, threadVars, Deltas, Resyncs, Published, Read, UpTo
  <2>2. Applied' = Applied /\ Excused' = Excused /\ seq' = seq
    BY <1>2, <2>1 DEF vars, serverVars, clientVars, threadVars, ghostVars, Applied, Excused, seq
  <2>3. OrderInv' /\ StreamInv'
    BY <1>2, <2>1, <2>2 DEF vars, serverVars, clientVars, CareInv, OrderInv, InOrder, StreamInv, Covered
  <2>4. HeldInv'
    BY <1>2, <2>1 DEF vars, serverVars, clientVars, threadVars, ghostVars, CareInv, HeldInv
  <2>5. AccountedInv'
    BY <1>2, <2>1, <2>2 DEF vars, serverVars, clientVars, threadVars, CareInv, AccountedInv, Accounted,
                            Awaited, Coming, Covered
  <2>6. OnceInv'
    BY <1>2, <2>1, <2>2 DEF vars, serverVars, clientVars, threadVars, CareInv, OnceInv
  <2> QED  BY <2>3, <2>4, <2>5, <2>6 DEF CareInv
<1> QED  BY <1>1, <1>2

\* It holds throughout.
LEMMA CareAlways == Spec => [](TypeOK /\ SyncInv /\ CareInv)
<1>1. Init => TypeOK /\ SyncInv /\ CareInv  BY TypeInit, SyncInit, CareInit
<1>2. TypeOK /\ SyncInv /\ CareInv /\ [Next]_vars => (TypeOK /\ SyncInv /\ CareInv)'
  BY TypeStep, SyncStep, CareStep
<1> QED  BY <1>1, <1>2, PTL DEF Spec

\* Whatever was lost, replayed, expired, restarted or read again, a client whose
\* socket is live with nothing on its way, and no recovery under way, shows every
\* event ever published, but for those the code is known to give up.
THEOREM QuietIsComplete == Spec => []QuietMeansComplete
<1>1. ASSUME TypeOK, SyncInv, CareInv PROVE QuietMeansComplete
  <2> SUFFICES ASSUME Quiet, NEW ev \in Published PROVE ev \in shown \cup Excused
    BY DEF QuietMeansComplete, Complete
  <2>1. conn = "live" /\ channel = << >> /\ rec.at = "idle"  BY DEF Quiet
  <2>2. Deltas = {} /\ Resyncs = {} /\ queue = {}
    BY <1>1, <2>1 DEF Deltas, Resyncs, CareInv, HeldInv
  <2>3. resumeEpoch = epoch  BY <1>1, <2>1 DEF SyncInv, LinkInv, Tuned, Linked
  <2>4. ~Awaited(ev) /\ ~Coming(ev)
    BY <2>1, <2>2, <2>3 DEF Awaited, Coming, Covered
  <2> QED  BY <1>1, <2>2, <2>4 DEF CareInv, AccountedInv, Accounted
<1> QED  BY <1>1, CareAlways, PTL

\* No replay, live event, resumed socket or history read applies an event to a
\* transcript twice.
THEOREM NothingAppliedTwice == Spec => []AppliedOnce
<1>1. ASSUME TypeOK, SyncInv, CareInv PROVE AppliedOnce
  <2> SUFFICES ASSUME Quiet PROVE doubled = {}
    BY DEF AppliedOnce
  <2>1. resumeEpoch = epoch  BY <1>1 DEF Quiet, SyncInv, LinkInv, Tuned, Linked
  <2> QED  BY <1>1, <2>1 DEF CareInv, OnceInv
<1> QED  BY <1>1, CareAlways, PTL

=============================================================================

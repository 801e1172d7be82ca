------------------------- MODULE RemoteCommandProofs -------------------------
(***************************************************************************)
(* What the command receipts guarantee for any number of ids, principals,  *)
(* concurrent requests, crashes and failed receipt writes.                 *)
(***************************************************************************)
EXTENDS RemoteCommand, TLAPS

Busy(r) == req[r].pc \in AtWork

\* A request has an id and a principal; the client waits for a live request of
\* its current id, and only while it tries.
RequestInv ==
    /\ \A r \in Requests : IF req[r].pc = "free" THEN req[r].id = None
                           ELSE req[r].id \in Ids /\ req[r].by \in Principals
    /\ client.awaits # None => /\ req[client.awaits].pc # "free"
                               /\ req[client.awaits].id = client.id
                               /\ client.at = "trying"

\* Without a receipt nothing was tried; a receipt that says "failed" or
\* "completed" is right; a request past its effect has had it.
ReceiptInv ==
    /\ \A id \in Ids : row[id].state = "none" =>
         /\ row[id] = NoRow /\ id \notin landed
         /\ \A r \in Requests : req[r].id = id => ~Busy(r)
    /\ \A id \in Ids : row[id].state = "failed" =>
         id \notin landed /\ \A r \in Requests : req[r].id = id => ~Busy(r)
    /\ \A id \in Ids : row[id].state = "completed" => id \in landed
    /\ \A r \in Requests : req[r].pc = "landed" => req[r].id \in landed

\* On a plain route a receipt runs once: the one request at work is the one that
\* the receipt is in progress for, and the effect comes only from it.
PlainInv ==
    route = "plain" =>
        /\ \A id \in Ids : row[id].state # "retryable"
        /\ \A r \in Requests : Busy(r) => row[req[r].id].state = "in_progress"
        /\ \A r, s \in Requests : Busy(r) /\ Busy(s) /\ req[r].id = req[s].id => r = s
        /\ \A r \in Requests : req[r].pc \in {"running", "dispatched"} => req[r].id \notin landed

\* Before its first answer the current id has been used by one request at most.
FirstAttemptInv ==
    client.at = "trying" /\ client.retained = "no" =>
        /\ \A r \in Requests : req[r].id = client.id => r = client.awaits
        /\ client.awaits = None => row[client.id].state = "none"
        /\ client.awaits # None /\ req[client.awaits].pc = "sent" => row[client.id].state = "none"

\* An id that the client has left behind is unused, or its receipt can never run
\* again; no effect ever came from it.
RetiredInv ==
    \A id \in Ids \ {client.id} :
        /\ id \notin landed
        /\ \A r \in Requests : req[r].id = id => ~Busy(r) /\ row[id].state # "none"
        /\ row[id].state \in {"none", "failed"} \cup
                IF route = "plain" THEN {"in_progress", "uncertain"} ELSE {}

\* The effects counted are those of the current id.
EffectInv == effects = IF client.id \in landed THEN 1 ELSE 0

DoneInv == client.at = "done" => client.id \in landed

Inv == TypeOK /\ RequestInv /\ ReceiptInv /\ PlainInv /\ FirstAttemptInv /\ RetiredInv
       /\ EffectInv /\ DoneInv /\ InProgressIsAlive
-----------------------------------------------------------------------------
(* The steps.                                                              *)

\* What hearing an answer leaves of the client.
Heard(answer) ==
    /\ client' \in Client /\ client'.awaits = None
    /\ \/ answer = "ok" /\ client'.id = client.id /\ client'.at = "done"
       \/ /\ answer = "failed" \/ (answer \in Definite /\ client.retained = "no")
          /\ \/ /\ client'.id \in Ids /\ Unused(client'.id)
                /\ client'.at = "trying" /\ client'.retained = "no"
             \/ client'.id = client.id /\ client'.at = "gave up"
       \/ client'.id = client.id /\ client'.retained = "yes" /\ client'.at = client.at

\* The client as it is left by an answer.
LEMMA HearFacts ==
    ASSUME TypeOK, NEW answer, Hear(answer)
    PROVE  Heard(answer)
<1>1. client \in Client  BY DEF TypeOK
<1>2. CASE answer = "ok"
  BY <1>1, <1>2 DEF Hear, Heard, Client, Definite
<1>3. CASE answer # "ok" /\ (answer = "failed" \/ (answer \in Definite /\ client.retained = "no"))
  <2>1. CASE client' = [client EXCEPT !.at = "gave up", !.awaits = None]
    BY <1>1, <1>3, <2>1 DEF Heard, Client
  <2>2. ASSUME NEW id \in Ids, Unused(id), client' = Fresh(id)
        PROVE  Heard(answer)
    BY <1>1, <1>3, <2>2 DEF Heard, Client, Fresh
  <2> QED  BY <1>3, <2>1, <2>2 DEF Hear
<1>4. CASE answer # "ok" /\ ~(answer = "failed" \/ (answer \in Definite /\ client.retained = "no"))
  BY <1>1, <1>4 DEF Hear, Heard, Client
<1> QED  BY <1>2, <1>3, <1>4

\* What becomes of one request; the others stay.
Becomes(r, pc, id, by) ==
    /\ req' \in [Requests -> Request]
    /\ req'[r].pc = pc /\ req'[r].id = id /\ req'[r].by = by
    /\ \A s \in Requests \ {r} : req'[s] = req[s]

\* The answered request is gone, and only the client that waits for it hears it.
LEMMA AnswerFacts ==
    ASSUME TypeOK, RequestInv, NEW r \in Requests, NEW answer, Answer(r, answer)
    PROVE  /\ Becomes(r, "free", None, None)
           /\ client' \in Client
           /\ \/ client.awaits # r /\ client' = client
              \/ client.awaits = r /\ req[r].id = client.id /\ client.at = "trying" /\ Heard(answer)
<1>1. NoRequest \in Request  BY DEF NoRequest, Request
<1>2. Becomes(r, "free", None, None)
  <2>1. req' = [req EXCEPT ![r] = NoRequest]  BY DEF Answer
  <2>2. req \in [Requests -> Request]  BY DEF TypeOK
  <2> QED  BY <1>1, <2>1, <2>2 DEF Becomes, NoRequest
<1>3. CASE client.awaits = r
  <2>1. Heard(answer)  BY <1>3, HearFacts DEF Answer
  <2>2. r # None  BY NoneAssumption
  <2> QED  BY <1>1, <1>2, <1>3, <2>1, <2>2 DEF RequestInv, Heard
<1>4. CASE client.awaits # r
  BY <1>1, <1>2, <1>4 DEF Answer, TypeOK
<1> QED  BY <1>3, <1>4

\* A crash leaves no request, and a client that waited has heard nothing.
LEMMA LostFacts ==
    ASSUME TypeOK, Lost
    PROVE  client' \in Client /\ client'.awaits = None
           /\ (client' = client \/ (client.awaits # None /\ client'.id = client.id
                                      /\ client'.retained = "yes" /\ client'.at = client.at))
<1>1. client \in Client  BY DEF TypeOK
<1>2. CASE client.awaits = None  BY <1>1, <1>2 DEF Lost
<1>3. CASE client.awaits # None
  BY <1>1, <1>3 DEF Lost, Hear, Definite, Client
<1> QED  BY <1>2, <1>3

\* What each write leaves of the receipts.
LEMMA RowFacts ==
    ASSUME TypeOK, NEW id \in Ids, NEW state \in States, SetState(id, state)
    PROVE  /\ row' = [row EXCEPT ![id] = [state |-> state, by |-> row[id].by]]
           /\ row' \in [Ids -> Receipt]
           /\ row'[id] = [state |-> state, by |-> row[id].by]
           /\ \A i \in Ids \ {id} : row'[i] = row[i]
<1>1. row \in [Ids -> Receipt] /\ row[id] \in Receipt  BY DEF TypeOK
<1>4. [row[id] EXCEPT !.state = state] = [state |-> state, by |-> row[id].by]
  BY <1>1 DEF Receipt
<1>5. row' = [row EXCEPT ![id] = [row[id] EXCEPT !.state = state]]
  BY <1>1 DEF SetState
<1>2. row' = [row EXCEPT ![id] = [state |-> state, by |-> row[id].by]]
  BY <1>4, <1>5
<1>3. [state |-> state, by |-> row[id].by] \in Receipt  BY <1>1 DEF Receipt
<1> QED  BY <1>1, <1>2, <1>3

-----------------------------------------------------------------------------
(* The three things a request does at the host.                            *)

RowTo(id, state) ==
    row' \in [Ids -> Receipt] /\ row'[id].state = state /\ \A i \in Ids \ {id} : row'[i] = row[i]

Starts(r) ==
    /\ req[r].pc = "sent"
    /\ Becomes(r, "running", req[r].id, req[r].by)
    /\ client' = client
    /\ \/ row[req[r].id].state = "none" /\ RowTo(req[r].id, "in_progress")
       \/ /\ route = "journaled" /\ row[req[r].id].state = "retryable"
          /\ row' = row \/ RowTo(req[r].id, "in_progress")
       \/ route = "journaled" /\ row[req[r].id].state = "uncertain" /\ row' = row

Ends(r, answer) ==
    /\ Becomes(r, "free", None, None)
    /\ client' \in Client
    /\ \/ client.awaits # r /\ client' = client
       \/ client.awaits = r /\ req[r].id = client.id /\ client.at = "trying" /\ Heard(answer)

Replays(r, answer) ==
    /\ req[r].pc = "sent" /\ row' = row /\ row[req[r].id].state # "none" /\ Ends(r, answer)
    /\ answer # "refused"
    /\ answer = "ok" => row[req[r].id].state = "completed"
    /\ answer = "failed" => row[req[r].id].state = "failed"

Written(r, answer) ==
    \/ row' = row /\ (writeErrors' > 0 \/ row[req[r].id].state \notin {"in_progress", "uncertain"})
    \/ RowTo(req[r].id, "failed") /\ route = "plain" /\ req[r].pc # "landed"
    \/ RowTo(req[r].id, "uncertain") /\ answer = "error"
    \/ RowTo(req[r].id, "completed") /\ req[r].pc = "landed" /\ answer = "ok"
    \/ RowTo(req[r].id, "retryable") /\ route = "journaled" /\ answer # "refused"

Finishes(r, answer) ==
    /\ Busy(r) /\ Ends(r, answer) /\ Written(r, answer)
    /\ answer \notin {"failed", "in_progress", "conflict"}
    /\ answer = "ok" => req[r].pc = "landed"
    /\ answer = "refused" => route = "plain" /\ req[r].pc # "landed"

\* A request in hand has an id and a principal.
LEMMA InHand ==
    ASSUME TypeOK, RequestInv, NEW r \in Requests, req[r].pc # "free"
    PROVE  req[r] \in Request /\ req[r].id \in Ids /\ req[r].by \in Principals
           /\ row[req[r].id] \in Receipt /\ req[r].id # None /\ r # None
  BY NoneAssumption DEF TypeOK, RequestInv

\* The record of a request that moves on.
LEMMA MoveFacts ==
    ASSUME TypeOK, NEW r \in Requests, NEW pc \in AtWork, req' = [req EXCEPT ![r].pc = pc]
    PROVE  Becomes(r, pc, req[r].id, req[r].by)
<1>1. req \in [Requests -> Request] /\ req[r] \in Request  BY DEF TypeOK
<1>2. [req[r] EXCEPT !.pc = pc] = [pc |-> pc, id |-> req[r].id, by |-> req[r].by]
  BY <1>1 DEF Request
<1>3. req' = [req EXCEPT ![r] = [pc |-> pc, id |-> req[r].id, by |-> req[r].by]]
  BY <1>2
<1>4. [pc |-> pc, id |-> req[r].id, by |-> req[r].by] \in Request  BY <1>1 DEF Request
<1> QED  BY <1>1, <1>3, <1>4 DEF Becomes

\* The record of a request that starts to run.
LEMMA RunFacts ==
    ASSUME TypeOK, RequestInv, NEW r \in Requests, req[r].pc = "sent", Run(r)
    PROVE  Becomes(r, "running", req[r].id, req[r].by) /\ client' = client
<1>1. "running" \in AtWork  BY DEF AtWork
<1> QED  BY <1>1, MoveFacts DEF Run

\* A claim starts the operation or answers for the receipt.
LEMMA ClaimShape ==
    ASSUME TypeOK, RequestInv, ReceiptInv, PlainInv, NEW r \in Requests, Claim(r)
    PROVE  /\ UNCHANGED <<route, landed, effects, bounds>>
           /\ Starts(r) \/ \E answer \in States \cup Definite \cup {"ok"} : Replays(r, answer)
<1> DEFINE id == req[r].id
<1>1. req[r].pc = "sent"  BY DEF Claim, ClaimNew, ClaimForeign, ClaimOwn, ClaimLegacy, Arrived
<1>2. id \in Ids /\ req[r].by \in Principals /\ row[id] \in Receipt /\ req[r].by # None
  BY <1>1, InHand, NoneAssumption
<1>3. row[id].state = "none" => row[id].by = None  BY <1>2 DEF ReceiptInv, NoRow
<1>4. CASE ClaimNew(r)
  <2>1. Run(r) /\ row' = [row EXCEPT ![id] = [state |-> "in_progress", by |-> req[r].by]]
        /\ row[id].state = "none" /\ UNCHANGED <<route, landed, effects, bounds>>
    BY <1>4 DEF ClaimNew
  <2>2. [state |-> "in_progress", by |-> req[r].by] \in Receipt  BY <1>2 DEF Receipt, States
  <2>3. RowTo(id, "in_progress")  BY <1>2, <2>1, <2>2 DEF RowTo, TypeOK
  <2>4. Starts(r)  BY <1>1, <2>1, <2>3, RunFacts DEF Starts
  <2> QED  BY <2>1, <2>4
<1>5. CASE ClaimForeign(r)
  <2>1. Answer(r, "conflict") /\ UNCHANGED <<route, row, landed, effects, bounds>>
        /\ row[id].by # None
    BY <1>5 DEF ClaimForeign
  <2>2. Ends(r, "conflict")  BY <2>1, AnswerFacts DEF Ends
  <2>3. Replays(r, "conflict")  BY <1>1, <1>3, <2>1, <2>2 DEF Replays
  <2> QED  BY <2>1, <2>3 DEF Definite
<1>6. CASE ClaimOwn(r)
  <2>1. UNCHANGED <<route, landed, effects, bounds>> /\ row[id].by = req[r].by
    BY <1>6 DEF ClaimOwn
  <2>2. CASE row[id].state = "retryable" /\ SetState(id, "in_progress") /\ Run(r)
    <3>3. "in_progress" \in States  BY DEF States
    <3>1. RowTo(id, "in_progress")
      <4>1. row' \in [Ids -> Receipt]
            /\ row'[id] = [state |-> "in_progress", by |-> row[id].by]
            /\ \A i \in Ids \ {id} : row'[i] = row[i]
        BY <1>2, <2>2, <3>3, RowFacts
      <4> QED  BY <4>1 DEF RowTo
    <3>2. route = "journaled"  BY <1>2, <2>2 DEF PlainInv, TypeOK
    <3> QED  BY <1>1, <2>1, <2>2, <3>1, <3>2, RunFacts DEF Starts
  <2>3. CASE row[id].state = "completed" /\ Answer(r, "ok") /\ UNCHANGED row
    <3>1. Ends(r, "ok")  BY <2>3, AnswerFacts DEF Ends
    <3>2. Replays(r, "ok")  BY <1>1, <2>3, <3>1 DEF Replays
    <3> QED  BY <2>1, <3>2
  <2>4. CASE row[id].state \in {"failed", "in_progress"} /\ Answer(r, row[id].state) /\ UNCHANGED row
    <3>1. Ends(r, row[id].state)  BY <2>4, AnswerFacts DEF Ends
    <3>2. Replays(r, row[id].state)  BY <1>1, <2>4, <3>1 DEF Replays
    <3> QED  BY <2>1, <2>4, <3>2 DEF States
  <2>5. CASE row[id].state = "uncertain" /\ UNCHANGED row /\ route = "journaled" /\ Run(r)
    <3>1. Starts(r)  BY <1>1, <2>5, RunFacts DEF Starts
    <3> QED  BY <2>1, <3>1
  <2>6. CASE row[id].state = "uncertain" /\ UNCHANGED row /\ Answer(r, "uncertain")
    <3>1. Ends(r, "uncertain")  BY <2>6, AnswerFacts DEF Ends
    <3>2. Replays(r, "uncertain")  BY <1>1, <2>6, <3>1 DEF Replays
    <3> QED  BY <2>1, <3>2 DEF States
  <2> QED  BY <1>6, <2>2, <2>3, <2>4, <2>5, <2>6 DEF ClaimOwn
<1>7. CASE ClaimLegacy(r)
  <2>1. UNCHANGED <<route, row, landed, effects, bounds>> /\ row[id].state # "none"
    BY <1>7 DEF ClaimLegacy
  <2>2. CASE row[id].state = "retryable" /\ Run(r)
    <3>1. route = "journaled"  BY <1>2, <2>2 DEF PlainInv, TypeOK
    <3>2. Starts(r)  BY <1>1, <2>1, <2>2, <3>1, RunFacts DEF Starts
    <3> QED  BY <2>1, <3>2
  <2>3. CASE \E answer \in {"ok", "failed", "uncertain"} :
               /\ Answer(r, answer)
               /\ answer = "ok" => row[id].state = "completed"
               /\ answer = "failed" => row[id].state = "failed"
    <3>1. PICK answer \in {"ok", "failed", "uncertain"} :
               /\ Answer(r, answer)
               /\ answer = "ok" => row[id].state = "completed"
               /\ answer = "failed" => row[id].state = "failed"
      BY <2>3
    <3>2. Ends(r, answer)  BY <3>1, AnswerFacts DEF Ends
    <3>3. Replays(r, answer)  BY <1>1, <2>1, <3>1, <3>2 DEF Replays
    <3> QED  BY <2>1, <3>3 DEF States
  <2>4. \/ row[id].state = "retryable" /\ Run(r)
        \/ row[id].state = "completed" /\ (Answer(r, "ok") \/ Answer(r, "uncertain"))
        \/ row[id].state = "failed" /\ Answer(r, "failed")
        \/ Answer(r, "uncertain")
    <3>1. CASE row[id].state = "completed" /\ Answer(r, IF route = "journaled" THEN "ok" ELSE "uncertain")
      BY <3>1
    <3>2. CASE row[id].state = "failed" /\ Answer(r, row[id].state)
      BY <3>2
    <3> QED  BY <1>7, <3>1, <3>2 DEF ClaimLegacy
  <2> QED  BY <2>2, <2>3, <2>4
<1> QED  BY <1>4, <1>5, <1>6, <1>7 DEF Claim

\* An outcome ends the request with its receipt written, or not.
LEMMA OutcomeShape ==
    ASSUME TypeOK, RequestInv, NEW r \in Requests, Outcome(r)
    PROVE  /\ UNCHANGED <<route, landed, effects>> /\ crashes' = crashes
           /\ writeErrors' \in 0..MaxWriteErrors /\ writeErrors' >= writeErrors
           /\ \E answer \in {"ok", "refused", "error", "retryable"} : Finishes(r, answer)
<1> DEFINE id == req[r].id
<1>1. Busy(r) /\ UNCHANGED <<route, landed, effects>>
  BY DEF Outcome, FailEarly, RefusePreEffect, FailLate, Succeed, ResultRetryable, Busy, AtWork
<1>2. id \in Ids  BY <1>1, InHand DEF Busy, AtWork
<1>3. ASSUME NEW state \in States, Record(SetState(id, state))
      PROVE  /\ crashes' = crashes /\ writeErrors' \in 0..MaxWriteErrors /\ writeErrors' >= writeErrors
             /\ RowTo(id, state) \/ (row' = row /\ writeErrors' > 0)
  <2>1. CASE SetState(id, state) /\ UNCHANGED bounds
    <3>1. row' \in [Ids -> Receipt] /\ row'[id] = [state |-> state, by |-> row[id].by]
          /\ \A i \in Ids \ {id} : row'[i] = row[i]
      BY <1>2, <2>1, RowFacts
    <3>3. crashes' = crashes /\ writeErrors' = writeErrors  BY <2>1 DEF bounds
    <3>4. writeErrors' \in 0..MaxWriteErrors /\ writeErrors' >= writeErrors
      BY <3>3, BoundAssumption DEF TypeOK
    <3> QED  BY <3>1, <3>3, <3>4 DEF RowTo
  <2>2. CASE writeErrors < MaxWriteErrors /\ writeErrors' = writeErrors + 1 /\ UNCHANGED <<row, crashes>>
    BY <2>2, BoundAssumption DEF TypeOK
  <2> QED  BY <1>3, <2>1, <2>2 DEF Record
<1>4. CASE FailEarly(r) \/ RefusePreEffect(r)
  <2>1. PICK answer \in {"refused", "error"} : Answer(r, answer)
    BY <1>4 DEF FailEarly, RefusePreEffect
  <2>2. route = "plain" /\ req[r].pc # "landed" /\ Record(SetState(id, "failed"))
    BY <1>4 DEF FailEarly, RefusePreEffect
  <2>3. Ends(r, answer)  BY <2>1, AnswerFacts DEF Ends
  <2>4. Finishes(r, answer)  BY <1>1, <1>3, <2>2, <2>3 DEF Finishes, Written, States
  <2> QED  BY <1>1, <1>3, <2>2, <2>4 DEF States
<1>5. CASE FailLate(r)
  <2>1. Answer(r, "error") /\ Record(MarkUncertain(id))  BY <1>5 DEF FailLate
  <2>2. Ends(r, "error")  BY <2>1, AnswerFacts DEF Ends
  <2>3. CASE row[id].state \in {"in_progress", "uncertain"}
    <3>1. Record(SetState(id, "uncertain"))  BY <2>1, <2>3 DEF MarkUncertain, Record
    <3>2. Finishes(r, "error")  BY <1>1, <1>3, <2>2, <3>1 DEF Finishes, Written, States
    <3> QED  BY <1>1, <1>3, <3>1, <3>2 DEF States
  <2>4. CASE row[id].state \notin {"in_progress", "uncertain"}
    <3>1. row' = row /\ crashes' = crashes /\ writeErrors' \in 0..MaxWriteErrors
          /\ writeErrors' >= writeErrors
      BY <2>1, <2>4, BoundAssumption DEF Record, MarkUncertain, bounds, TypeOK
    <3>2. Finishes(r, "error")  BY <1>1, <2>2, <2>4, <3>1 DEF Finishes, Written
    <3> QED  BY <1>1, <3>1, <3>2
  <2> QED  BY <2>3, <2>4
<1>6. CASE Succeed(r)
  <2>1. Answer(r, "ok") /\ Record(SetState(id, "completed")) /\ req[r].pc = "landed"
    BY <1>6 DEF Succeed
  <2>2. Ends(r, "ok")  BY <2>1, AnswerFacts DEF Ends
  <2>3. Finishes(r, "ok")  BY <1>1, <1>3, <2>1, <2>2 DEF Finishes, Written, States
  <2> QED  BY <1>1, <1>3, <2>1, <2>3 DEF States
<1>7. CASE ResultRetryable(r)
  <2>1. Answer(r, "retryable") /\ Record(SetState(id, "retryable")) /\ route = "journaled"
    BY <1>7 DEF ResultRetryable
  <2>2. Ends(r, "retryable")  BY <2>1, AnswerFacts DEF Ends
  <2>3. Finishes(r, "retryable")  BY <1>1, <1>3, <2>1, <2>2 DEF Finishes, Written, States
  <2> QED  BY <1>1, <1>3, <2>1, <2>3 DEF States
<1> QED  BY <1>4, <1>5, <1>6, <1>7 DEF Outcome

-----------------------------------------------------------------------------
(* Every step, in the terms the invariant needs.                           *)

SameClient == client' \in Client /\ client'.id = client.id /\ client'.at = client.at

Sends(r) ==
    /\ client.at = "trying" /\ client.awaits = None /\ req[r].pc = "free"
    /\ Becomes(r, "sent", client.id, client.by)
    /\ SameClient /\ client'.awaits = r /\ client'.retained = client.retained
    /\ UNCHANGED <<route, row, landed, effects, crashes, writeErrors>>

Waits ==
    /\ SameClient /\ client'.awaits = None
    /\ \/ client'.retained = "yes"
       \/ client.awaits = None /\ client'.retained = client.retained
    /\ UNCHANGED <<route, row, req, landed, effects, crashes, writeErrors>>

Vanishes(r) ==
    /\ req[r].pc = "sent" /\ client.awaits # r
    /\ Becomes(r, "free", None, None)
    /\ UNCHANGED <<route, row, client, landed, effects, crashes, writeErrors>>

Moves(r, pc) ==
    /\ Becomes(r, pc, req[r].id, req[r].by)
    /\ UNCHANGED <<route, row, client, crashes, writeErrors>>

Dispatches(r) ==
    req[r].pc = "running" /\ Moves(r, "dispatched") /\ UNCHANGED <<landed, effects>>

Lands(r) ==
    /\ req[r].pc = "dispatched" /\ Moves(r, "landed")
    /\ landed' = landed \cup {req[r].id}
    /\ effects' = IF effects = 2 \/ (route = "journaled" /\ req[r].id \in landed) THEN effects
                  ELSE effects + 1

Dies ==
    /\ crashes' \in 0..MaxCrashes /\ UNCHANGED <<route, landed, effects, writeErrors>>
    /\ req' \in [Requests -> Request] /\ row' \in [Ids -> Receipt]
    /\ \A r \in Requests : req'[r].pc = "free" /\ req'[r].id = None
    /\ \A id \in Ids : IF row[id].state = "in_progress" THEN row'[id].state = "uncertain"
                                                         ELSE row'[id] = row[id]
    /\ client' \in Client /\ client'.awaits = None
    /\ \/ client' = client
       \/ SameClient /\ client'.retained = "yes"

Claims(r) ==
    /\ UNCHANGED <<route, landed, effects, crashes, writeErrors>>
    /\ Starts(r) \/ \E answer \in States \cup Definite \cup {"ok"} : Replays(r, answer)

Concludes(r) ==
    /\ UNCHANGED <<route, landed, effects, crashes>>
    /\ writeErrors' \in 0..MaxWriteErrors /\ writeErrors' >= writeErrors
    /\ \E answer \in {"ok", "refused", "error", "retryable"} : Finishes(r, answer)

\* Next comes down to these.
LEMMA Shape ==
    ASSUME TypeOK, RequestInv, ReceiptInv, PlainInv, Next
    PROVE  \/ Waits \/ Dies
           \/ \E r \in Requests : \/ Sends(r) \/ Vanishes(r) \/ Claims(r)
                                  \/ Dispatches(r) \/ Lands(r) \/ Concludes(r)
<1>0. client \in Client  BY DEF TypeOK
<1>1. ASSUME NEW r \in Requests, Send(r)
      PROVE  Sends(r)
  <2>1. client' = [client EXCEPT !.awaits = r] /\ client' \in Client
    BY <1>0, <1>1 DEF Send, Client
  <2>2. SameClient /\ client'.awaits = r /\ client'.retained = client.retained
    BY <1>0, <2>1 DEF SameClient, Client
  <2>3. req[r].pc = "free"  BY <1>1 DEF Send, NoRequest
  <2>4. [pc |-> "sent", id |-> client.id, by |-> client.by] \in Request
    BY <1>0 DEF Client, Request
  <2>5. Becomes(r, "sent", client.id, client.by)
    BY <1>1, <2>4 DEF Send, Becomes, TypeOK
  <2> QED  BY <1>1, <2>2, <2>3, <2>5 DEF Send, Sends, bounds
<1>2. ASSUME NEW r \in Requests, Vanish(r)
      PROVE  Vanishes(r)
  <2>1. NoRequest \in Request  BY DEF NoRequest, Request
  <2>2. Becomes(r, "free", None, None)
    BY <1>2, <2>1 DEF Vanish, Becomes, NoRequest, TypeOK
  <2> QED  BY <1>2, <2>2 DEF Vanish, Vanishes, bounds
<1>3. ASSUME NEW r \in Requests, Claim(r)
      PROVE  Claims(r)
  BY <1>3, ClaimShape DEF Claims, bounds
<1>4. ASSUME NEW r \in Requests, Dispatch(r)
      PROVE  Dispatches(r)
  <2>1. "dispatched" \in AtWork  BY DEF AtWork
  <2>2. Becomes(r, "dispatched", req[r].id, req[r].by)
    BY <1>4, <2>1, MoveFacts DEF Dispatch
  <2> QED  BY <1>4, <2>2 DEF Dispatch, Dispatches, Moves, bounds
<1>5. ASSUME NEW r \in Requests, Effect(r)
      PROVE  Lands(r)
  <2>1. "landed" \in AtWork  BY DEF AtWork
  <2>2. Becomes(r, "landed", req[r].id, req[r].by)
    BY <1>5, <2>1, MoveFacts DEF Effect
  <2> QED  BY <1>5, <2>2 DEF Effect, Lands, Moves, bounds
<1>6. ASSUME NEW r \in Requests, Outcome(r)
      PROVE  Concludes(r)
  BY <1>6, OutcomeShape DEF Concludes
<1>7. CASE Timeout
  <2>1. Heard("lost")  BY <1>7, HearFacts DEF Timeout
  <2>2. SameClient /\ client'.awaits = None /\ client'.retained = "yes"
    BY <2>1 DEF Heard, SameClient, Definite
  <2> QED  BY <1>7, <2>2 DEF Timeout, Waits, bounds
<1>8. CASE PairAgain
  <2>1. PICK p \in Principals : client' = [client EXCEPT !.by = p]  BY <1>8 DEF PairAgain
  <2>2. SameClient /\ client'.awaits = client.awaits /\ client'.retained = client.retained
    BY <1>0, <2>1 DEF SameClient, Client
  <2> QED  BY <1>8, <2>2 DEF PairAgain, Waits, bounds
<1>9. CASE Crash
  <2>1. crashes' \in 0..MaxCrashes  BY <1>9, BoundAssumption DEF Crash, TypeOK
  <2>2. Lost  BY <1>9 DEF Crash
  <2>3. client' \in Client /\ client'.awaits = None
        /\ (client' = client \/ (SameClient /\ client'.retained = "yes"))
    BY <2>2, LostFacts DEF SameClient
  <2>4. NoRequest \in Request /\ NoRequest.pc = "free" /\ NoRequest.id = None
    BY DEF NoRequest, Request
  <2>5. req' \in [Requests -> Request] /\ \A r \in Requests : req'[r].pc = "free" /\ req'[r].id = None
    BY <1>9, <2>4 DEF Crash
  <2>6. \A id \in Ids : [row[id] EXCEPT !.state = "uncertain"] \in Receipt
                         /\ [row[id] EXCEPT !.state = "uncertain"].state = "uncertain"
    BY DEF TypeOK, Receipt, States
  <2>7. row' \in [Ids -> Receipt]
        /\ \A id \in Ids : IF row[id].state = "in_progress" THEN row'[id].state = "uncertain"
                                                             ELSE row'[id] = row[id]
    BY <1>9, <2>6 DEF Crash, TypeOK
  <2> QED  BY <1>9, <2>1, <2>3, <2>5, <2>7 DEF Crash, Dies
<1> QED  BY <1>1, <1>2, <1>3, <1>4, <1>5, <1>6, <1>7, <1>8, <1>9 DEF Next

-----------------------------------------------------------------------------
(* Each part of the invariant survives every step.                         *)

\* Types survive every step.
LEMMA TypeOKStep ==
    ASSUME Inv, Next
    PROVE  TypeOK'
<1> USE NoneAssumption, BoundAssumption
<1>0. TypeOK /\ RequestInv /\ ReceiptInv /\ PlainInv /\ FirstAttemptInv /\ RetiredInv /\ EffectInv /\ DoneInv /\ InProgressIsAlive  BY DEF Inv
<1>t. client \in Client /\ req \in [Requests -> Request] /\ row \in [Ids -> Receipt]
      /\ route \in {"plain", "journaled"} /\ landed \subseteq Ids /\ writeErrors \in 0..MaxWriteErrors
  BY <1>0 DEF TypeOK
<1>c. client.id \in Ids /\ client.by \in Principals /\ client.retained \in {"no", "yes"}
      /\ client.awaits \in Requests \cup {None}
  BY <1>t DEF Client
<1>1. CASE Waits
  BY <1>0, <1>t, <1>c, <1>1 DEF Waits, SameClient, TypeOK
<1>2. CASE Dies
  BY <1>0, <1>t, <1>c, <1>2 DEF Dies, SameClient, TypeOK
<1>3. ASSUME NEW r \in Requests, Sends(r)
      PROVE  TypeOK'
  BY <1>0, <1>t, <1>c, <1>3 DEF Sends, SameClient, Becomes, TypeOK
<1>4. ASSUME NEW r \in Requests, Vanishes(r)
      PROVE  TypeOK'
  BY <1>0, <1>t, <1>c, <1>4 DEF Vanishes, Becomes, TypeOK
<1>5. ASSUME NEW r \in Requests, Claims(r)
      PROVE  TypeOK'
  <2>1. req[r].id \in Ids /\ req[r].by \in Principals /\ req[r].pc = "sent" /\ r # None
    BY <1>0, <1>5, InHand DEF Claims, Starts, Replays
  <2>2. CASE Starts(r)
    BY <1>0, <1>t, <1>c, <1>5, <2>1, <2>2 DEF Claims, Starts, RowTo, Becomes, TypeOK
  <2>3. ASSUME NEW answer \in States \cup Definite \cup {"ok"}, Replays(r, answer)
        PROVE  TypeOK'
    BY <1>0, <1>t, <1>c, <1>5, <2>1, <2>3 DEF Claims, Replays, Ends, Becomes, Heard, Definite, TypeOK
  <2> QED  BY <1>5, <2>2, <2>3 DEF Claims
<1>6. ASSUME NEW r \in Requests, Dispatches(r)
      PROVE  TypeOK'
  BY <1>0, <1>t, <1>c, <1>6 DEF Dispatches, Moves, Becomes, TypeOK
<1>7. ASSUME NEW r \in Requests, Lands(r)
      PROVE  TypeOK'
  <2>1. effects' \in 0..2  BY <1>0, <1>7 DEF Lands, TypeOK
  <2>2. req[r].pc # "free"  BY <1>7 DEF Lands
  <2>3. landed' \subseteq Ids  BY <1>0, <1>t, <1>7, <2>2, InHand DEF Lands
  <2> QED  BY <1>0, <1>7, <2>1, <2>3 DEF Lands, Moves, Becomes, TypeOK
<1>8. ASSUME NEW r \in Requests, Concludes(r)
      PROVE  TypeOK'
  <2>1. PICK answer \in {"ok", "refused", "error", "retryable"} : Finishes(r, answer)
    BY <1>8 DEF Concludes
  <2>2. req[r].id \in Ids /\ Busy(r) /\ req[r].pc \in AtWork /\ r # None
    BY <1>0, <2>1, InHand DEF Finishes, Busy, AtWork
  <2> QED
    BY <1>0, <1>t, <1>c, <1>8, <2>1, <2>2 DEF Concludes, Finishes, Written, Ends, Becomes, Heard, Definite, RowTo, TypeOK
<1> QED  BY <1>0, <1>1, <1>2, <1>3, <1>4, <1>5, <1>6, <1>7, <1>8, Shape

\* Requests stay well formed, and the client waits for one of them.
LEMMA RequestInvStep ==
    ASSUME Inv, Next
    PROVE  RequestInv'
<1> USE NoneAssumption, BoundAssumption
<1>0. TypeOK /\ RequestInv /\ ReceiptInv /\ PlainInv /\ FirstAttemptInv /\ RetiredInv /\ EffectInv /\ DoneInv /\ InProgressIsAlive  BY DEF Inv
<1>t. client \in Client /\ req \in [Requests -> Request] /\ row \in [Ids -> Receipt]
      /\ route \in {"plain", "journaled"} /\ landed \subseteq Ids /\ writeErrors \in 0..MaxWriteErrors
  BY <1>0 DEF TypeOK
<1>c. client.id \in Ids /\ client.by \in Principals /\ client.retained \in {"no", "yes"}
      /\ client.awaits \in Requests \cup {None}
  BY <1>t DEF Client
<1>1. CASE Waits
  BY <1>0, <1>t, <1>c, <1>1 DEF Waits, SameClient, RequestInv
<1>2. CASE Dies
  BY <1>0, <1>t, <1>c, <1>2 DEF Dies, SameClient, RequestInv
<1>3. ASSUME NEW r \in Requests, Sends(r)
      PROVE  RequestInv'
  BY <1>0, <1>t, <1>c, <1>3 DEF Sends, SameClient, Becomes, RequestInv
<1>4. ASSUME NEW r \in Requests, Vanishes(r)
      PROVE  RequestInv'
  BY <1>0, <1>t, <1>c, <1>4 DEF Vanishes, Becomes, RequestInv
<1>5. ASSUME NEW r \in Requests, Claims(r)
      PROVE  RequestInv'
  <2>1. req[r].id \in Ids /\ req[r].by \in Principals /\ req[r].pc = "sent" /\ r # None
    BY <1>0, <1>5, InHand DEF Claims, Starts, Replays
  <2>2. CASE Starts(r)
    BY <1>0, <1>t, <1>c, <1>5, <2>1, <2>2 DEF Claims, Starts, RowTo, Becomes, RequestInv
  <2>3. ASSUME NEW answer \in States \cup Definite \cup {"ok"}, Replays(r, answer)
        PROVE  RequestInv'
    <3>1. Becomes(r, "free", None, None) /\ row' = row
      BY <2>3 DEF Replays, Ends
    <3>2. UNCHANGED <<route, landed, effects, writeErrors>>  BY <1>5 DEF Claims
    <3>3. client'.awaits # None => client' = client /\ client.awaits # r
      BY <2>3 DEF Replays, Ends, Heard
    <3>4. client'.awaits # None => client'.awaits \in Requests
      BY <1>c, <3>3
    <3> QED
      BY <1>0, <1>c, <2>1, <3>1, <3>3, <3>4 DEF Becomes, RequestInv
  <2> QED  BY <1>5, <2>2, <2>3 DEF Claims
<1>6. ASSUME NEW r \in Requests, Dispatches(r)
      PROVE  RequestInv'
  BY <1>0, <1>t, <1>c, <1>6 DEF Dispatches, Moves, Becomes, RequestInv
<1>7. ASSUME NEW r \in Requests, Lands(r)
      PROVE  RequestInv'
  BY <1>0, <1>t, <1>c, <1>7 DEF Lands, Moves, Becomes, RequestInv
<1>8. ASSUME NEW r \in Requests, Concludes(r)
      PROVE  RequestInv'
  <2>1. PICK answer \in {"ok", "refused", "error", "retryable"} : Finishes(r, answer)
    BY <1>8 DEF Concludes
  <2>2. req[r].id \in Ids /\ Busy(r) /\ req[r].pc \in AtWork /\ r # None
    BY <1>0, <2>1, InHand DEF Finishes, Busy, AtWork
  <2>3. Becomes(r, "free", None, None)  BY <2>1 DEF Finishes, Ends
  <2>4. UNCHANGED <<route, landed, effects>> /\ writeErrors' \in Nat /\ writeErrors' >= writeErrors
    BY <1>8 DEF Concludes
  <2>5. client'.awaits # None => client' = client /\ client.awaits # r
    BY <2>1 DEF Finishes, Ends, Heard
  <2>6. client'.awaits # None => client'.awaits \in Requests
    BY <1>c, <2>5
  <2> QED
    BY <1>0, <1>c, <2>2, <2>3, <2>5, <2>6 DEF Becomes, RequestInv
<1> QED  BY <1>0, <1>1, <1>2, <1>3, <1>4, <1>5, <1>6, <1>7, <1>8, Shape

\* Receipts keep telling the truth.
LEMMA ReceiptInvStep ==
    ASSUME Inv, Next
    PROVE  ReceiptInv'
<1> USE NoneAssumption, BoundAssumption
<1>0. TypeOK /\ RequestInv /\ ReceiptInv /\ PlainInv /\ FirstAttemptInv /\ RetiredInv /\ EffectInv /\ DoneInv /\ InProgressIsAlive  BY DEF Inv
<1>t. client \in Client /\ req \in [Requests -> Request] /\ row \in [Ids -> Receipt]
      /\ route \in {"plain", "journaled"} /\ landed \subseteq Ids /\ writeErrors \in 0..MaxWriteErrors
  BY <1>0 DEF TypeOK
<1>c. client.id \in Ids /\ client.by \in Principals /\ client.retained \in {"no", "yes"}
      /\ client.awaits \in Requests \cup {None}
  BY <1>t DEF Client
<1>1. CASE Waits
  BY <1>0, <1>t, <1>c, <1>1 DEF Waits, SameClient, ReceiptInv, NoRow, Busy, AtWork
<1>2. CASE Dies
  BY <1>0, <1>t, <1>c, <1>2 DEF Dies, SameClient, ReceiptInv, NoRow, Busy, AtWork
<1>3. ASSUME NEW r \in Requests, Sends(r)
      PROVE  ReceiptInv'
  BY <1>0, <1>t, <1>c, <1>3 DEF Sends, SameClient, Becomes, ReceiptInv, NoRow, Busy, AtWork
<1>4. ASSUME NEW r \in Requests, Vanishes(r)
      PROVE  ReceiptInv'
  BY <1>0, <1>t, <1>c, <1>4 DEF Vanishes, Becomes, ReceiptInv, NoRow, Busy, AtWork
<1>5. ASSUME NEW r \in Requests, Claims(r)
      PROVE  ReceiptInv'
  <2>1. req[r].id \in Ids /\ req[r].by \in Principals /\ req[r].pc = "sent" /\ r # None
    BY <1>0, <1>5, InHand DEF Claims, Starts, Replays
  <2>2. CASE Starts(r)
    BY <1>0, <1>t, <1>c, <1>5, <2>1, <2>2 DEF Claims, Starts, RowTo, Becomes, ReceiptInv, NoRow, Busy, AtWork
  <2>3. ASSUME NEW answer \in States \cup Definite \cup {"ok"}, Replays(r, answer)
        PROVE  ReceiptInv'
    <3>1. Becomes(r, "free", None, None) /\ row' = row
      BY <2>3 DEF Replays, Ends
    <3>2. UNCHANGED <<route, landed, effects, writeErrors>>  BY <1>5 DEF Claims
    <3> QED
      BY <1>0, <1>t, <2>1, <3>1, <3>2 DEF Becomes, ReceiptInv, NoRow, Busy, AtWork
  <2> QED  BY <1>5, <2>2, <2>3 DEF Claims
<1>6. ASSUME NEW r \in Requests, Dispatches(r)
      PROVE  ReceiptInv'
  BY <1>0, <1>t, <1>c, <1>6 DEF Dispatches, Moves, Becomes, ReceiptInv, NoRow, Busy, AtWork
<1>7. ASSUME NEW r \in Requests, Lands(r)
      PROVE  ReceiptInv'
  BY <1>0, <1>t, <1>c, <1>7 DEF Lands, Moves, Becomes, ReceiptInv, NoRow, Busy, AtWork
<1>8. ASSUME NEW r \in Requests, Concludes(r)
      PROVE  ReceiptInv'
  <2>1. PICK answer \in {"ok", "refused", "error", "retryable"} : Finishes(r, answer)
    BY <1>8 DEF Concludes
  <2>2. req[r].id \in Ids /\ Busy(r) /\ req[r].pc \in AtWork /\ r # None
    BY <1>0, <2>1, InHand DEF Finishes, Busy, AtWork
  <2>3. Becomes(r, "free", None, None)  BY <2>1 DEF Finishes, Ends
  <2>4. UNCHANGED <<route, landed, effects>> /\ writeErrors' \in Nat /\ writeErrors' >= writeErrors
    BY <1>8 DEF Concludes
  <2>5. CASE row' = row /\ (writeErrors' > 0 \/ row[req[r].id].state \notin {"in_progress", "uncertain"})
    BY <1>0, <1>t, <2>2, <2>3, <2>4, <2>5 DEF Becomes, ReceiptInv, NoRow, Busy, AtWork
  <2>6. CASE RowTo(req[r].id, "failed") /\ route = "plain" /\ req[r].pc # "landed"
    BY <1>0, <1>t, <2>2, <2>3, <2>4, <2>6 DEF Becomes, RowTo, ReceiptInv, NoRow, Busy, AtWork, PlainInv
  <2>7. CASE RowTo(req[r].id, "uncertain")
    BY <1>0, <1>t, <2>2, <2>3, <2>4, <2>7 DEF Becomes, RowTo, ReceiptInv, NoRow, Busy, AtWork
  <2>8. CASE RowTo(req[r].id, "completed") /\ req[r].pc = "landed"
    BY <1>0, <1>t, <2>2, <2>3, <2>4, <2>8 DEF Becomes, RowTo, ReceiptInv, NoRow, Busy, AtWork
  <2>9. CASE RowTo(req[r].id, "retryable") /\ route = "journaled"
    BY <1>0, <1>t, <2>2, <2>3, <2>4, <2>9 DEF Becomes, RowTo, ReceiptInv, NoRow, Busy, AtWork
  <2> QED  BY <2>1, <2>5, <2>6, <2>7, <2>8, <2>9 DEF Finishes, Written
<1> QED  BY <1>0, <1>1, <1>2, <1>3, <1>4, <1>5, <1>6, <1>7, <1>8, Shape

\* A plain receipt keeps having one run.
LEMMA PlainInvStep ==
    ASSUME Inv, Next
    PROVE  PlainInv'
<1> USE NoneAssumption, BoundAssumption
<1>0. TypeOK /\ RequestInv /\ ReceiptInv /\ PlainInv /\ FirstAttemptInv /\ RetiredInv /\ EffectInv /\ DoneInv /\ InProgressIsAlive  BY DEF Inv
<1>t. client \in Client /\ req \in [Requests -> Request] /\ row \in [Ids -> Receipt]
      /\ route \in {"plain", "journaled"} /\ landed \subseteq Ids /\ writeErrors \in 0..MaxWriteErrors
  BY <1>0 DEF TypeOK
<1>c. client.id \in Ids /\ client.by \in Principals /\ client.retained \in {"no", "yes"}
      /\ client.awaits \in Requests \cup {None}
  BY <1>t DEF Client
<1>1. CASE Waits
  BY <1>0, <1>t, <1>c, <1>1 DEF Waits, SameClient, PlainInv, Busy, AtWork, RequestInv, ReceiptInv
<1>2. CASE Dies
  BY <1>0, <1>t, <1>c, <1>2 DEF Dies, SameClient, PlainInv, Busy, AtWork, RequestInv, ReceiptInv
<1>3. ASSUME NEW r \in Requests, Sends(r)
      PROVE  PlainInv'
  BY <1>0, <1>t, <1>c, <1>3 DEF Sends, SameClient, Becomes, PlainInv, Busy, AtWork, RequestInv, ReceiptInv
<1>4. ASSUME NEW r \in Requests, Vanishes(r)
      PROVE  PlainInv'
  BY <1>0, <1>t, <1>c, <1>4 DEF Vanishes, Becomes, PlainInv, Busy, AtWork, RequestInv, ReceiptInv
<1>5. ASSUME NEW r \in Requests, Claims(r)
      PROVE  PlainInv'
  <2>1. req[r].id \in Ids /\ req[r].by \in Principals /\ req[r].pc = "sent" /\ r # None
    BY <1>0, <1>5, InHand DEF Claims, Starts, Replays
  <2>2. CASE Starts(r)
    BY <1>0, <1>t, <1>c, <1>5, <2>1, <2>2 DEF Claims, Starts, RowTo, Becomes, PlainInv, Busy, AtWork, RequestInv, ReceiptInv
  <2>3. ASSUME NEW answer \in States \cup Definite \cup {"ok"}, Replays(r, answer)
        PROVE  PlainInv'
    <3>1. Becomes(r, "free", None, None) /\ row' = row
      BY <2>3 DEF Replays, Ends
    <3>2. UNCHANGED <<route, landed, effects, writeErrors>>  BY <1>5 DEF Claims
    <3> QED
      BY <1>0, <1>t, <2>1, <3>1, <3>2 DEF Becomes, PlainInv, Busy, AtWork, RequestInv, ReceiptInv
  <2> QED  BY <1>5, <2>2, <2>3 DEF Claims
<1>6. ASSUME NEW r \in Requests, Dispatches(r)
      PROVE  PlainInv'
  BY <1>0, <1>t, <1>c, <1>6 DEF Dispatches, Moves, Becomes, PlainInv, Busy, AtWork, RequestInv, ReceiptInv
<1>7. ASSUME NEW r \in Requests, Lands(r)
      PROVE  PlainInv'
  BY <1>0, <1>t, <1>c, <1>7 DEF Lands, Moves, Becomes, PlainInv, Busy, AtWork, RequestInv, ReceiptInv
<1>8. ASSUME NEW r \in Requests, Concludes(r)
      PROVE  PlainInv'
  <2>1. PICK answer \in {"ok", "refused", "error", "retryable"} : Finishes(r, answer)
    BY <1>8 DEF Concludes
  <2>2. req[r].id \in Ids /\ Busy(r) /\ req[r].pc \in AtWork /\ r # None
    BY <1>0, <2>1, InHand DEF Finishes, Busy, AtWork
  <2>3. Becomes(r, "free", None, None)  BY <2>1 DEF Finishes, Ends
  <2>4. UNCHANGED <<route, landed, effects>> /\ writeErrors' \in Nat /\ writeErrors' >= writeErrors
    BY <1>8 DEF Concludes
  <2>5. CASE row' = row /\ (writeErrors' > 0 \/ row[req[r].id].state \notin {"in_progress", "uncertain"})
    BY <1>0, <1>t, <2>2, <2>3, <2>4, <2>5 DEF Becomes, PlainInv, Busy, AtWork, RequestInv, ReceiptInv
  <2>6. CASE RowTo(req[r].id, "failed") /\ route = "plain" /\ req[r].pc # "landed"
    BY <1>0, <1>t, <2>2, <2>3, <2>4, <2>6 DEF Becomes, RowTo, PlainInv, Busy, AtWork, RequestInv, ReceiptInv
  <2>7. CASE RowTo(req[r].id, "uncertain")
    BY <1>0, <1>t, <2>2, <2>3, <2>4, <2>7 DEF Becomes, RowTo, PlainInv, Busy, AtWork, RequestInv, ReceiptInv
  <2>8. CASE RowTo(req[r].id, "completed") /\ req[r].pc = "landed"
    BY <1>0, <1>t, <2>2, <2>3, <2>4, <2>8 DEF Becomes, RowTo, PlainInv, Busy, AtWork, RequestInv, ReceiptInv
  <2>9. CASE RowTo(req[r].id, "retryable") /\ route = "journaled"
    BY <1>0, <1>t, <2>2, <2>3, <2>4, <2>9 DEF Becomes, RowTo, PlainInv, Busy, AtWork, RequestInv, ReceiptInv
  <2> QED  BY <2>1, <2>5, <2>6, <2>7, <2>8, <2>9 DEF Finishes, Written
<1> QED  BY <1>0, <1>1, <1>2, <1>3, <1>4, <1>5, <1>6, <1>7, <1>8, Shape

\* A first attempt stays the only one.
LEMMA FirstAttemptInvStep ==
    ASSUME Inv, Next
    PROVE  FirstAttemptInv'
<1> USE NoneAssumption, BoundAssumption
<1>0. TypeOK /\ RequestInv /\ ReceiptInv /\ PlainInv /\ FirstAttemptInv /\ RetiredInv /\ EffectInv /\ DoneInv /\ InProgressIsAlive  BY DEF Inv
<1>t. client \in Client /\ req \in [Requests -> Request] /\ row \in [Ids -> Receipt]
      /\ route \in {"plain", "journaled"} /\ landed \subseteq Ids /\ writeErrors \in 0..MaxWriteErrors
  BY <1>0 DEF TypeOK
<1>c. client.id \in Ids /\ client.by \in Principals /\ client.retained \in {"no", "yes"}
      /\ client.awaits \in Requests \cup {None}
  BY <1>t DEF Client
<1>1. CASE Waits
  BY <1>0, <1>t, <1>c, <1>1 DEF Waits, SameClient, FirstAttemptInv, RequestInv, ReceiptInv
<1>2. CASE Dies
  BY <1>0, <1>t, <1>c, <1>2 DEF Dies, SameClient, FirstAttemptInv, RequestInv, ReceiptInv
<1>3. ASSUME NEW r \in Requests, Sends(r)
      PROVE  FirstAttemptInv'
  BY <1>0, <1>t, <1>c, <1>3 DEF Sends, SameClient, Becomes, FirstAttemptInv, RequestInv, ReceiptInv
<1>4. ASSUME NEW r \in Requests, Vanishes(r)
      PROVE  FirstAttemptInv'
  BY <1>0, <1>t, <1>c, <1>4 DEF Vanishes, Becomes, FirstAttemptInv, RequestInv, ReceiptInv
<1>5. ASSUME NEW r \in Requests, Claims(r)
      PROVE  FirstAttemptInv'
  <2>1. req[r].id \in Ids /\ req[r].by \in Principals /\ req[r].pc = "sent" /\ r # None
    BY <1>0, <1>5, InHand DEF Claims, Starts, Replays
  <2>2. CASE Starts(r)
    BY <1>0, <1>t, <1>c, <1>5, <2>1, <2>2 DEF Claims, Starts, RowTo, Becomes, FirstAttemptInv, RequestInv, ReceiptInv
  <2>3. ASSUME NEW answer \in States \cup Definite \cup {"ok"}, Replays(r, answer)
        PROVE  FirstAttemptInv'
    <3>1. Becomes(r, "free", None, None) /\ row' = row
      BY <2>3 DEF Replays, Ends
    <3>2. UNCHANGED <<route, landed, effects, writeErrors>>  BY <1>5 DEF Claims
    <3>3. row[req[r].id].state # "none" /\ answer # "refused"
          /\ (answer = "failed" => row[req[r].id].state = "failed")
      BY <2>3 DEF Replays
    <3>4. CASE client.awaits # r /\ client' = client
      BY <1>0, <1>t, <1>c, <2>1, <3>1, <3>2, <3>3, <3>4 DEF Becomes, FirstAttemptInv, RequestInv, ReceiptInv
    <3>5. CASE client.awaits = r /\ req[r].id = client.id /\ client.at = "trying" /\ Heard(answer)
      <4>1. answer = "failed" \/ client.retained = "yes"
        BY <1>0, <1>c, <2>1, <3>3, <3>5 DEF FirstAttemptInv
      <4>2. CASE client'.id = client.id /\ client'.awaits = None
                 /\ (client'.retained = "yes" \/ client'.at # "trying")
        BY <1>0, <1>t, <1>c, <2>1, <3>1, <3>2, <3>3, <4>2 DEF Becomes, FirstAttemptInv, RequestInv, ReceiptInv
      <4>3. CASE client'.id \in Ids /\ Unused(client'.id) /\ client'.awaits = None
                 /\ row[client.id].state = "failed"
        BY <1>0, <1>t, <1>c, <2>1, <3>1, <3>2, <3>5, <4>3 DEF Becomes, FirstAttemptInv, RequestInv, ReceiptInv, Unused, NoRow
      <4> QED  BY <3>3, <3>5, <4>1, <4>2, <4>3 DEF Heard, Definite
    <3> QED  BY <2>3, <3>4, <3>5 DEF Replays, Ends
  <2> QED  BY <1>5, <2>2, <2>3 DEF Claims
<1>6. ASSUME NEW r \in Requests, Dispatches(r)
      PROVE  FirstAttemptInv'
  BY <1>0, <1>t, <1>c, <1>6 DEF Dispatches, Moves, Becomes, FirstAttemptInv, RequestInv, ReceiptInv
<1>7. ASSUME NEW r \in Requests, Lands(r)
      PROVE  FirstAttemptInv'
  BY <1>0, <1>t, <1>c, <1>7 DEF Lands, Moves, Becomes, FirstAttemptInv, RequestInv, ReceiptInv
<1>8. ASSUME NEW r \in Requests, Concludes(r)
      PROVE  FirstAttemptInv'
  <2>1. PICK answer \in {"ok", "refused", "error", "retryable"} : Finishes(r, answer)
    BY <1>8 DEF Concludes
  <2>2. req[r].id \in Ids /\ Busy(r) /\ req[r].pc \in AtWork /\ r # None
    BY <1>0, <2>1, InHand DEF Finishes, Busy, AtWork
  <2>3. Becomes(r, "free", None, None)  BY <2>1 DEF Finishes, Ends
  <2>4. UNCHANGED <<route, landed, effects>> /\ writeErrors' \in Nat /\ writeErrors' >= writeErrors
    BY <1>8 DEF Concludes
  <2>5. \A i \in Ids \ {req[r].id} : row'[i] = row[i]
    BY <2>1 DEF Finishes, Written, RowTo
  <2>6. row[req[r].id].state # "none" /\ row'[req[r].id].state # "none"
    BY <1>0, <2>1, <2>2 DEF Finishes, Written, RowTo, ReceiptInv
  <2>7. req[r].id = client.id
    BY <1>0, <2>2 DEF RetiredInv
  <2>8. CASE client'.id = client.id
    <3>1. client'.retained = "yes" \/ client'.at # "trying" \/ (client' = client /\ client.awaits # r)
      BY <2>1, <2>8 DEF Finishes, Ends, Heard, Unused
    <3> QED
      BY <1>0, <1>t, <1>c, <2>2, <2>3, <2>4, <2>5, <2>6, <2>7, <2>8, <3>1 DEF Becomes, FirstAttemptInv, RequestInv, ReceiptInv
  <2>9. CASE client'.id # client.id
    <3>1. client'.id \in Ids /\ Unused(client'.id) /\ client'.awaits = None /\ answer = "refused"
          /\ client.retained = "no" /\ client.awaits = r /\ client.at = "trying"
      BY <2>1, <2>9 DEF Finishes, Ends, Heard, Definite
    <3>2. route = "plain" /\ req[r].pc \in {"running", "dispatched"}
      BY <2>1, <2>2, <3>1 DEF Finishes, AtWork
    <3>3. row'[client.id].state \in {"failed", "in_progress"}
      BY <1>0, <2>1, <2>2, <2>7, <3>1, <3>2 DEF Finishes, Written, RowTo, PlainInv
    <3>4. client.id \notin landed /\ \A q \in Requests \ {r} : req[q].id = client.id => ~Busy(q)
      BY <1>0, <2>2, <2>7, <3>2 DEF PlainInv
    <3> QED
      BY <1>0, <1>t, <1>c, <2>2, <2>3, <2>4, <2>5, <2>6, <2>7, <3>1, <3>2, <3>3, <3>4
      DEF Becomes, FirstAttemptInv, Unused, NoRow, Busy, AtWork
  <2> QED  BY <2>8, <2>9
<1> QED  BY <1>0, <1>1, <1>2, <1>3, <1>4, <1>5, <1>6, <1>7, <1>8, Shape

\* A retired id stays dead.
LEMMA RetiredInvStep ==
    ASSUME Inv, Next
    PROVE  RetiredInv'
<1> USE NoneAssumption, BoundAssumption
<1>0. TypeOK /\ RequestInv /\ ReceiptInv /\ PlainInv /\ FirstAttemptInv /\ RetiredInv /\ EffectInv /\ DoneInv /\ InProgressIsAlive  BY DEF Inv
<1>t. client \in Client /\ req \in [Requests -> Request] /\ row \in [Ids -> Receipt]
      /\ route \in {"plain", "journaled"} /\ landed \subseteq Ids /\ writeErrors \in 0..MaxWriteErrors
  BY <1>0 DEF TypeOK
<1>c. client.id \in Ids /\ client.by \in Principals /\ client.retained \in {"no", "yes"}
      /\ client.awaits \in Requests \cup {None}
  BY <1>t DEF Client
<1>1. CASE Waits
  BY <1>0, <1>t, <1>c, <1>1 DEF Waits, SameClient, RetiredInv, Busy, AtWork, Unused, RequestInv, ReceiptInv, PlainInv, FirstAttemptInv, NoRow
<1>2. CASE Dies
  BY <1>0, <1>t, <1>c, <1>2 DEF Dies, SameClient, RetiredInv, Busy, AtWork, Unused, RequestInv, ReceiptInv, PlainInv, FirstAttemptInv, NoRow
<1>3. ASSUME NEW r \in Requests, Sends(r)
      PROVE  RetiredInv'
  BY <1>0, <1>t, <1>c, <1>3 DEF Sends, SameClient, Becomes, RetiredInv, Busy, AtWork, Unused, RequestInv, ReceiptInv, PlainInv, FirstAttemptInv, NoRow
<1>4. ASSUME NEW r \in Requests, Vanishes(r)
      PROVE  RetiredInv'
  BY <1>0, <1>t, <1>c, <1>4 DEF Vanishes, Becomes, RetiredInv, Busy, AtWork, Unused, RequestInv, ReceiptInv, PlainInv, FirstAttemptInv, NoRow
<1>5. ASSUME NEW r \in Requests, Claims(r)
      PROVE  RetiredInv'
  <2>1. req[r].id \in Ids /\ req[r].by \in Principals /\ req[r].pc = "sent" /\ r # None
    BY <1>0, <1>5, InHand DEF Claims, Starts, Replays
  <2>2. CASE Starts(r)
    BY <1>0, <1>t, <1>c, <1>5, <2>1, <2>2 DEF Claims, Starts, RowTo, Becomes, RetiredInv, Busy, AtWork, Unused, RequestInv, ReceiptInv, PlainInv, FirstAttemptInv, NoRow
  <2>3. ASSUME NEW answer \in States \cup Definite \cup {"ok"}, Replays(r, answer)
        PROVE  RetiredInv'
    <3>1. Becomes(r, "free", None, None) /\ row' = row
      BY <2>3 DEF Replays, Ends
    <3>2. UNCHANGED <<route, landed, effects, writeErrors>>  BY <1>5 DEF Claims
    <3>3. row[req[r].id].state # "none" /\ answer # "refused"
          /\ (answer = "failed" => row[req[r].id].state = "failed")
      BY <2>3 DEF Replays
    <3>4. CASE client.awaits # r /\ client' = client
      BY <1>0, <1>t, <1>c, <2>1, <3>1, <3>2, <3>3, <3>4 DEF Becomes, RetiredInv, Busy, AtWork, Unused, RequestInv, ReceiptInv, PlainInv, FirstAttemptInv, NoRow
    <3>5. CASE client.awaits = r /\ req[r].id = client.id /\ client.at = "trying" /\ Heard(answer)
      <4>1. answer = "failed" \/ client.retained = "yes"
        BY <1>0, <1>c, <2>1, <3>3, <3>5 DEF FirstAttemptInv
      <4>2. CASE client'.id = client.id /\ client'.awaits = None
                 /\ (client'.retained = "yes" \/ client'.at # "trying")
        BY <1>0, <1>t, <1>c, <2>1, <3>1, <3>2, <3>3, <4>2 DEF Becomes, RetiredInv, Busy, AtWork, Unused, RequestInv, ReceiptInv, PlainInv, FirstAttemptInv, NoRow
      <4>3. CASE client'.id \in Ids /\ Unused(client'.id) /\ client'.awaits = None
                 /\ row[client.id].state = "failed"
        BY <1>0, <1>t, <1>c, <2>1, <3>1, <3>2, <3>5, <4>3 DEF Becomes, RetiredInv, Busy, AtWork, Unused, RequestInv, ReceiptInv, PlainInv, FirstAttemptInv, NoRow
      <4> QED  BY <3>3, <3>5, <4>1, <4>2, <4>3 DEF Heard, Definite
    <3> QED  BY <2>3, <3>4, <3>5 DEF Replays, Ends
  <2> QED  BY <1>5, <2>2, <2>3 DEF Claims
<1>6. ASSUME NEW r \in Requests, Dispatches(r)
      PROVE  RetiredInv'
  BY <1>0, <1>t, <1>c, <1>6 DEF Dispatches, Moves, Becomes, RetiredInv, Busy, AtWork, Unused, RequestInv, ReceiptInv, PlainInv, FirstAttemptInv, NoRow
<1>7. ASSUME NEW r \in Requests, Lands(r)
      PROVE  RetiredInv'
  BY <1>0, <1>t, <1>c, <1>7 DEF Lands, Moves, Becomes, RetiredInv, Busy, AtWork, Unused, RequestInv, ReceiptInv, PlainInv, FirstAttemptInv, NoRow
<1>8. ASSUME NEW r \in Requests, Concludes(r)
      PROVE  RetiredInv'
  <2>1. PICK answer \in {"ok", "refused", "error", "retryable"} : Finishes(r, answer)
    BY <1>8 DEF Concludes
  <2>2. req[r].id \in Ids /\ Busy(r) /\ req[r].pc \in AtWork /\ r # None
    BY <1>0, <2>1, InHand DEF Finishes, Busy, AtWork
  <2>3. Becomes(r, "free", None, None)  BY <2>1 DEF Finishes, Ends
  <2>4. UNCHANGED <<route, landed, effects>> /\ writeErrors' \in Nat /\ writeErrors' >= writeErrors
    BY <1>8 DEF Concludes
  <2>5. \A i \in Ids \ {req[r].id} : row'[i] = row[i]
    BY <2>1 DEF Finishes, Written, RowTo
  <2>6. row[req[r].id].state # "none" /\ row'[req[r].id].state # "none"
    BY <1>0, <2>1, <2>2 DEF Finishes, Written, RowTo, ReceiptInv
  <2>7. req[r].id = client.id
    BY <1>0, <2>2 DEF RetiredInv
  <2>8. CASE client'.id = client.id
    <3>1. client'.retained = "yes" \/ client'.at # "trying" \/ (client' = client /\ client.awaits # r)
      BY <2>1, <2>8 DEF Finishes, Ends, Heard, Unused
    <3> QED
      BY <1>0, <1>t, <1>c, <2>2, <2>3, <2>4, <2>5, <2>6, <2>7, <2>8, <3>1 DEF Becomes, RetiredInv, Busy, AtWork, Unused, RequestInv, ReceiptInv, PlainInv, FirstAttemptInv, NoRow
  <2>9. CASE client'.id # client.id
    <3>1. client'.id \in Ids /\ Unused(client'.id) /\ client'.awaits = None /\ answer = "refused"
          /\ client.retained = "no" /\ client.awaits = r /\ client.at = "trying"
      BY <2>1, <2>9 DEF Finishes, Ends, Heard, Definite
    <3>2. route = "plain" /\ req[r].pc \in {"running", "dispatched"}
      BY <2>1, <2>2, <3>1 DEF Finishes, AtWork
    <3>3. row'[client.id].state \in {"failed", "in_progress"}
      BY <1>0, <2>1, <2>2, <2>7, <3>1, <3>2 DEF Finishes, Written, RowTo, PlainInv
    <3>4. client.id \notin landed /\ \A q \in Requests \ {r} : req[q].id = client.id => ~Busy(q)
      BY <1>0, <2>2, <2>7, <3>2 DEF PlainInv
    <3> QED
      BY <1>0, <1>t, <1>c, <2>2, <2>3, <2>4, <2>5, <2>6, <2>7, <3>1, <3>2, <3>3, <3>4
      DEF Becomes, RetiredInv, Busy, AtWork, Unused, NoRow
  <2> QED  BY <2>8, <2>9
<1> QED  BY <1>0, <1>1, <1>2, <1>3, <1>4, <1>5, <1>6, <1>7, <1>8, Shape

\* The effect count stays that of the current id.
LEMMA EffectInvStep ==
    ASSUME Inv, Next
    PROVE  EffectInv'
<1> USE NoneAssumption, BoundAssumption
<1>0. TypeOK /\ RequestInv /\ ReceiptInv /\ PlainInv /\ FirstAttemptInv /\ RetiredInv /\ EffectInv /\ DoneInv /\ InProgressIsAlive  BY DEF Inv
<1>t. client \in Client /\ req \in [Requests -> Request] /\ row \in [Ids -> Receipt]
      /\ route \in {"plain", "journaled"} /\ landed \subseteq Ids /\ writeErrors \in 0..MaxWriteErrors
  BY <1>0 DEF TypeOK
<1>c. client.id \in Ids /\ client.by \in Principals /\ client.retained \in {"no", "yes"}
      /\ client.awaits \in Requests \cup {None}
  BY <1>t DEF Client
<1>1. CASE Waits
  BY <1>0, <1>t, <1>c, <1>1 DEF Waits, SameClient, EffectInv, Unused, RequestInv, ReceiptInv, PlainInv, RetiredInv, FirstAttemptInv, Busy, AtWork, NoRow
<1>2. CASE Dies
  BY <1>0, <1>t, <1>c, <1>2 DEF Dies, SameClient, EffectInv, Unused, RequestInv, ReceiptInv, PlainInv, RetiredInv, FirstAttemptInv, Busy, AtWork, NoRow
<1>3. ASSUME NEW r \in Requests, Sends(r)
      PROVE  EffectInv'
  BY <1>0, <1>t, <1>c, <1>3 DEF Sends, SameClient, Becomes, EffectInv, Unused, RequestInv, ReceiptInv, PlainInv, RetiredInv, FirstAttemptInv, Busy, AtWork, NoRow
<1>4. ASSUME NEW r \in Requests, Vanishes(r)
      PROVE  EffectInv'
  BY <1>0, <1>t, <1>c, <1>4 DEF Vanishes, Becomes, EffectInv, Unused, RequestInv, ReceiptInv, PlainInv, RetiredInv, FirstAttemptInv, Busy, AtWork, NoRow
<1>5. ASSUME NEW r \in Requests, Claims(r)
      PROVE  EffectInv'
  <2>1. req[r].id \in Ids /\ req[r].by \in Principals /\ req[r].pc = "sent" /\ r # None
    BY <1>0, <1>5, InHand DEF Claims, Starts, Replays
  <2>2. CASE Starts(r)
    BY <1>0, <1>t, <1>c, <1>5, <2>1, <2>2 DEF Claims, Starts, RowTo, Becomes, EffectInv, Unused, RequestInv, ReceiptInv, PlainInv, RetiredInv, FirstAttemptInv, Busy, AtWork, NoRow
  <2>3. ASSUME NEW answer \in States \cup Definite \cup {"ok"}, Replays(r, answer)
        PROVE  EffectInv'
    BY <1>0, <1>t, <1>c, <1>5, <2>1, <2>3 DEF Claims, Replays, Ends, Becomes, Heard, Definite, EffectInv, Unused, RequestInv, ReceiptInv, PlainInv, RetiredInv, FirstAttemptInv, Busy, AtWork, NoRow
  <2> QED  BY <1>5, <2>2, <2>3 DEF Claims
<1>6. ASSUME NEW r \in Requests, Dispatches(r)
      PROVE  EffectInv'
  BY <1>0, <1>t, <1>c, <1>6 DEF Dispatches, Moves, Becomes, EffectInv, Unused, RequestInv, ReceiptInv, PlainInv, RetiredInv, FirstAttemptInv, Busy, AtWork, NoRow
<1>7. ASSUME NEW r \in Requests, Lands(r)
      PROVE  EffectInv'
  BY <1>0, <1>t, <1>c, <1>7 DEF Lands, Moves, Becomes, EffectInv, Unused, RequestInv, ReceiptInv, PlainInv, RetiredInv, FirstAttemptInv, Busy, AtWork, NoRow
<1>8. ASSUME NEW r \in Requests, Concludes(r)
      PROVE  EffectInv'
  <2>1. PICK answer \in {"ok", "refused", "error", "retryable"} : Finishes(r, answer)
    BY <1>8 DEF Concludes
  <2>2. req[r].id \in Ids /\ Busy(r) /\ req[r].pc \in AtWork /\ r # None
    BY <1>0, <2>1, InHand DEF Finishes, Busy, AtWork
  <2> QED
    BY <1>0, <1>t, <1>c, <1>8, <2>1, <2>2 DEF Concludes, Finishes, Written, Ends, Becomes, Heard, Definite, RowTo, EffectInv, Unused, RequestInv, ReceiptInv, PlainInv, RetiredInv, FirstAttemptInv, Busy, AtWork, NoRow
<1> QED  BY <1>0, <1>1, <1>2, <1>3, <1>4, <1>5, <1>6, <1>7, <1>8, Shape

\* A client that is done has had its effect.
LEMMA DoneInvStep ==
    ASSUME Inv, Next
    PROVE  DoneInv'
<1> USE NoneAssumption, BoundAssumption
<1>0. TypeOK /\ RequestInv /\ ReceiptInv /\ PlainInv /\ FirstAttemptInv /\ RetiredInv /\ EffectInv /\ DoneInv /\ InProgressIsAlive  BY DEF Inv
<1>t. client \in Client /\ req \in [Requests -> Request] /\ row \in [Ids -> Receipt]
      /\ route \in {"plain", "journaled"} /\ landed \subseteq Ids /\ writeErrors \in 0..MaxWriteErrors
  BY <1>0 DEF TypeOK
<1>c. client.id \in Ids /\ client.by \in Principals /\ client.retained \in {"no", "yes"}
      /\ client.awaits \in Requests \cup {None}
  BY <1>t DEF Client
<1>1. CASE Waits
  BY <1>0, <1>t, <1>c, <1>1 DEF Waits, SameClient, DoneInv, ReceiptInv, RequestInv
<1>2. CASE Dies
  BY <1>0, <1>t, <1>c, <1>2 DEF Dies, SameClient, DoneInv, ReceiptInv, RequestInv
<1>3. ASSUME NEW r \in Requests, Sends(r)
      PROVE  DoneInv'
  BY <1>0, <1>t, <1>c, <1>3 DEF Sends, SameClient, Becomes, DoneInv, ReceiptInv, RequestInv
<1>4. ASSUME NEW r \in Requests, Vanishes(r)
      PROVE  DoneInv'
  BY <1>0, <1>t, <1>c, <1>4 DEF Vanishes, Becomes, DoneInv, ReceiptInv, RequestInv
<1>5. ASSUME NEW r \in Requests, Claims(r)
      PROVE  DoneInv'
  <2>1. req[r].id \in Ids /\ req[r].by \in Principals /\ req[r].pc = "sent" /\ r # None
    BY <1>0, <1>5, InHand DEF Claims, Starts, Replays
  <2>2. CASE Starts(r)
    BY <1>0, <1>t, <1>c, <1>5, <2>1, <2>2 DEF Claims, Starts, RowTo, Becomes, DoneInv, ReceiptInv, RequestInv
  <2>3. ASSUME NEW answer \in States \cup Definite \cup {"ok"}, Replays(r, answer)
        PROVE  DoneInv'
    BY <1>0, <1>t, <1>c, <1>5, <2>1, <2>3 DEF Claims, Replays, Ends, Becomes, Heard, Definite, DoneInv, ReceiptInv, RequestInv
  <2> QED  BY <1>5, <2>2, <2>3 DEF Claims
<1>6. ASSUME NEW r \in Requests, Dispatches(r)
      PROVE  DoneInv'
  BY <1>0, <1>t, <1>c, <1>6 DEF Dispatches, Moves, Becomes, DoneInv, ReceiptInv, RequestInv
<1>7. ASSUME NEW r \in Requests, Lands(r)
      PROVE  DoneInv'
  BY <1>0, <1>t, <1>c, <1>7 DEF Lands, Moves, Becomes, DoneInv, ReceiptInv, RequestInv
<1>8. ASSUME NEW r \in Requests, Concludes(r)
      PROVE  DoneInv'
  <2>1. PICK answer \in {"ok", "refused", "error", "retryable"} : Finishes(r, answer)
    BY <1>8 DEF Concludes
  <2>2. req[r].id \in Ids /\ Busy(r) /\ req[r].pc \in AtWork /\ r # None
    BY <1>0, <2>1, InHand DEF Finishes, Busy, AtWork
  <2> QED
    BY <1>0, <1>t, <1>c, <1>8, <2>1, <2>2 DEF Concludes, Finishes, Written, Ends, Becomes, Heard, Definite, RowTo, DoneInv, ReceiptInv, RequestInv
<1> QED  BY <1>0, <1>1, <1>2, <1>3, <1>4, <1>5, <1>6, <1>7, <1>8, Shape

\* A receipt in progress keeps its request.
LEMMA InProgressIsAliveStep ==
    ASSUME Inv, Next
    PROVE  InProgressIsAlive'
<1> USE NoneAssumption, BoundAssumption
<1>0. TypeOK /\ RequestInv /\ ReceiptInv /\ PlainInv /\ FirstAttemptInv /\ RetiredInv /\ EffectInv /\ DoneInv /\ InProgressIsAlive  BY DEF Inv
<1>t. client \in Client /\ req \in [Requests -> Request] /\ row \in [Ids -> Receipt]
      /\ route \in {"plain", "journaled"} /\ landed \subseteq Ids /\ writeErrors \in 0..MaxWriteErrors
  BY <1>0 DEF TypeOK
<1>c. client.id \in Ids /\ client.by \in Principals /\ client.retained \in {"no", "yes"}
      /\ client.awaits \in Requests \cup {None}
  BY <1>t DEF Client
<1>1. CASE Waits
  BY <1>0, <1>t, <1>c, <1>1 DEF Waits, SameClient, InProgressIsAlive, Busy, AtWork, RequestInv
<1>2. CASE Dies
  BY <1>0, <1>t, <1>c, <1>2 DEF Dies, SameClient, InProgressIsAlive, Busy, AtWork, RequestInv
<1>3. ASSUME NEW r \in Requests, Sends(r)
      PROVE  InProgressIsAlive'
  BY <1>0, <1>t, <1>c, <1>3 DEF Sends, SameClient, Becomes, InProgressIsAlive, Busy, AtWork, RequestInv
<1>4. ASSUME NEW r \in Requests, Vanishes(r)
      PROVE  InProgressIsAlive'
  BY <1>0, <1>t, <1>c, <1>4 DEF Vanishes, Becomes, InProgressIsAlive, Busy, AtWork, RequestInv
<1>5. ASSUME NEW r \in Requests, Claims(r)
      PROVE  InProgressIsAlive'
  <2>1. req[r].id \in Ids /\ req[r].by \in Principals /\ req[r].pc = "sent" /\ r # None
    BY <1>0, <1>5, InHand DEF Claims, Starts, Replays
  <2>2. CASE Starts(r)
    BY <1>0, <1>t, <1>c, <1>5, <2>1, <2>2 DEF Claims, Starts, RowTo, Becomes, InProgressIsAlive, Busy, AtWork, RequestInv
  <2>3. ASSUME NEW answer \in States \cup Definite \cup {"ok"}, Replays(r, answer)
        PROVE  InProgressIsAlive'
    <3>1. Becomes(r, "free", None, None) /\ row' = row
      BY <2>3 DEF Replays, Ends
    <3>2. UNCHANGED <<route, landed, effects, writeErrors>>  BY <1>5 DEF Claims
    <3> QED
      BY <1>0, <1>t, <2>1, <3>1, <3>2 DEF Becomes, InProgressIsAlive, Busy, AtWork, RequestInv
  <2> QED  BY <1>5, <2>2, <2>3 DEF Claims
<1>6. ASSUME NEW r \in Requests, Dispatches(r)
      PROVE  InProgressIsAlive'
  BY <1>0, <1>t, <1>c, <1>6 DEF Dispatches, Moves, Becomes, InProgressIsAlive, Busy, AtWork, RequestInv
<1>7. ASSUME NEW r \in Requests, Lands(r)
      PROVE  InProgressIsAlive'
  BY <1>0, <1>t, <1>c, <1>7 DEF Lands, Moves, Becomes, InProgressIsAlive, Busy, AtWork, RequestInv
<1>8. ASSUME NEW r \in Requests, Concludes(r)
      PROVE  InProgressIsAlive'
  <2>1. PICK answer \in {"ok", "refused", "error", "retryable"} : Finishes(r, answer)
    BY <1>8 DEF Concludes
  <2>2. req[r].id \in Ids /\ Busy(r) /\ req[r].pc \in AtWork /\ r # None
    BY <1>0, <2>1, InHand DEF Finishes, Busy, AtWork
  <2>3. Becomes(r, "free", None, None)  BY <2>1 DEF Finishes, Ends
  <2>4. UNCHANGED <<route, landed, effects>> /\ writeErrors' \in Nat /\ writeErrors' >= writeErrors
    BY <1>8 DEF Concludes
  <2>5. CASE row' = row /\ (writeErrors' > 0 \/ row[req[r].id].state \notin {"in_progress", "uncertain"})
    BY <1>0, <1>t, <2>2, <2>3, <2>4, <2>5 DEF Becomes, InProgressIsAlive, Busy, AtWork, RequestInv
  <2>6. CASE RowTo(req[r].id, "failed") /\ route = "plain" /\ req[r].pc # "landed"
    BY <1>0, <1>t, <2>2, <2>3, <2>4, <2>6 DEF Becomes, RowTo, InProgressIsAlive, Busy, AtWork, RequestInv, PlainInv
  <2>7. CASE RowTo(req[r].id, "uncertain")
    BY <1>0, <1>t, <2>2, <2>3, <2>4, <2>7 DEF Becomes, RowTo, InProgressIsAlive, Busy, AtWork, RequestInv
  <2>8. CASE RowTo(req[r].id, "completed") /\ req[r].pc = "landed"
    BY <1>0, <1>t, <2>2, <2>3, <2>4, <2>8 DEF Becomes, RowTo, InProgressIsAlive, Busy, AtWork, RequestInv
  <2>9. CASE RowTo(req[r].id, "retryable") /\ route = "journaled"
    BY <1>0, <1>t, <2>2, <2>3, <2>4, <2>9 DEF Becomes, RowTo, InProgressIsAlive, Busy, AtWork, RequestInv
  <2> QED  BY <2>1, <2>5, <2>6, <2>7, <2>8, <2>9 DEF Finishes, Written
<1> QED  BY <1>0, <1>1, <1>2, <1>3, <1>4, <1>5, <1>6, <1>7, <1>8, Shape

-----------------------------------------------------------------------------
(* The theorems.                                                           *)

\* The invariant holds before the first request.
LEMMA InvInit ==
    ASSUME Init
    PROVE  Inv
<1> USE NoneAssumption, BoundAssumption DEF Init
<1>1. PICK id \in Ids, p \in Principals :
        \/ /\ row = [i \in Ids |-> NoRow]
           /\ landed = {} /\ effects = 0
           /\ client = [id |-> id, retained |-> "no", by |-> p, awaits |-> None, at |-> "trying"]
        \/ \E state \in {"completed", "failed", "uncertain", "retryable"}, did \in {{}, {id}} :
             /\ state = "completed" => did = {id}
             /\ state = "failed" => did = {}
             /\ state = "retryable" => route = "journaled"
             /\ row = [i \in Ids |-> IF i = id THEN [state |-> state, by |-> None] ELSE NoRow]
             /\ landed = did /\ effects = IF did = {} THEN 0 ELSE 1
             /\ client = [id |-> id, retained |-> "yes", by |-> p, awaits |-> None, at |-> "trying"]
  OBVIOUS
<1>2. NoRow \in Receipt /\ NoRow.state = "none"  BY DEF NoRow, Receipt, States
<1>3. NoRequest \in Request /\ NoRequest.pc = "free" /\ NoRequest.id = None
  BY DEF NoRequest, Request
<1>4. req \in [Requests -> Request]
      /\ \A r \in Requests : req[r].pc = "free" /\ req[r].id = None /\ ~Busy(r)
  BY <1>3 DEF Busy, AtWork
<1>5. crashes \in 0..MaxCrashes /\ writeErrors \in 0..MaxWriteErrors
  OBVIOUS
<1>6. CASE /\ row = [i \in Ids |-> NoRow]
           /\ landed = {} /\ effects = 0
           /\ client = [id |-> id, retained |-> "no", by |-> p, awaits |-> None, at |-> "trying"]
  <2>1. row \in [Ids -> Receipt] /\ \A i \in Ids : row[i] = NoRow  BY <1>2, <1>6
  <2>2. client \in Client /\ client.awaits = None /\ client.at = "trying"
    BY <1>6 DEF Client
  <2>3. TypeOK  BY <1>4, <1>5, <1>6, <2>1, <2>2 DEF TypeOK
  <2>4. RequestInv /\ ReceiptInv /\ PlainInv  BY <1>2, <1>4, <1>6, <2>1, <2>2
    DEF RequestInv, ReceiptInv, PlainInv
  <2>5. FirstAttemptInv /\ RetiredInv /\ EffectInv /\ DoneInv /\ InProgressIsAlive
    BY <1>2, <1>4, <1>6, <2>1, <2>2
    DEF FirstAttemptInv, RetiredInv, EffectInv, DoneInv, InProgressIsAlive
  <2> QED  BY <2>3, <2>4, <2>5 DEF Inv
<1>7. ASSUME NEW state \in {"completed", "failed", "uncertain", "retryable"},
             NEW did \in {{}, {id}},
             state = "completed" => did = {id},
             state = "failed" => did = {},
             state = "retryable" => route = "journaled",
             row = [i \in Ids |-> IF i = id THEN [state |-> state, by |-> None] ELSE NoRow],
             landed = did, effects = IF did = {} THEN 0 ELSE 1,
             client = [id |-> id, retained |-> "yes", by |-> p, awaits |-> None, at |-> "trying"]
      PROVE  Inv
  <2>1. [state |-> state, by |-> None] \in Receipt  BY DEF Receipt, States
  <2>2. row \in [Ids -> Receipt] /\ row[id].state = state /\ \A i \in Ids \ {id} : row[i] = NoRow
    BY <1>2, <1>7, <2>1
  <2>3. client \in Client /\ client.id = id /\ client.awaits = None /\ client.at = "trying"
        /\ client.retained = "yes"
    BY <1>7 DEF Client
  <2>4. TypeOK  BY <1>4, <1>5, <1>7, <2>2, <2>3 DEF TypeOK
  <2>5. RequestInv  BY <1>4, <2>3 DEF RequestInv
  <2>6. ReceiptInv  BY <1>2, <1>4, <1>7, <2>2 DEF ReceiptInv
  <2>7. PlainInv  BY <1>2, <1>4, <1>7, <2>2 DEF PlainInv
  <2>8. FirstAttemptInv /\ DoneInv  BY <2>3 DEF FirstAttemptInv, DoneInv
  <2>9. RetiredInv  BY <1>2, <1>4, <1>7, <2>2, <2>3 DEF RetiredInv
  <2>10. EffectInv  BY <1>7, <2>3 DEF EffectInv
  <2>11. InProgressIsAlive  BY <1>2, <1>7, <2>2 DEF InProgressIsAlive
  <2> QED  BY <2>4, <2>5, <2>6, <2>7, <2>8, <2>9, <2>10, <2>11 DEF Inv
<1> QED  BY <1>1, <1>6, <1>7

\* The invariant holds in every reachable state.
THEOREM Invariance == Spec => []Inv
<1>1. Init => Inv  BY InvInit
<1>2. Inv /\ [Next]_vars => Inv'
  <2>1. ASSUME Inv, Next
        PROVE  Inv'
    BY <2>1, TypeOKStep, RequestInvStep, ReceiptInvStep, PlainInvStep, FirstAttemptInvStep,
       RetiredInvStep, EffectInvStep, DoneInvStep, InProgressIsAliveStep DEF Inv
  <2>2. ASSUME Inv, UNCHANGED vars
        PROVE  Inv'
    BY <2>2 DEF Inv, vars, bounds, TypeOK, RequestInv, ReceiptInv, PlainInv, FirstAttemptInv,
       RetiredInv, EffectInv, DoneInv, InProgressIsAlive, Busy, AtWork
  <2> QED  BY <2>1, <2>2
<1> QED  BY <1>1, <1>2, PTL DEF Spec

\* Every reachable state of the command protocol is well typed.
THEOREM TypeCorrect == Spec => []TypeOK
<1>1. Inv => TypeOK  BY DEF Inv
<1> QED  BY <1>1, Invariance, PTL

\* What the user asked for once happens at most once, for any number of ids,
\* principals, requests in flight, crashes and failed receipt writes.
THEOREM AtMostOneEffect == Spec => []EffectAtMostOnce
<1>1. Inv => EffectAtMostOnce  BY DEF Inv, EffectInv, EffectAtMostOnce
<1> QED  BY <1>1, Invariance, PTL

\* A receipt that calls a command failed is the truth.
THEOREM FailuresAreTrue == Spec => []FailedMeansNoEffect
<1>1. Inv => FailedMeansNoEffect  BY DEF Inv, ReceiptInv, Busy, FailedMeansNoEffect
<1> QED  BY <1>1, Invariance, PTL

\* A completed receipt, and a client that was told so, stand for an effect.
THEOREM CompletionsAreTrue == Spec => []CompletedMeansEffect
<1>1. Inv => CompletedMeansEffect
  BY DEF Inv, ReceiptInv, EffectInv, DoneInv, CompletedMeansEffect
<1> QED  BY <1>1, Invariance, PTL

\* No receipt stays in progress without a request at work, unless a write failed.
THEOREM NobodyIsLockedOut == Spec => []InProgressIsAlive
<1>1. Inv => InProgressIsAlive  BY DEF Inv
<1> QED  BY <1>1, Invariance, PTL

=============================================================================

---------------------------- MODULE RemoteCommand ----------------------------
(***************************************************************************)
(* One intended mutation of a remote client, its command ids, and the      *)
(* host's crash-aware receipts                                             *)
(* (host/remote/server/remoteCommandIdempotency.ts,                        *)
(* host/db/remoteCommandReceipts.ts, renderer/actions/threadLaunchActions). *)
(*                                                                         *)
(* Requests travel, run and answer concurrently: the client may give up on *)
(* one and send the next while the host still works on the first. The      *)
(* claim is one immediate transaction; the operation awaits, so a request  *)
(* is a small process. A "journaled" route (the checkpoint revert) marks   *)
(* the dispatch first, has a journal that performs its effect once, may    *)
(* answer with a retryable result and resumes an uncertain receipt; a      *)
(* "plain" route (a thread start or send) does none of this.               *)
(***************************************************************************)
EXTENDS Naturals

CONSTANTS
    Ids,           \* command ids the client may mint
    None,          \* no id, no request, no principal
    Principals,    \* remote auth sessions the client has in turn
    Requests,      \* requests the host can have in hand
    MaxCrashes,    \* bound: crashes of the host
    MaxWriteErrors \* bound: failed writes of a receipt's outcome

ASSUME NoneAssumption == None \notin Ids \cup Principals \cup Requests
ASSUME BoundAssumption == MaxCrashes \in Nat /\ MaxWriteErrors \in Nat

VARIABLES
    route,      \* the route's kind; never changes
    row,        \* remote_command_receipts
    req,        \* the requests in the network or on the host
    client,     \* the client's intent: id, retained body, principal, awaited request
    landed,     \* ids under which the effect has happened
    effects,    \* times the intent has taken effect, counted to two
    crashes, writeErrors

vars == <<route, row, req, client, landed, effects, crashes, writeErrors>>
bounds == <<crashes, writeErrors>>

NoRow == [state |-> "none", by |-> None]
NoRequest == [pc |-> "free", id |-> None, by |-> None]
Fresh(id) == [id |-> id, retained |-> "no", by |-> client.by, awaits |-> None, at |-> "trying"]

\* Every id is unused, or the client comes with a command of a build that did
\* not bind its receipts yet (principal_id NULL).
Init ==
    /\ route \in {"plain", "journaled"}
    /\ req = [r \in Requests |-> NoRequest]
    /\ crashes = 0 /\ writeErrors = 0
    /\ \E id \in Ids, p \in Principals :
         \/ /\ row = [i \in Ids |-> NoRow]
            /\ landed = {} /\ effects = 0
            /\ client = [id |-> id, retained |-> "no", by |-> p, awaits |-> None, at |-> "trying"]
         \/ \E state \in {"completed", "failed", "uncertain", "retryable"}, did \in {{}, {id}} :
              /\ state = "completed" => did = {id}
              /\ state = "failed" => did = {}
              /\ state = "retryable" => route = "journaled"
              /\ row = [i \in Ids |-> IF i = id THEN [state |-> state, by |-> None] ELSE NoRow]
              /\ landed = did /\ effects = IF did = {} THEN 0 ELSE 1
              /\ client = [id |-> id, retained |-> "yes", by |-> p, awaits |-> None, at |-> "trying"]

-----------------------------------------------------------------------------
(* The client.                                                             *)

Unused(id) == row[id] = NoRow /\ id # client.id /\ \A r \in Requests : req[r].id # id

\* Answers that say nothing about an earlier attempt, but settle a first one.
Definite == {"refused", "in_progress", "conflict"}

\* Fault: any definite answer retires the id, whatever came before it.
HearForgetful(answer) ==
    CASE answer = "ok" -> client' = [client EXCEPT !.at = "done", !.awaits = None]
      [] answer = "failed" \/ answer \in Definite ->
           \/ \E id \in Ids : Unused(id) /\ client' = Fresh(id)
           \/ client' = [client EXCEPT !.at = "gave up", !.awaits = None]
      [] OTHER -> client' = [client EXCEPT !.retained = "yes", !.awaits = None]

\* launchThread(): success ends the intent; a receipt that says "failed", or a
\* definite answer to the very first attempt, is followed by a fresh id (or by
\* the user giving up); anything else keeps the id and the body.
Hear(answer) ==
    CASE answer = "ok" -> client' = [client EXCEPT !.at = "done", !.awaits = None]
      [] answer = "failed" \/ (answer \in Definite /\ client.retained = "no") ->
           \/ \E id \in Ids : Unused(id) /\ client' = Fresh(id)
           \/ client' = [client EXCEPT !.at = "gave up", !.awaits = None]
      [] OTHER -> client' = [client EXCEPT !.retained = "yes", !.awaits = None]

Send(r) ==
    /\ client.at = "trying" /\ client.awaits = None
    /\ req[r] = NoRequest
    /\ req' = [req EXCEPT ![r] = [pc |-> "sent", id |-> client.id, by |-> client.by]]
    /\ client' = [client EXCEPT !.awaits = r]
    /\ UNCHANGED <<route, row, landed, effects, bounds>>

\* A timeout or a broken connection: the request may still be on its way.
Timeout ==
    /\ client.awaits # None
    /\ Hear("lost")
    /\ UNCHANGED <<route, row, req, landed, effects, bounds>>

\* A request nobody waits for gets lost before the host sees it.
Vanish(r) ==
    /\ req[r].pc = "sent" /\ client.awaits # r
    /\ req' = [req EXCEPT ![r] = NoRequest]
    /\ UNCHANGED <<route, row, client, landed, effects, bounds>>

\* The client pairs again: its next requests come from another auth session.
PairAgain ==
    /\ client.awaits = None /\ client.at = "trying"
    /\ \E p \in Principals \ {client.by} : client' = [client EXCEPT !.by = p]
    /\ UNCHANGED <<route, row, req, landed, effects, bounds>>

-----------------------------------------------------------------------------
(* The host.                                                               *)

\* The request is over; its answer reaches the client if it still waits.
Answer(r, answer) ==
    /\ req' = [req EXCEPT ![r] = NoRequest]
    /\ IF client.awaits = r THEN Hear(answer) ELSE UNCHANGED client

SetState(id, state) == row' = [row EXCEPT ![id].state = state]

\* Run the operation: of a row that is claimed, or of an uncertain one that the
\* route's own journal can resume.
Run(r) ==
    /\ req' = [req EXCEPT ![r].pc = "running"]
    /\ UNCHANGED client

Arrived(r) == req[r].pc = "sent"

ClaimNew(r) ==
    /\ Arrived(r) /\ row[req[r].id].state = "none"
    /\ row' = [row EXCEPT ![req[r].id] = [state |-> "in_progress", by |-> req[r].by]]
    /\ Run(r)
    /\ UNCHANGED <<route, landed, effects, bounds>>

ClaimForeign(r) ==
    /\ Arrived(r) /\ row[req[r].id].by \notin {None, req[r].by}
    /\ Answer(r, "conflict")
    /\ UNCHANGED <<route, row, landed, effects, bounds>>

\* A second request for a receipt bound to this very principal and body.
ClaimOwn(r) ==
    LET id == req[r].id  state == row[id].state IN
    /\ Arrived(r) /\ row[id].by = req[r].by
    /\ \/ state = "retryable" /\ SetState(id, "in_progress") /\ Run(r)
       \/ state = "completed" /\ Answer(r, "ok") /\ UNCHANGED row
       \/ state \in {"failed", "in_progress"} /\ Answer(r, state) /\ UNCHANGED row
       \/ state = "uncertain" /\ UNCHANGED row
            /\ IF route = "journaled" THEN Run(r) ELSE Answer(r, "uncertain")
    /\ UNCHANGED <<route, landed, effects, bounds>>

\* A receipt of a build that bound no identity is never attributed to the
\* caller: only a route with a journal may replay or run it.
ClaimLegacy(r) ==
    LET state == row[req[r].id].state IN
    /\ Arrived(r) /\ row[req[r].id].by = None /\ state # "none"
    /\ \/ state = "completed" /\ Answer(r, IF route = "journaled" THEN "ok" ELSE "uncertain")
       \/ state = "retryable" /\ Run(r)
       \/ state = "failed" /\ Answer(r, state)
       \/ state \in {"in_progress", "uncertain"} /\ Answer(r, "uncertain")
    /\ UNCHANGED <<route, row, landed, effects, bounds>>

\* A receipt write that fails is only logged.
Record(write) ==
    \/ write /\ UNCHANGED bounds
    \/ /\ writeErrors < MaxWriteErrors /\ writeErrors' = writeErrors + 1
       /\ UNCHANGED <<row, crashes>>

\* dbMarkRemoteCommandUncertain(): only an open receipt changes.
MarkUncertain(id) ==
    IF row[id].state \in {"in_progress", "uncertain"} THEN SetState(id, "uncertain")
                                                      ELSE UNCHANGED row

\* The operation fails before it marks the dispatch. (A journaled route marks
\* first: an attempt that resumes an uncertain receipt can only FailLate.)
FailEarly(r) ==
    /\ req[r].pc = "running" /\ route = "plain"
    /\ Record(SetState(req[r].id, "failed"))
    /\ \E answer \in {"refused", "error"} : Answer(r, answer)
    /\ UNCHANGED <<route, landed, effects>>

\* markDispatched() right before the first call with an external effect.
Dispatch(r) ==
    /\ req[r].pc = "running"
    /\ req' = [req EXCEPT ![r].pc = "dispatched"]
    /\ UNCHANGED <<route, row, client, landed, effects, bounds>>

\* The effect happens; a journal performs it once per command.
Effect(r) ==
    /\ req[r].pc = "dispatched"
    /\ req' = [req EXCEPT ![r].pc = "landed"]
    /\ landed' = landed \cup {req[r].id}
    /\ effects' = IF effects = 2 \/ (route = "journaled" /\ req[r].id \in landed) THEN effects
                  ELSE effects + 1
    /\ UNCHANGED <<route, row, client, bounds>>

\* A refusal that the route vouches to come before any effect.
RefusePreEffect(r) ==
    /\ req[r].pc = "dispatched" /\ route = "plain"
    /\ Record(SetState(req[r].id, "failed"))
    /\ Answer(r, "refused")
    /\ UNCHANGED <<route, landed, effects>>

\* Fault: every failure is recorded as a definite one.
FailLateDefinite(r) ==
    /\ req[r].pc \in {"dispatched", "landed"}
    /\ Record(SetState(req[r].id, "failed"))
    /\ Answer(r, "error")
    /\ UNCHANGED <<route, landed, effects>>

\* Any other failure past the mark leaves the receipt uncertain; the effect may
\* or may not have happened, and the client is not told which.
FailLate(r) ==
    /\ req[r].pc \in {"dispatched", "landed"}
    /\ Record(MarkUncertain(req[r].id))
    /\ Answer(r, "error")
    /\ UNCHANGED <<route, landed, effects>>

Succeed(r) ==
    /\ req[r].pc = "landed"
    /\ Record(SetState(req[r].id, "completed"))
    /\ Answer(r, "ok")
    /\ UNCHANGED <<route, landed, effects>>

\* The journaled operation reports a failed phase: the receipt is released.
ResultRetryable(r) ==
    /\ req[r].pc = "dispatched" /\ route = "journaled"
    /\ Record(SetState(req[r].id, "retryable"))
    /\ Answer(r, "retryable")
    /\ UNCHANGED <<route, landed, effects>>

Lost == IF client.awaits = None THEN UNCHANGED client ELSE Hear("lost")

\* The host dies with its requests; the next startup finds receipts in progress
\* and cannot know what became of them.
Crash ==
    /\ crashes < MaxCrashes /\ crashes' = crashes + 1
    /\ req' = [r \in Requests |-> NoRequest]
    /\ row' = [id \in Ids |-> IF row[id].state = "in_progress"
                              THEN [row[id] EXCEPT !.state = "uncertain"] ELSE row[id]]
    /\ Lost
    /\ UNCHANGED <<route, landed, effects, writeErrors>>

AtWork == {"running", "dispatched", "landed"}

Claim(r) == ClaimNew(r) \/ ClaimForeign(r) \/ ClaimOwn(r) \/ ClaimLegacy(r)

Outcome(r) == FailEarly(r) \/ RefusePreEffect(r) \/ FailLate(r) \/ Succeed(r) \/ ResultRetryable(r)

Next ==
    \/ \E r \in Requests :
         Send(r) \/ Vanish(r) \/ Claim(r) \/ Dispatch(r) \/ Effect(r) \/ Outcome(r)
    \/ Timeout \/ PairAgain \/ Crash

Spec == Init /\ [][Next]_vars

-----------------------------------------------------------------------------
(* Properties.                                                             *)

States == {"none", "in_progress", "completed", "retryable", "failed", "uncertain"}

Receipt == [state : States, by : Principals \cup {None}]
Request == [pc : {"free", "sent"} \cup AtWork, id : Ids \cup {None}, by : Principals \cup {None}]
Client == [id : Ids, retained : {"no", "yes"}, by : Principals, awaits : Requests \cup {None},
           at : {"trying", "done", "gave up"}]

\* Every variable has its type.
TypeOK ==
    /\ route \in {"plain", "journaled"}
    /\ row \in [Ids -> Receipt] /\ req \in [Requests -> Request] /\ client \in Client
    /\ landed \subseteq Ids /\ effects \in 0..2
    /\ crashes \in 0..MaxCrashes /\ writeErrors \in 0..MaxWriteErrors

\* However often the client retries, the host crashes or answers get lost, what
\* the user asked for once happens at most once, under whichever id.
EffectAtMostOnce == effects <= 1

\* A receipt that calls a command failed is the truth: it had no effect and
\* nothing still runs that could give it one.
FailedMeansNoEffect ==
    \A id \in Ids : row[id].state = "failed" =>
        id \notin landed /\ \A r \in Requests : req[r].id = id => req[r].pc \notin AtWork

\* A completed receipt, and a client that was told so, stand for an effect.
CompletedMeansEffect ==
    /\ \A id \in Ids : row[id].state = "completed" => id \in landed
    /\ client.at = "done" => effects = 1

\* A receipt in progress belongs to a request at work, so that "already in
\* progress" never locks a client out for good: only a failed write of the
\* outcome leaves one behind, and only until the next startup.
InProgressIsAlive ==
    \A id \in Ids : row[id].state = "in_progress" =>
        writeErrors > 0 \/ \E r \in Requests : req[r].id = id /\ req[r].pc \in AtWork
=============================================================================

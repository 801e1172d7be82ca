-------------------------- MODULE CheckpointRevert --------------------------
(***************************************************************************)
(* The compound checkpoint revert of one thread: the provider's            *)
(* conversation is rolled back, the project files are restored and the     *)
(* transcript is truncated under one journaled operation                   *)
(* (backend/BackendHostCore.ts, host/db/checkpointRevertOperations.ts).    *)
(*                                                                         *)
(* A turn is a number; a conversation is the set of turns it remembers.    *)
(* Checkpoint c is the point after turn c: its item is part of turn c.     *)
(* Reverts and turns of a thread are serialized by runThreadMutation, so   *)
(* there is one operation at most in flight. Between an effect and the     *)
(* journal write about it the process may die (Crash).                     *)
(***************************************************************************)
EXTENDS Naturals, FiniteSets

CONSTANTS
    Keys,        \* operation keys minted by clients
    None,        \* no operation
    FirstTurns,  \* turns the thread has at the start
    MaxTurns,    \* bound: turns ever begun
    MaxCrashes,  \* bound: crashes of the backend
    AnchorKind,  \* what the provider can do: "absolute", "relative" or "none"
    UserWaits    \* TRUE: an interrupted revert is retried before anything else is done

ASSUME KeyAssumption == None \notin Keys
ASSUME TurnAssumption == FirstTurns \in Nat /\ MaxTurns \in Nat /\ FirstTurns <= MaxTurns
ASSUME CrashAssumption == MaxCrashes \in Nat
ASSUME KindAssumption == AnchorKind \in {"absolute", "relative", "none"}

VARIABLES
    transcript,  \* turns in thread_runtime_items
    memory,      \* turns the provider's conversation holds
    worktree,    \* last turn whose edits the project directory carries
    begun,       \* turns ever begun
    deleted,     \* the thread row is gone
    row,         \* checkpoint_revert_operations
    op,          \* the revert in flight: its key, its next step, the reply at hand
    rolled,      \* relative rollbacks that reached the provider, counted to two
    answer,      \* the last answer each key got
    crashes

vars == <<transcript, memory, worktree, begun, deleted, row, op, rolled, answer, crashes>>
thread == <<transcript, worktree, begun, deleted>>

Turns == 1..MaxTurns
Settled == {"completed", "completed_local_only", "ambiguous"}
Open == {"running", "failed"}

NoRow == [outcome |-> "none", ckpt |-> 0, turns |-> 0, provider |-> "pending",
          anchor |-> {}, files |-> "pending", truncate |-> "pending"]
Idle == [key |-> None, pc |-> "idle", reply |-> "none"]

\* The n newest turns of a conversation.
Newest(turns, n) == {t \in turns : Cardinality({u \in turns : u > t}) < n}

After(turns, c) == {t \in turns : t > c}

Exists(c) == c \in transcript

Init ==
    /\ transcript = 1..FirstTurns /\ memory = 1..FirstTurns
    /\ worktree = FirstTurns /\ begun = FirstTurns
    /\ deleted = FALSE
    /\ row = [k \in Keys |-> NoRow]
    /\ op = Idle
    /\ rolled = [k \in Keys |-> 0]
    /\ answer = [k \in Keys |-> "none"]
    /\ crashes = 0

-----------------------------------------------------------------------------
(* What happens outside a revert.                                          *)

Calm == \A k \in Keys : row[k].outcome \notin Open

\* A whole turn: sends wait for the thread's lock.
NewTurn ==
    /\ op = Idle /\ ~deleted /\ begun < MaxTurns
    /\ UserWaits => Calm
    /\ begun' = begun + 1 /\ worktree' = begun + 1
    /\ transcript' = transcript \cup {begun + 1}
    /\ memory' = memory \cup {begun + 1}
    /\ UNCHANGED <<deleted, row, op, rolled, answer, crashes>>

\* dbDeleteThread(): refused while a row is running; does not take the lock.
DeleteThread ==
    /\ ~deleted
    /\ \A k \in Keys : row[k].outcome # "running"
    /\ deleted' = TRUE /\ transcript' = {}
    /\ UNCHANGED <<memory, worktree, begun, row, op, rolled, answer, crashes>>

Crash ==
    /\ op # Idle /\ crashes < MaxCrashes
    /\ op' = Idle
    /\ crashes' = crashes + 1
    /\ UNCHANGED <<transcript, memory, worktree, begun, deleted, row, rolled, answer>>

-----------------------------------------------------------------------------
(* The claim.                                                              *)

Answer(k, a) == answer' = [answer EXCEPT ![k] = a]

\* dbClaimCheckpointRevertOperation(): a fresh claim freezes the turn count, a
\* settled row is replayed, any other row is resumed as it stands.
Claim(k, c) ==
    /\ row' = IF row[k].outcome = "none"
              THEN [row EXCEPT ![k] =
                       [NoRow EXCEPT !.outcome = "running", !.ckpt = c,
                                     !.turns = Cardinality(After(transcript, c))]]
              ELSE row
    /\ IF row[k].outcome \in Settled
       THEN Answer(k, row[k].outcome) /\ UNCHANGED op
       ELSE op' = [Idle EXCEPT !.key = k, !.pc = "plan"] /\ UNCHANGED answer

\* Fault: the row of a vanished checkpoint is left as it is.
NothingToRevertUnsettled(k) ==
    /\ UNCHANGED row
    /\ Answer(k, IF row[k].outcome \in Settled THEN row[k].outcome ELSE "noop")

\* The checkpoint item is gone: an open row is settled, a settled one replayed.
NothingToRevert(k) ==
    /\ row' = IF row[k].outcome \in Open
              THEN [row EXCEPT ![k].outcome = "completed", ![k].truncate = "noop"]
              ELSE row
    /\ Answer(k, IF row[k].outcome \in Settled THEN row[k].outcome ELSE "noop")

\* revertCheckpoint() with the lock held, up to its first await. A key used for
\* another checkpoint is refused before anything changes.
StartRevert(k, c) ==
    /\ op = Idle
    /\ row[k].outcome # "none" => c = row[k].ckpt
    /\ UserWaits => \A j \in Keys \ {k} : row[j].outcome \notin Open
    /\ IF Exists(c) THEN Claim(k, c) ELSE NothingToRevert(k) /\ UNCHANGED op
    /\ UNCHANGED <<transcript, memory, worktree, begun, deleted, rolled, crashes>>

-----------------------------------------------------------------------------
(* The phases. `mine` is the row of the operation in flight.               *)

mine == row[op.key]
Write(r) == row' = [row EXCEPT ![op.key] = r]
Goto(pc) == op' = [op EXCEPT !.pc = pc]
At(pc) == op.pc = pc

Failure(reply) == IF reply = "timeout" THEN "ambiguous" ELSE "failed"

ProviderDue == \/ mine.provider = "pending"
               \/ mine.provider = "failed" /\ mine.anchor # {}

SkipProvider ==
    /\ At("plan")
    /\ ~ProviderDue \/ mine.turns = 0
    /\ IF ProviderDue THEN Write([mine EXCEPT !.provider = "skipped_no_turns"])
                      ELSE UNCHANGED row
    /\ Goto("files")
    /\ UNCHANGED <<thread, memory, rolled, answer, crashes>>

\* createRevertAnchor answered; the absolute target is journaled first.
AnchorCreated ==
    /\ At("plan") /\ ProviderDue /\ mine.turns > 0 /\ mine.anchor = {}
    /\ AnchorKind # "none"
    /\ Write([mine EXCEPT !.anchor = {memory \ Newest(memory, mine.turns)}])
    /\ Goto("restore")
    /\ UNCHANGED <<thread, memory, rolled, answer, crashes>>

AnchorRefused ==
    /\ At("plan") /\ ProviderDue /\ mine.turns > 0 /\ mine.anchor = {}
    /\ \E reply \in {"error", "timeout"} :
         Write([mine EXCEPT !.provider = Failure(reply)])
    /\ Goto("files")
    /\ UNCHANGED <<thread, memory, rolled, answer, crashes>>

\* A resumed attempt that finds its anchor in the journal.
AnchorKnown ==
    /\ At("plan") /\ ProviderDue /\ mine.turns > 0 /\ mine.anchor # {}
    /\ Goto("restore")
    /\ UNCHANGED <<thread, memory, row, rolled, answer, crashes>>

\* Fault: the phase is not fenced before the relative rollback.
AnchorUnsupportedUnfenced ==
    /\ At("plan") /\ mine.provider = "pending" /\ mine.turns > 0 /\ mine.anchor = {}
    /\ AnchorKind = "none"
    /\ Goto("rollback")
    /\ UNCHANGED <<thread, memory, row, rolled, answer, crashes>>

\* No anchors: the phase is journaled as ambiguous before the relative rollback.
AnchorUnsupported ==
    /\ At("plan") /\ mine.provider = "pending" /\ mine.turns > 0 /\ mine.anchor = {}
    /\ AnchorKind = "none"
    /\ Write([mine EXCEPT !.provider = "ambiguous"])
    /\ Goto("rollback")
    /\ UNCHANGED <<thread, memory, rolled, answer, crashes>>

RollBack(n) ==
    /\ memory' = memory \ Newest(memory, n)
    /\ rolled' = [rolled EXCEPT ![op.key] = IF @ = 2 THEN 2 ELSE @ + 1]

\* The call ends in a reply; the effect of one that fails may have landed.
Reply(effect) ==
    \E reply \in {"ok", "error", "timeout"} :
       /\ op' = [op EXCEPT !.pc = "called", !.reply = reply]
       /\ effect \/ (reply # "ok" /\ UNCHANGED <<memory, rolled>>)

\* Fault: every provider restores by rolling back the stored count.
RestoreRelatively ==
    /\ At("restore")
    /\ Reply(RollBack(mine.turns))
    /\ UNCHANGED <<thread, row, answer, crashes>>

\* restoreToRevertAnchor: back to the anchored prefix, or, for a provider that
\* cannot fork, a rollback of the stored number of turns.
Restore ==
    /\ At("restore")
    /\ Reply(IF AnchorKind = "relative"
             THEN RollBack(mine.turns)
             ELSE (\E prefix \in mine.anchor : memory' = prefix) /\ UNCHANGED rolled)
    /\ UNCHANGED <<thread, row, answer, crashes>>

RollBackConversation ==
    /\ At("rollback")
    /\ Reply(RollBack(mine.turns))
    /\ UNCHANGED <<thread, row, answer, crashes>>

\* Fault: a reply that timed out is journaled as a completed rollback.
JournalProviderTrusting ==
    /\ At("called")
    /\ Write([mine EXCEPT !.provider = "completed"])
    /\ op' = [op EXCEPT !.pc = "files", !.reply = "none"]
    /\ UNCHANGED <<thread, memory, rolled, answer, crashes>>

JournalProvider ==
    /\ At("called")
    /\ Write([mine EXCEPT !.provider =
                 IF op.reply = "ok" THEN "completed" ELSE Failure(op.reply)])
    /\ op' = [op EXCEPT !.pc = "files", !.reply = "none"]
    /\ UNCHANGED <<thread, memory, rolled, answer, crashes>>

FilesDue == mine.files \in {"pending", "failed"}

\* Nothing to restore: done before, or the thread or its project is gone.
SkipFiles ==
    /\ At("files")
    /\ ~FilesDue \/ deleted
    /\ IF FilesDue THEN Write([mine EXCEPT !.files = "skipped_no_location"])
                   ELSE UNCHANGED row
    /\ Goto("truncate")
    /\ UNCHANGED <<thread, memory, rolled, answer, crashes>>

\* restoreFileCheckpoint resets the project to the checkpoint's ref.
RestoreFiles ==
    /\ At("files") /\ FilesDue /\ ~deleted
    /\ worktree' = mine.ckpt
    /\ Goto("restored")
    /\ UNCHANGED <<transcript, memory, begun, deleted, row, rolled, answer, crashes>>

JournalFiles ==
    /\ At("restored")
    /\ Write([mine EXCEPT !.files = "completed"])
    /\ Goto("truncate")
    /\ UNCHANGED <<thread, memory, rolled, answer, crashes>>

\* A failed file restore, which may have landed, ends the attempt with the
\* transcript untouched.
FilesFail ==
    /\ At("files") /\ FilesDue /\ ~deleted
    /\ Write([mine EXCEPT !.files = "failed", !.outcome = "failed"])
    /\ Answer(op.key, "failed")
    /\ op' = Idle
    /\ worktree' \in {worktree, mine.ckpt}
    /\ UNCHANGED <<transcript, memory, begun, deleted, rolled, crashes>>

SkipTruncate ==
    /\ At("truncate") /\ mine.truncate # "pending"
    /\ Goto("settle")
    /\ UNCHANGED <<thread, memory, row, rolled, answer, crashes>>

Truncate ==
    /\ At("truncate") /\ mine.truncate = "pending"
    /\ transcript' = transcript \ After(transcript, mine.ckpt)
    /\ Goto("truncated")
    /\ UNCHANGED <<memory, worktree, begun, deleted, row, rolled, answer, crashes>>

\* The model does not tell a truncation that removed nothing ("noop") apart.
JournalTruncate ==
    /\ At("truncated")
    /\ Write([mine EXCEPT !.truncate = "completed"])
    /\ Goto("settle")
    /\ UNCHANGED <<thread, memory, rolled, answer, crashes>>

Verdict ==
    CASE mine.provider = "ambiguous" -> "ambiguous"
      [] mine.provider = "failed" -> "completed_local_only"
      [] OTHER -> "completed"

Settle ==
    /\ At("settle")
    /\ Write([mine EXCEPT !.outcome = Verdict])
    /\ Answer(op.key, Verdict)
    /\ op' = Idle
    /\ UNCHANGED <<thread, memory, rolled, crashes>>

Phase ==
    \/ SkipProvider \/ AnchorCreated \/ AnchorRefused \/ AnchorKnown \/ AnchorUnsupported
    \/ Restore \/ RollBackConversation \/ JournalProvider
    \/ SkipFiles \/ RestoreFiles \/ JournalFiles \/ FilesFail
    \/ SkipTruncate \/ Truncate \/ JournalTruncate \/ Settle

Next ==
    \/ NewTurn \/ DeleteThread \/ Crash
    \/ \E k \in Keys, c \in Turns : StartRevert(k, c)
    \/ Phase

Spec == Init /\ [][Next]_vars

\* The calls of a revert end (every request has a timeout), and a client retries
\* a revert whose answer it did not get; the lock serves waiters in order.
Retry(k) == row[k].outcome = "running" /\ \E c \in Turns : StartRevert(k, c)

FairSpec == /\ Spec
            /\ WF_vars(Phase)
            /\ \A k \in Keys : SF_vars(Retry(k))

-----------------------------------------------------------------------------
(* Properties.                                                             *)

Row == [outcome : {"none"} \cup Open \cup Settled,
        ckpt : 0..MaxTurns, turns : 0..MaxTurns,
        provider : {"pending", "completed", "failed", "ambiguous", "skipped_no_turns"},
        anchor : SUBSET SUBSET Turns,
        files : {"pending", "completed", "failed", "skipped_no_location"},
        truncate : {"pending", "completed", "noop"}]
Step == {"plan", "restore", "rollback", "called", "files", "restored", "truncate",
         "truncated", "settle"}
Operation == {Idle} \cup [key : Keys, pc : Step, reply : {"none", "ok", "error", "timeout"}]

\* Every variable has its type.
TypeOK ==
    /\ transcript \subseteq Turns /\ memory \subseteq Turns
    /\ worktree \in 0..MaxTurns /\ begun \in 0..MaxTurns
    /\ deleted \in BOOLEAN
    /\ row \in [Keys -> Row]
    /\ op \in Operation
    /\ rolled \in [Keys -> 0..2]
    /\ answer \in [Keys -> {"none", "noop", "failed"} \cup Settled]
    /\ crashes \in 0..MaxCrashes

\* The provider is told to drop a number of turns at most once per operation
\* key, however often the revert crashes or is retried (runRevertCheckpoint).
RolledBackAtMostOnce == \A k \in Keys : rolled[k] <= 1

\* A turn the user still sees and the provider has forgotten is one that an
\* unfinished revert is about to take out of the transcript.
NothingForgotten ==
    ~deleted =>
      \A t \in transcript \ memory : \E k \in Keys : row[k].outcome \in Open /\ row[k].ckpt < t

\* No earlier revert ended with the provider's state lost or unknown.
NoPriorLoss(k) == \A j \in Keys \ {k} : row[j].outcome \notin {"completed_local_only", "ambiguous"}

\* When a revert is settled as completed, the phases it journaled as completed
\* hold: neither the provider, the transcript nor the files keep a later turn.
CompletedMeansReverted ==
    [][\A k \in Keys :
         /\ row[k].outcome # "completed" /\ row'[k].outcome = "completed"
         /\ NoPriorLoss(k) /\ ~deleted
         => /\ row[k].provider = "completed" => After(memory', row[k].ckpt) = {}
            /\ row[k].files = "completed" => worktree' <= row[k].ckpt
            /\ After(transcript', row[k].ckpt) = {}]_vars

\* A settled row never changes and its key is answered alike from then on.
SettledReplaysVerbatim ==
    [][\A k \in Keys :
         /\ row[k].outcome \in Settled => row'[k] = row[k]
         /\ answer[k] \in Settled => answer'[k] = answer[k]]_vars

\* The transcript is cut only by a revert whose files are already restored (or
\* have no place to be restored to), and never below its checkpoint.
FilesBeforeTranscript ==
    [][transcript' # transcript /\ ~deleted'
         /\ ~(transcript \subseteq transcript')
       => /\ mine.files \in {"completed", "skipped_no_location"}
          /\ \A t \in transcript : t <= mine.ckpt => t \in transcript']_vars

\* The answer given to a client is the outcome the journal holds.
AnswersAreJournaled ==
    \A k \in Keys : answer[k] \in Settled => row[k].outcome = answer[k]

\* An interrupted revert is settled, or reported as failed, by a retry: it does
\* not block the deletion of its thread for good.
InterruptedRevertsSettle ==
    \A k \in Keys : row[k].outcome = "running" ~> row[k].outcome # "running"
=============================================================================

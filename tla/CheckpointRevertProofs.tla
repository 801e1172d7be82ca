----------------------- MODULE CheckpointRevertProofs -----------------------
(***************************************************************************)
(* What CheckpointRevert guarantees for any number of keys, turns and      *)
(* crashes.                                                                *)
(***************************************************************************)
EXTENDS CheckpointRevert, FiniteSetTheorems, TLAPS

\* Counting the turns after a checkpoint gives a number of turns.
LEMMA TurnCount ==
    ASSUME NEW S, S \subseteq Turns
    PROVE  /\ Cardinality(S) \in Nat
           /\ Cardinality(S) <= MaxTurns
<1>1. MaxTurns \in Nat  BY TurnAssumption
<1>2. IsFiniteSet(Turns) /\ Cardinality(Turns) = MaxTurns
  BY <1>1, FS_Interval, 0 <= MaxTurns DEF Turns
<1>3. IsFiniteSet(S) /\ Cardinality(S) <= Cardinality(Turns)  BY <1>2, FS_Subset
<1> QED  BY <1>2, <1>3, FS_CardinalityType

\* An operation in flight has a key and a row.
LEMMA MineTyped ==
    ASSUME TypeOK, op.pc \in Step
    PROVE  /\ op \in [key : Keys, pc : Step, reply : {"none", "ok", "error", "timeout"}]
           /\ op.key \in Keys /\ mine \in Row /\ op # Idle
           /\ row \in [Keys -> Row]
  BY DEF TypeOK, Operation, Step, Idle, mine

\* Types survive every step.
LEMMA TypeStep ==
    ASSUME TypeOK, [Next]_vars
    PROVE  TypeOK'
<1> USE TurnAssumption, CrashAssumption
<1>0. CASE UNCHANGED vars  BY <1>0 DEF TypeOK, vars
<1>1. CASE NewTurn
  <2>1. begun' \in 0..MaxTurns /\ worktree' \in 0..MaxTurns /\ begun + 1 \in Turns
    BY <1>1 DEF TypeOK, NewTurn, Turns
  <2>2. transcript' \subseteq Turns /\ memory' \subseteq Turns
    BY <1>1, <2>1 DEF TypeOK, NewTurn
  <2> QED  BY <1>1, <2>1, <2>2 DEF TypeOK, NewTurn
<1>2. CASE DeleteThread
  BY <1>2 DEF TypeOK, DeleteThread
<1>3. CASE Crash
  <2>1. crashes' \in 0..MaxCrashes  BY <1>3 DEF TypeOK, Crash
  <2> QED  BY <1>3, <2>1 DEF TypeOK, Crash, Operation
<1>4. CASE SkipProvider
  <2>1. op.key \in Keys /\ mine \in Row /\ op # Idle
    BY <1>4, MineTyped DEF SkipProvider, At, Write, Goto, ProviderDue, Step
  <2>2. \E r \in Row : row' = [row EXCEPT ![op.key] = r] \/ row' = row
    BY <1>4, <2>1 DEF SkipProvider, At, Write, Goto, ProviderDue, thread, Row
  <2>3. row' \in [Keys -> Row]
    BY <2>1, <2>2 DEF TypeOK
  <2>4. op' \in Operation
    BY <1>4, <2>1 DEF SkipProvider, At, Write, Goto, ProviderDue, thread, TypeOK, Operation, Idle, Step
  <2> QED  BY <1>4, <2>1, <2>2, <2>3, <2>4 DEF SkipProvider, At, Write, Goto, ProviderDue, thread, TypeOK
<1>5. CASE AnchorCreated
  <2>1. op.key \in Keys /\ mine \in Row /\ op # Idle
    BY <1>5, MineTyped DEF AnchorCreated, At, Write, Goto, ProviderDue, Step
  <2>2. {memory \ Newest(memory, mine.turns)} \in SUBSET SUBSET Turns
    BY DEF TypeOK
  <2>3. \E r \in Row : row' = [row EXCEPT ![op.key] = r]
    BY <1>5, <2>1, <2>2 DEF AnchorCreated, At, Write, Goto, ProviderDue, thread, Row, Open, Settled
  <2>4. row' \in [Keys -> Row]
    BY <2>1, <2>2, <2>3 DEF TypeOK
  <2>5. op' \in Operation
    BY <1>5, <2>1 DEF AnchorCreated, At, Write, Goto, ProviderDue, thread, TypeOK, Operation, Idle, Step
  <2> QED  BY <1>5, <2>1, <2>2, <2>3, <2>4, <2>5 DEF AnchorCreated, At, Write, Goto, ProviderDue, thread, TypeOK
<1>6. CASE AnchorRefused
  <2>1. op.key \in Keys /\ mine \in Row /\ op # Idle
    BY <1>6, MineTyped DEF AnchorRefused, At, Write, Goto, ProviderDue, Failure, Step
  <2>2. \E r \in Row : row' = [row EXCEPT ![op.key] = r]
    BY <1>6, <2>1 DEF AnchorRefused, At, Write, Goto, ProviderDue, Failure, thread, Row, Open, Settled
  <2>3. row' \in [Keys -> Row]
    BY <2>1, <2>2 DEF TypeOK
  <2>4. op' \in Operation
    BY <1>6, <2>1 DEF AnchorRefused, At, Write, Goto, ProviderDue, Failure, thread, TypeOK, Operation, Idle, Step
  <2> QED  BY <1>6, <2>1, <2>2, <2>3, <2>4 DEF AnchorRefused, At, Write, Goto, ProviderDue, Failure, thread, TypeOK
<1>7. CASE AnchorKnown
  <2>1. op.key \in Keys /\ mine \in Row /\ op # Idle
    BY <1>7, MineTyped DEF AnchorKnown, At, Goto, ProviderDue, Step
  <2>2. op' \in Operation
    BY <1>7, <2>1 DEF AnchorKnown, At, Goto, ProviderDue, thread, TypeOK, Operation, Idle, Step
  <2> QED  BY <1>7, <2>1, <2>2 DEF AnchorKnown, At, Goto, ProviderDue, thread, TypeOK
<1>8. CASE AnchorUnsupported
  <2>1. op.key \in Keys /\ mine \in Row /\ op # Idle
    BY <1>8, MineTyped DEF AnchorUnsupported, At, Write, Goto, Step
  <2>2. \E r \in Row : row' = [row EXCEPT ![op.key] = r]
    BY <1>8, <2>1 DEF AnchorUnsupported, At, Write, Goto, thread, Row, Open, Settled
  <2>3. row' \in [Keys -> Row]
    BY <2>1, <2>2 DEF TypeOK
  <2>4. op' \in Operation
    BY <1>8, <2>1 DEF AnchorUnsupported, At, Write, Goto, thread, TypeOK, Operation, Idle, Step
  <2> QED  BY <1>8, <2>1, <2>2, <2>3, <2>4 DEF AnchorUnsupported, At, Write, Goto, thread, TypeOK
<1>9. CASE Restore
  <2>1. op.key \in Keys /\ mine \in Row /\ op # Idle
    BY <1>9, MineTyped DEF Restore, At, Reply, RollBack, Step
  <2>2. op' \in Operation
    BY <1>9, <2>1 DEF Restore, At, Reply, RollBack, thread, TypeOK, Operation, Idle, Step
  <2>3. rolled' \in [Keys -> 0..2]
    BY <1>9, <2>1 DEF Restore, At, Reply, RollBack, thread, TypeOK
  <2>4. memory' \subseteq Turns
    BY <1>9, <2>1 DEF Restore, At, Reply, RollBack, thread, TypeOK, Row
  <2> QED  BY <1>9, <2>1, <2>2, <2>3, <2>4 DEF Restore, At, Reply, RollBack, thread, TypeOK
<1>10. CASE RollBackConversation
  <2>1. op.key \in Keys /\ mine \in Row /\ op # Idle
    BY <1>10, MineTyped DEF RollBackConversation, At, Reply, RollBack, Step
  <2>2. op' \in Operation
    BY <1>10, <2>1 DEF RollBackConversation, At, Reply, RollBack, thread, TypeOK, Operation, Idle, Step
  <2>3. rolled' \in [Keys -> 0..2]
    BY <1>10, <2>1 DEF RollBackConversation, At, Reply, RollBack, thread, TypeOK
  <2>4. memory' \subseteq Turns
    BY <1>10, <2>1 DEF RollBackConversation, At, Reply, RollBack, thread, TypeOK, Row
  <2> QED  BY <1>10, <2>1, <2>2, <2>3, <2>4 DEF RollBackConversation, At, Reply, RollBack, thread, TypeOK
<1>11. CASE JournalProvider
  <2>1. op.key \in Keys /\ mine \in Row /\ op # Idle
    BY <1>11, MineTyped DEF JournalProvider, At, Write, Failure, Step
  <2>2. \E r \in Row : row' = [row EXCEPT ![op.key] = r]
    BY <1>11, <2>1 DEF JournalProvider, At, Write, Failure, thread, Row, Open, Settled
  <2>3. row' \in [Keys -> Row]
    BY <2>1, <2>2 DEF TypeOK
  <2>4. op' \in Operation
    BY <1>11, <2>1 DEF JournalProvider, At, Write, Failure, thread, TypeOK, Operation, Idle, Step
  <2> QED  BY <1>11, <2>1, <2>2, <2>3, <2>4 DEF JournalProvider, At, Write, Failure, thread, TypeOK
<1>12. CASE SkipFiles
  <2>1. op.key \in Keys /\ mine \in Row /\ op # Idle
    BY <1>12, MineTyped DEF SkipFiles, At, Write, Goto, Step
  <2>2. \E r \in Row : row' = [row EXCEPT ![op.key] = r] \/ row' = row
    BY <1>12, <2>1 DEF SkipFiles, At, Write, Goto, thread, Row
  <2>3. row' \in [Keys -> Row]
    BY <2>1, <2>2 DEF TypeOK
  <2>4. op' \in Operation
    BY <1>12, <2>1 DEF SkipFiles, At, Write, Goto, thread, TypeOK, Operation, Idle, Step
  <2> QED  BY <1>12, <2>1, <2>2, <2>3, <2>4 DEF SkipFiles, At, Write, Goto, thread, TypeOK
<1>13. CASE RestoreFiles
  <2>1. op.key \in Keys /\ mine \in Row /\ op # Idle
    BY <1>13, MineTyped DEF RestoreFiles, At, Goto, Step
  <2>2. op' \in Operation
    BY <1>13, <2>1 DEF RestoreFiles, At, Goto, thread, TypeOK, Operation, Idle, Step
  <2>3. worktree' \in 0..MaxTurns
    BY <1>13, <2>1 DEF RestoreFiles, At, Goto, thread, TypeOK, Row
  <2> QED  BY <1>13, <2>1, <2>2, <2>3 DEF RestoreFiles, At, Goto, thread, TypeOK
<1>14. CASE JournalFiles
  <2>1. op.key \in Keys /\ mine \in Row /\ op # Idle
    BY <1>14, MineTyped DEF JournalFiles, At, Write, Goto, Step
  <2>2. \E r \in Row : row' = [row EXCEPT ![op.key] = r]
    BY <1>14, <2>1 DEF JournalFiles, At, Write, Goto, thread, Row, Open, Settled
  <2>3. row' \in [Keys -> Row]
    BY <2>1, <2>2 DEF TypeOK
  <2>4. op' \in Operation
    BY <1>14, <2>1 DEF JournalFiles, At, Write, Goto, thread, TypeOK, Operation, Idle, Step
  <2> QED  BY <1>14, <2>1, <2>2, <2>3, <2>4 DEF JournalFiles, At, Write, Goto, thread, TypeOK
<1>15. CASE FilesFail
  <2>1. op.key \in Keys /\ mine \in Row /\ op # Idle
    BY <1>15, MineTyped DEF FilesFail, At, Write, Answer, Step
  <2>2. \E r \in Row : row' = [row EXCEPT ![op.key] = r]
    BY <1>15, <2>1 DEF FilesFail, At, Write, Answer, thread, Row, Open, Settled
  <2>3. row' \in [Keys -> Row]
    BY <2>1, <2>2 DEF TypeOK
  <2>4. op' \in Operation
    BY <1>15, <2>1 DEF FilesFail, At, Write, Answer, thread, TypeOK, Operation, Idle, Step
  <2>5. answer' \in [Keys -> {"none", "noop", "failed"} \cup Settled]
    BY <1>15, <2>1 DEF FilesFail, At, Write, Answer, thread, TypeOK, Settled
  <2>6. worktree' \in 0..MaxTurns
    BY <1>15, <2>1 DEF FilesFail, At, Write, Answer, thread, TypeOK, Row
  <2> QED  BY <1>15, <2>1, <2>2, <2>3, <2>4, <2>5, <2>6 DEF FilesFail, At, Write, Answer, thread, TypeOK
<1>16. CASE SkipTruncate
  <2>1. op.key \in Keys /\ mine \in Row /\ op # Idle
    BY <1>16, MineTyped DEF SkipTruncate, At, Goto, Step
  <2>2. op' \in Operation
    BY <1>16, <2>1 DEF SkipTruncate, At, Goto, thread, TypeOK, Operation, Idle, Step
  <2> QED  BY <1>16, <2>1, <2>2 DEF SkipTruncate, At, Goto, thread, TypeOK
<1>17. CASE Truncate
  <2>1. op.key \in Keys /\ mine \in Row /\ op # Idle
    BY <1>17, MineTyped DEF Truncate, At, Goto, Step
  <2>2. op' \in Operation
    BY <1>17, <2>1 DEF Truncate, At, Goto, thread, TypeOK, Operation, Idle, Step
  <2> QED  BY <1>17, <2>1, <2>2 DEF Truncate, At, Goto, thread, TypeOK
<1>18. CASE JournalTruncate
  <2>1. op.key \in Keys /\ mine \in Row /\ op # Idle
    BY <1>18, MineTyped DEF JournalTruncate, At, Write, Goto, Step
  <2>2. \E r \in Row : row' = [row EXCEPT ![op.key] = r]
    BY <1>18, <2>1 DEF JournalTruncate, At, Write, Goto, thread, Row, Open, Settled
  <2>3. row' \in [Keys -> Row]
    BY <2>1, <2>2 DEF TypeOK
  <2>4. op' \in Operation
    BY <1>18, <2>1 DEF JournalTruncate, At, Write, Goto, thread, TypeOK, Operation, Idle, Step
  <2> QED  BY <1>18, <2>1, <2>2, <2>3, <2>4 DEF JournalTruncate, At, Write, Goto, thread, TypeOK
<1>19. CASE Settle
  <2>1. op.key \in Keys /\ mine \in Row /\ op # Idle
    BY <1>19, MineTyped DEF Settle, At, Write, Answer, Verdict, Step
  <2>2. \E r \in Row : row' = [row EXCEPT ![op.key] = r]
    BY <1>19, <2>1 DEF Settle, At, Write, Answer, Verdict, thread, Row, Open, Settled
  <2>3. row' \in [Keys -> Row]
    BY <2>1, <2>2 DEF TypeOK
  <2>4. op' \in Operation
    BY <1>19, <2>1 DEF Settle, At, Write, Answer, Verdict, thread, TypeOK, Operation, Idle, Step
  <2>5. answer' \in [Keys -> {"none", "noop", "failed"} \cup Settled]
    BY <1>19, <2>1 DEF Settle, At, Write, Answer, Verdict, thread, TypeOK, Settled
  <2> QED  BY <1>19, <2>1, <2>2, <2>3, <2>4, <2>5 DEF Settle, At, Write, Answer, Verdict, thread, TypeOK
<1>20. ASSUME NEW k \in Keys, NEW c \in Turns, StartRevert(k, c)
       PROVE  TypeOK'
  <2>1. Cardinality(After(transcript, c)) \in 0..MaxTurns
    BY TurnCount, After(transcript, c) \subseteq Turns DEF TypeOK, After
  <2>2. [NoRow EXCEPT !.outcome = "running", !.ckpt = c,
                      !.turns = Cardinality(After(transcript, c))] \in Row
    <3>1. {} \in SUBSET SUBSET Turns /\ c \in 0..MaxTurns  BY DEF Turns
    <3> QED  BY <2>1, <3>1 DEF NoRow, Row, Open
  <2>3. [row[k] EXCEPT !.outcome = "completed", !.truncate = "noop"] \in Row
    <3>1. row[k] \in Row  BY DEF TypeOK
    <3> QED  BY <3>1 DEF Row, Settled
  <2>4. row' \in [Keys -> Row]
    BY <1>20, <2>2, <2>3 DEF TypeOK, StartRevert, Claim, NothingToRevert
  <2>5. op' \in Operation
    BY <1>20 DEF TypeOK, StartRevert, Claim, NothingToRevert, Operation, Idle, Step
  <2>6. answer' \in [Keys -> {"none", "noop", "failed"} \cup Settled]
    BY <1>20 DEF TypeOK, StartRevert, Claim, NothingToRevert, Answer
  <2> QED  BY <1>20, <2>4, <2>5, <2>6 DEF TypeOK, StartRevert
<1> QED
  BY <1>0, <1>1, <1>2, <1>3, <1>4, <1>5, <1>6, <1>7, <1>8, <1>9, <1>10, <1>11, <1>12, <1>13, <1>14, <1>15, <1>16, <1>17, <1>18, <1>19, <1>20 DEF Next, Phase

\* Types hold initially.
LEMMA TypeInit ==
    ASSUME Init
    PROVE  TypeOK
<1> USE TurnAssumption, CrashAssumption DEF Init
<1>1. transcript \subseteq Turns /\ memory \subseteq Turns  BY DEF Turns
<1>2. worktree \in 0..MaxTurns /\ begun \in 0..MaxTurns /\ crashes \in 0..MaxCrashes
  OBVIOUS
<1>3. NoRow \in Row
  <2>1. {} \in SUBSET SUBSET Turns  OBVIOUS
  <2> QED  BY <2>1 DEF NoRow, Row
<1>4. row \in [Keys -> Row]  BY <1>3
<1>5. rolled \in [Keys -> 0..2]  OBVIOUS
<1>6. answer \in [Keys -> {"none", "noop", "failed"} \cup Settled]  OBVIOUS
<1>7. op \in Operation /\ deleted \in BOOLEAN  BY DEF Operation
<1> QED  BY <1>1, <1>2, <1>4, <1>5, <1>6, <1>7 DEF TypeOK

\* Every reachable state of a revert is well typed.
THEOREM TypeCorrect == Spec => []TypeOK
<1>1. Init => TypeOK  BY TypeInit
<1>2. TypeOK /\ [Next]_vars => TypeOK'  BY TypeStep
<1> QED  BY <1>1, <1>2, PTL DEF Spec

-----------------------------------------------------------------------------
(* The journal as a fence: what a row says of what can still happen.       *)

\* A key without a row has done nothing; the row of the operation in flight is
\* not settled, and past the files phase it says that the files are done.
JournalInv ==
    /\ \A k \in Keys : row[k].outcome = "none" => row[k] = NoRow
    /\ op # Idle => row[op.key].outcome \in Open
    /\ op.pc \in {"truncate", "truncated", "settle"} =>
         row[op.key].files \in {"completed", "skipped_no_location"}

\* A relative rollback is only ever issued for a phase that was pending, and the
\* phase is no longer pending when it is issued.
FenceInv ==
    /\ op.pc = "restore" => AnchorKind # "none"
    /\ op.pc = "rollback" => rolled[op.key] = 0 /\ row[op.key].provider # "pending"
    /\ op.pc = "rollback" => AnchorKind = "none"
    /\ \A k \in Keys : AnchorKind = "none" => row[k].anchor = {}
    /\ \A k \in Keys : row[k].provider = "pending" => rolled[k] = 0
    /\ \A k \in Keys : rolled[k] \in {0, 1}

\* The journal's rows keep describing the operation in flight.
LEMMA JournalStep ==
    ASSUME TypeOK, JournalInv, [Next]_vars
    PROVE  JournalInv'
<1> USE KeyAssumption
<1>0. CASE UNCHANGED vars  BY <1>0 DEF vars, JournalInv
<1>1. CASE NewTurn  BY <1>1 DEF NewTurn, JournalInv, Idle
<1>2. CASE DeleteThread  BY <1>2 DEF DeleteThread, JournalInv, Idle
<1>3. CASE Crash  BY <1>3 DEF Crash, JournalInv, Idle
<1>4. CASE SkipProvider
  <2>1. /\ op \in [key : Keys, pc : Step, reply : {"none", "ok", "error", "timeout"}]
        /\ op.key \in Keys /\ mine \in Row /\ op # Idle
        /\ row \in [Keys -> Row]
    BY <1>4, MineTyped DEF SkipProvider, At, Write, Goto, ProviderDue, Step
  <2>2. op'.pc = "files" /\ op'.key = op.key
    BY <1>4, <2>1 DEF SkipProvider, At, Write, Goto, ProviderDue, thread
  <2>3. \A k \in Keys \ {op.key} : row'[k] = row[k]
    BY <1>4, <2>1 DEF SkipProvider, Write
  <2>4. mine.outcome \in Open /\ mine.outcome # "none"
    BY <2>1 DEF JournalInv, mine, Open
  <2>5. row'[op.key].outcome \in Open /\ row'[op.key].outcome # "none"
    BY <1>4, <2>1, <2>4 DEF SkipProvider, At, Write, Goto, ProviderDue, thread, mine, Row
  <2> QED  BY <2>1, <2>2, <2>3, <2>5 DEF JournalInv
<1>5. CASE AnchorCreated
  <2>1. /\ op \in [key : Keys, pc : Step, reply : {"none", "ok", "error", "timeout"}]
        /\ op.key \in Keys /\ mine \in Row /\ op # Idle
        /\ row \in [Keys -> Row]
    BY <1>5, MineTyped DEF AnchorCreated, At, Write, Goto, ProviderDue, Step
  <2>2. op'.pc = "restore" /\ op'.key = op.key
    BY <1>5, <2>1 DEF AnchorCreated, At, Write, Goto, ProviderDue, thread
  <2>3. \A k \in Keys \ {op.key} : row'[k] = row[k]
    BY <1>5, <2>1 DEF AnchorCreated, Write
  <2>4. mine.outcome \in Open /\ mine.outcome # "none"
    BY <2>1 DEF JournalInv, mine, Open
  <2>5. row'[op.key].outcome \in Open /\ row'[op.key].outcome # "none"
    BY <1>5, <2>1, <2>4 DEF AnchorCreated, At, Write, Goto, ProviderDue, thread, mine, Row
  <2> QED  BY <2>1, <2>2, <2>3, <2>5 DEF JournalInv
<1>6. CASE AnchorRefused
  <2>1. /\ op \in [key : Keys, pc : Step, reply : {"none", "ok", "error", "timeout"}]
        /\ op.key \in Keys /\ mine \in Row /\ op # Idle
        /\ row \in [Keys -> Row]
    BY <1>6, MineTyped DEF AnchorRefused, At, Write, Goto, ProviderDue, Failure, Step
  <2>2. op'.pc = "files" /\ op'.key = op.key
    BY <1>6, <2>1 DEF AnchorRefused, At, Write, Goto, ProviderDue, Failure, thread
  <2>3. \A k \in Keys \ {op.key} : row'[k] = row[k]
    BY <1>6, <2>1 DEF AnchorRefused, Write
  <2>4. mine.outcome \in Open /\ mine.outcome # "none"
    BY <2>1 DEF JournalInv, mine, Open
  <2>5. row'[op.key].outcome \in Open /\ row'[op.key].outcome # "none"
    BY <1>6, <2>1, <2>4 DEF AnchorRefused, At, Write, Goto, ProviderDue, Failure, thread, mine, Row
  <2> QED  BY <2>1, <2>2, <2>3, <2>5 DEF JournalInv
<1>7. CASE AnchorKnown
  <2>1. /\ op \in [key : Keys, pc : Step, reply : {"none", "ok", "error", "timeout"}]
        /\ op.key \in Keys /\ mine \in Row /\ op # Idle
        /\ row \in [Keys -> Row]
    BY <1>7, MineTyped DEF AnchorKnown, At, Goto, ProviderDue, Step
  <2>2. op'.pc = "restore" /\ op'.key = op.key
    BY <1>7, <2>1 DEF AnchorKnown, At, Goto, ProviderDue, thread
  <2> QED  BY <1>7, <2>1, <2>2 DEF AnchorKnown, At, JournalInv
<1>8. CASE AnchorUnsupported
  <2>1. /\ op \in [key : Keys, pc : Step, reply : {"none", "ok", "error", "timeout"}]
        /\ op.key \in Keys /\ mine \in Row /\ op # Idle
        /\ row \in [Keys -> Row]
    BY <1>8, MineTyped DEF AnchorUnsupported, At, Write, Goto, Step
  <2>2. op'.pc = "rollback" /\ op'.key = op.key
    BY <1>8, <2>1 DEF AnchorUnsupported, At, Write, Goto, thread
  <2>3. \A k \in Keys \ {op.key} : row'[k] = row[k]
    BY <1>8, <2>1 DEF AnchorUnsupported, Write
  <2>4. mine.outcome \in Open /\ mine.outcome # "none"
    BY <2>1 DEF JournalInv, mine, Open
  <2>5. row'[op.key].outcome \in Open /\ row'[op.key].outcome # "none"
    BY <1>8, <2>1, <2>4 DEF AnchorUnsupported, At, Write, Goto, thread, mine, Row
  <2> QED  BY <2>1, <2>2, <2>3, <2>5 DEF JournalInv
<1>9. CASE Restore
  <2>1. /\ op \in [key : Keys, pc : Step, reply : {"none", "ok", "error", "timeout"}]
        /\ op.key \in Keys /\ mine \in Row /\ op # Idle
        /\ row \in [Keys -> Row]
    BY <1>9, MineTyped DEF Restore, At, Reply, RollBack, Step
  <2>2. op'.pc = "called" /\ op'.key = op.key
    BY <1>9, <2>1 DEF Restore, At, Reply, RollBack, thread
  <2> QED  BY <1>9, <2>1, <2>2 DEF Restore, At, JournalInv
<1>10. CASE RollBackConversation
  <2>1. /\ op \in [key : Keys, pc : Step, reply : {"none", "ok", "error", "timeout"}]
        /\ op.key \in Keys /\ mine \in Row /\ op # Idle
        /\ row \in [Keys -> Row]
    BY <1>10, MineTyped DEF RollBackConversation, At, Reply, RollBack, Step
  <2>2. op'.pc = "called" /\ op'.key = op.key
    BY <1>10, <2>1 DEF RollBackConversation, At, Reply, RollBack, thread
  <2> QED  BY <1>10, <2>1, <2>2 DEF RollBackConversation, At, JournalInv
<1>11. CASE JournalProvider
  <2>1. /\ op \in [key : Keys, pc : Step, reply : {"none", "ok", "error", "timeout"}]
        /\ op.key \in Keys /\ mine \in Row /\ op # Idle
        /\ row \in [Keys -> Row]
    BY <1>11, MineTyped DEF JournalProvider, At, Write, Failure, Step
  <2>2. op'.pc = "files" /\ op'.key = op.key
    BY <1>11, <2>1 DEF JournalProvider, At, Write, Failure, thread
  <2>3. \A k \in Keys \ {op.key} : row'[k] = row[k]
    BY <1>11, <2>1 DEF JournalProvider, Write
  <2>4. mine.outcome \in Open /\ mine.outcome # "none"
    BY <2>1 DEF JournalInv, mine, Open
  <2>5. row'[op.key].outcome \in Open /\ row'[op.key].outcome # "none"
    BY <1>11, <2>1, <2>4 DEF JournalProvider, At, Write, Failure, thread, mine, Row
  <2> QED  BY <2>1, <2>2, <2>3, <2>5 DEF JournalInv
<1>12. CASE SkipFiles
  <2>1. /\ op \in [key : Keys, pc : Step, reply : {"none", "ok", "error", "timeout"}]
        /\ op.key \in Keys /\ mine \in Row /\ op # Idle
        /\ row \in [Keys -> Row]
    BY <1>12, MineTyped DEF SkipFiles, At, Write, Goto, Step
  <2>2. op'.pc = "truncate" /\ op'.key = op.key
    BY <1>12, <2>1 DEF SkipFiles, At, Write, Goto, thread
  <2>3. \A k \in Keys \ {op.key} : row'[k] = row[k]
    BY <1>12, <2>1 DEF SkipFiles, Write
  <2>4. mine.outcome \in Open /\ mine.outcome # "none"
    BY <2>1 DEF JournalInv, mine, Open
  <2>5. row'[op.key].outcome \in Open /\ row'[op.key].outcome # "none"
    BY <1>12, <2>1, <2>4 DEF SkipFiles, At, Write, Goto, thread, mine, Row
  <2>6. row'[op.key].files \in {"completed", "skipped_no_location"}
    BY <1>12, <2>1 DEF SkipFiles, At, Write, Goto, thread, mine, Row, FilesDue
  <2> QED  BY <2>1, <2>2, <2>3, <2>5, <2>6 DEF JournalInv
<1>13. CASE RestoreFiles
  <2>1. /\ op \in [key : Keys, pc : Step, reply : {"none", "ok", "error", "timeout"}]
        /\ op.key \in Keys /\ mine \in Row /\ op # Idle
        /\ row \in [Keys -> Row]
    BY <1>13, MineTyped DEF RestoreFiles, At, Goto, Step
  <2>2. op'.pc = "restored" /\ op'.key = op.key
    BY <1>13, <2>1 DEF RestoreFiles, At, Goto, thread
  <2> QED  BY <1>13, <2>1, <2>2 DEF RestoreFiles, At, JournalInv
<1>14. CASE JournalFiles
  <2>1. /\ op \in [key : Keys, pc : Step, reply : {"none", "ok", "error", "timeout"}]
        /\ op.key \in Keys /\ mine \in Row /\ op # Idle
        /\ row \in [Keys -> Row]
    BY <1>14, MineTyped DEF JournalFiles, At, Write, Goto, Step
  <2>2. op'.pc = "truncate" /\ op'.key = op.key
    BY <1>14, <2>1 DEF JournalFiles, At, Write, Goto, thread
  <2>3. \A k \in Keys \ {op.key} : row'[k] = row[k]
    BY <1>14, <2>1 DEF JournalFiles, Write
  <2>4. mine.outcome \in Open /\ mine.outcome # "none"
    BY <2>1 DEF JournalInv, mine, Open
  <2>5. row'[op.key].outcome \in Open /\ row'[op.key].outcome # "none"
    BY <1>14, <2>1, <2>4 DEF JournalFiles, At, Write, Goto, thread, mine, Row
  <2>6. row'[op.key].files \in {"completed", "skipped_no_location"}
    BY <1>14, <2>1 DEF JournalFiles, At, Write, Goto, thread, mine, Row, FilesDue
  <2> QED  BY <2>1, <2>2, <2>3, <2>5, <2>6 DEF JournalInv
<1>15. CASE FilesFail
  <2>1. /\ op \in [key : Keys, pc : Step, reply : {"none", "ok", "error", "timeout"}]
        /\ op.key \in Keys /\ mine \in Row /\ op # Idle
        /\ row \in [Keys -> Row]
    BY <1>15, MineTyped DEF FilesFail, At, Write, Answer, Step
  <2>2. op' = Idle /\ Idle.pc = "idle"
    BY <1>15 DEF FilesFail, Idle
  <2>3. \A k \in Keys \ {op.key} : row'[k] = row[k]
    BY <1>15, <2>1 DEF FilesFail, Write
  <2>5. row'[op.key].outcome # "none"
    BY <1>15, <2>1 DEF FilesFail, At, Write, Answer, thread, mine, Row
  <2> QED  BY <2>1, <2>2, <2>3, <2>5 DEF JournalInv
<1>16. CASE SkipTruncate
  <2>1. /\ op \in [key : Keys, pc : Step, reply : {"none", "ok", "error", "timeout"}]
        /\ op.key \in Keys /\ mine \in Row /\ op # Idle
        /\ row \in [Keys -> Row]
    BY <1>16, MineTyped DEF SkipTruncate, At, Goto, Step
  <2>2. op'.pc = "settle" /\ op'.key = op.key
    BY <1>16, <2>1 DEF SkipTruncate, At, Goto, thread
  <2> QED  BY <1>16, <2>1, <2>2 DEF SkipTruncate, At, JournalInv
<1>17. CASE Truncate
  <2>1. /\ op \in [key : Keys, pc : Step, reply : {"none", "ok", "error", "timeout"}]
        /\ op.key \in Keys /\ mine \in Row /\ op # Idle
        /\ row \in [Keys -> Row]
    BY <1>17, MineTyped DEF Truncate, At, Goto, Step
  <2>2. op'.pc = "truncated" /\ op'.key = op.key
    BY <1>17, <2>1 DEF Truncate, At, Goto, thread
  <2> QED  BY <1>17, <2>1, <2>2 DEF Truncate, At, JournalInv
<1>18. CASE JournalTruncate
  <2>1. /\ op \in [key : Keys, pc : Step, reply : {"none", "ok", "error", "timeout"}]
        /\ op.key \in Keys /\ mine \in Row /\ op # Idle
        /\ row \in [Keys -> Row]
    BY <1>18, MineTyped DEF JournalTruncate, At, Write, Goto, Step
  <2>2. op'.pc = "settle" /\ op'.key = op.key
    BY <1>18, <2>1 DEF JournalTruncate, At, Write, Goto, thread
  <2>3. \A k \in Keys \ {op.key} : row'[k] = row[k]
    BY <1>18, <2>1 DEF JournalTruncate, Write
  <2>4. mine.outcome \in Open /\ mine.outcome # "none"
    BY <2>1 DEF JournalInv, mine, Open
  <2>5. row'[op.key].outcome \in Open /\ row'[op.key].outcome # "none"
    BY <1>18, <2>1, <2>4 DEF JournalTruncate, At, Write, Goto, thread, mine, Row
  <2>6. row'[op.key].files \in {"completed", "skipped_no_location"}
    BY <1>18, <2>1 DEF JournalTruncate, At, Write, Goto, thread, mine, Row, JournalInv
  <2> QED  BY <2>1, <2>2, <2>3, <2>5, <2>6 DEF JournalInv
<1>19. CASE Settle
  <2>1. /\ op \in [key : Keys, pc : Step, reply : {"none", "ok", "error", "timeout"}]
        /\ op.key \in Keys /\ mine \in Row /\ op # Idle
        /\ row \in [Keys -> Row]
    BY <1>19, MineTyped DEF Settle, At, Write, Answer, Verdict, Step
  <2>2. op' = Idle /\ Idle.pc = "idle"
    BY <1>19 DEF Settle, Idle
  <2>3. \A k \in Keys \ {op.key} : row'[k] = row[k]
    BY <1>19, <2>1 DEF Settle, Write
  <2>5. row'[op.key].outcome # "none"
    BY <1>19, <2>1 DEF Settle, At, Write, Answer, Verdict, thread, mine, Row
  <2> QED  BY <2>1, <2>2, <2>3, <2>5 DEF JournalInv
<1>20. ASSUME NEW k \in Keys, NEW c \in Turns, StartRevert(k, c)
       PROVE  JournalInv'
  <2>1. op = Idle /\ row \in [Keys -> Row] /\ row[k] \in Row
    BY <1>20 DEF StartRevert, TypeOK
  <2>2. op' = Idle \/ (op'.pc = "plan" /\ op'.key = k)
    BY <1>20, <2>1 DEF StartRevert, Claim, Idle
  <2> DEFINE fresh == [NoRow EXCEPT !.outcome = "running", !.ckpt = c,
                                    !.turns = Cardinality(After(transcript, c))]
             gone == [row[k] EXCEPT !.outcome = "completed", !.truncate = "noop"]
  <2>a. fresh.outcome = "running" /\ fresh.provider = "pending" /\ fresh.anchor = {}
    BY DEF NoRow
  <2>b. gone.outcome = "completed" /\ gone.provider = row[k].provider
    BY <2>1 DEF Row
  <2>c. row'[k] \in {row[k], fresh, gone}
    BY <1>20, <2>1 DEF StartRevert, Claim, NothingToRevert
  <2>d. row[k].outcome \in {"none"} \cup Open \cup Settled
    BY <2>1 DEF Row
  <2> HIDE DEF fresh, gone
  <2>3. op' = Idle \/ row'[k].outcome \in Open
    <3>1. CASE op' # Idle
      <4>1. Claim(k, c) /\ row[k].outcome \notin Settled
        BY <1>20, <2>1, <3>1 DEF StartRevert, Claim
      <4>2. row'[k] = IF row[k].outcome = "none" THEN fresh ELSE row[k]
        BY <4>1, <2>1 DEF Claim, fresh
      <4> QED  BY <4>1, <4>2, <2>a, <2>d DEF Open
    <3> QED  BY <3>1
  <2>4. \A j \in Keys \ {k} : row'[j] = row[j]
    BY <1>20, <2>1 DEF StartRevert, Claim, NothingToRevert
  <2>5. row'[k] = row[k] \/ row'[k].outcome \in {"running", "completed"}
    BY <2>a, <2>b, <2>c
  <2> QED  BY <2>2, <2>3, <2>4, <2>5 DEF JournalInv, Idle
<1> QED
  BY <1>0, <1>1, <1>2, <1>3, <1>4, <1>5, <1>6, <1>7, <1>8, <1>9, <1>10, <1>11, <1>12, <1>13, <1>14, <1>15, <1>16, <1>17, <1>18, <1>19, <1>20 DEF Next, Phase

\* Unless restoring an anchor is relative, the fence is kept.
LEMMA FenceStep ==
    ASSUME AnchorKind # "relative", TypeOK, JournalInv, FenceInv, [Next]_vars
    PROVE  FenceInv'
<1> USE KeyAssumption
<1>0. CASE UNCHANGED vars  BY <1>0 DEF vars, FenceInv
<1>1. CASE NewTurn  BY <1>1 DEF NewTurn, FenceInv, Idle
<1>2. CASE DeleteThread  BY <1>2 DEF DeleteThread, FenceInv, Idle
<1>3. CASE Crash  BY <1>3 DEF Crash, FenceInv, Idle
<1>4. CASE SkipProvider
  <2>1. /\ op \in [key : Keys, pc : Step, reply : {"none", "ok", "error", "timeout"}]
        /\ op.key \in Keys /\ mine \in Row /\ op # Idle
        /\ row \in [Keys -> Row]
    BY <1>4, MineTyped DEF SkipProvider, At, Write, Goto, ProviderDue, Step
  <2>2. op'.pc = "files" /\ op'.key = op.key
    BY <1>4, <2>1 DEF SkipProvider, At, Write, Goto, ProviderDue, thread
  <2>3. \A k \in Keys \ {op.key} : row'[k] = row[k]
    BY <1>4, <2>1 DEF SkipProvider, Write
  <2>4. UNCHANGED rolled
    BY <1>4 DEF SkipProvider
  <2>5. /\ row'[op.key].anchor = mine.anchor
        /\ row'[op.key].provider = "pending" => mine.provider = "pending"
    BY <1>4, <2>1 DEF SkipProvider, At, Write, Goto, ProviderDue, thread, mine, Row
  <2> QED  BY <2>1, <2>2, <2>3, <2>4, <2>5 DEF FenceInv, mine
<1>5. CASE AnchorCreated
  <2>1. /\ op \in [key : Keys, pc : Step, reply : {"none", "ok", "error", "timeout"}]
        /\ op.key \in Keys /\ mine \in Row /\ op # Idle
        /\ row \in [Keys -> Row]
    BY <1>5, MineTyped DEF AnchorCreated, At, Write, Goto, ProviderDue, Step
  <2>2. op'.pc = "restore" /\ op'.key = op.key
    BY <1>5, <2>1 DEF AnchorCreated, At, Write, Goto, ProviderDue, thread
  <2>3. \A k \in Keys \ {op.key} : row'[k] = row[k]
    BY <1>5, <2>1 DEF AnchorCreated, Write
  <2>4. UNCHANGED rolled
    BY <1>5 DEF AnchorCreated
  <2>5. AnchorKind # "none" /\ row'[op.key].provider = mine.provider
    BY <1>5, <2>1 DEF AnchorCreated, At, Write, Goto, ProviderDue, thread, mine, Row
  <2> QED  BY <2>1, <2>2, <2>3, <2>4, <2>5 DEF FenceInv, mine
<1>6. CASE AnchorRefused
  <2>1. /\ op \in [key : Keys, pc : Step, reply : {"none", "ok", "error", "timeout"}]
        /\ op.key \in Keys /\ mine \in Row /\ op # Idle
        /\ row \in [Keys -> Row]
    BY <1>6, MineTyped DEF AnchorRefused, At, Write, Goto, ProviderDue, Failure, Step
  <2>2. op'.pc = "files" /\ op'.key = op.key
    BY <1>6, <2>1 DEF AnchorRefused, At, Write, Goto, ProviderDue, Failure, thread
  <2>3. \A k \in Keys \ {op.key} : row'[k] = row[k]
    BY <1>6, <2>1 DEF AnchorRefused, Write
  <2>4. UNCHANGED rolled
    BY <1>6 DEF AnchorRefused
  <2>5. /\ row'[op.key].anchor = mine.anchor
        /\ row'[op.key].provider = "pending" => mine.provider = "pending"
    BY <1>6, <2>1 DEF AnchorRefused, At, Write, Goto, ProviderDue, Failure, thread, mine, Row
  <2> QED  BY <2>1, <2>2, <2>3, <2>4, <2>5 DEF FenceInv, mine
<1>7. CASE AnchorKnown
  <2>1. /\ op \in [key : Keys, pc : Step, reply : {"none", "ok", "error", "timeout"}]
        /\ op.key \in Keys /\ mine \in Row /\ op # Idle
        /\ row \in [Keys -> Row]
    BY <1>7, MineTyped DEF AnchorKnown, At, Goto, ProviderDue, Step
  <2>2. op'.pc = "restore" /\ op'.key = op.key
    BY <1>7, <2>1 DEF AnchorKnown, At, Goto, ProviderDue, thread
  <2> QED  BY <1>7, <2>1, <2>2 DEF AnchorKnown, FenceInv, mine
<1>8. CASE AnchorUnsupported
  <2>1. /\ op \in [key : Keys, pc : Step, reply : {"none", "ok", "error", "timeout"}]
        /\ op.key \in Keys /\ mine \in Row /\ op # Idle
        /\ row \in [Keys -> Row]
    BY <1>8, MineTyped DEF AnchorUnsupported, At, Write, Goto, Step
  <2>2. op'.pc = "rollback" /\ op'.key = op.key
    BY <1>8, <2>1 DEF AnchorUnsupported, At, Write, Goto, thread
  <2>3. \A k \in Keys \ {op.key} : row'[k] = row[k]
    BY <1>8, <2>1 DEF AnchorUnsupported, Write
  <2>4. UNCHANGED rolled
    BY <1>8 DEF AnchorUnsupported
  <2>5. /\ row'[op.key].anchor = mine.anchor
        /\ row'[op.key].provider = "ambiguous"
        /\ AnchorKind = "none" /\ mine.provider = "pending"
    BY <1>8, <2>1 DEF AnchorUnsupported, At, Write, Goto, thread, mine, Row
  <2> QED  BY <2>1, <2>2, <2>3, <2>4, <2>5 DEF FenceInv, mine
<1>9. CASE Restore
  <2>1. /\ op \in [key : Keys, pc : Step, reply : {"none", "ok", "error", "timeout"}]
        /\ op.key \in Keys /\ mine \in Row /\ op # Idle
        /\ row \in [Keys -> Row]
    BY <1>9, MineTyped DEF Restore, At, Reply, RollBack, Step
  <2>2. op'.pc = "called" /\ op'.key = op.key
    BY <1>9, <2>1 DEF Restore, At, Reply, RollBack, thread
  <2>3. AnchorKind = "absolute"
    BY <1>9, KindAssumption DEF Restore, At, FenceInv
  <2>4. UNCHANGED <<row, rolled>>
    BY <1>9, <2>3 DEF Restore, At, Reply, RollBack, thread
  <2> QED  BY <2>1, <2>2, <2>4 DEF FenceInv
<1>10. CASE RollBackConversation
  <2>1. /\ op \in [key : Keys, pc : Step, reply : {"none", "ok", "error", "timeout"}]
        /\ op.key \in Keys /\ mine \in Row /\ op # Idle
        /\ row \in [Keys -> Row]
    BY <1>10, MineTyped DEF RollBackConversation, At, Reply, RollBack, Step
  <2>2. op'.pc = "called" /\ op'.key = op.key
    BY <1>10, <2>1 DEF RollBackConversation, At, Reply, RollBack, thread
  <2>3. rolled[op.key] = 0 /\ row[op.key].provider # "pending"
    BY <1>10 DEF RollBackConversation, At, FenceInv
  <2>4. rolled' = rolled \/ rolled' = [rolled EXCEPT ![op.key] = 1]
    BY <1>10, <2>1, <2>3 DEF RollBackConversation, At, Reply, RollBack, thread, TypeOK
  <2>5. UNCHANGED row
    BY <1>10 DEF RollBackConversation
  <2>6. \A k \in Keys : rolled'[k] = rolled[k] \/ (k = op.key /\ rolled'[k] = 1)
    BY <2>1, <2>4 DEF TypeOK
  <2> QED  BY <2>1, <2>2, <2>3, <2>5, <2>6 DEF FenceInv
<1>11. CASE JournalProvider
  <2>1. /\ op \in [key : Keys, pc : Step, reply : {"none", "ok", "error", "timeout"}]
        /\ op.key \in Keys /\ mine \in Row /\ op # Idle
        /\ row \in [Keys -> Row]
    BY <1>11, MineTyped DEF JournalProvider, At, Write, Failure, Step
  <2>2. op'.pc = "files" /\ op'.key = op.key
    BY <1>11, <2>1 DEF JournalProvider, At, Write, Failure, thread
  <2>3. \A k \in Keys \ {op.key} : row'[k] = row[k]
    BY <1>11, <2>1 DEF JournalProvider, Write
  <2>4. UNCHANGED rolled
    BY <1>11 DEF JournalProvider
  <2>5. /\ row'[op.key].anchor = mine.anchor
        /\ row'[op.key].provider = "pending" => mine.provider = "pending"
    BY <1>11, <2>1 DEF JournalProvider, At, Write, Failure, thread, mine, Row
  <2> QED  BY <2>1, <2>2, <2>3, <2>4, <2>5 DEF FenceInv, mine
<1>12. CASE SkipFiles
  <2>1. /\ op \in [key : Keys, pc : Step, reply : {"none", "ok", "error", "timeout"}]
        /\ op.key \in Keys /\ mine \in Row /\ op # Idle
        /\ row \in [Keys -> Row]
    BY <1>12, MineTyped DEF SkipFiles, At, Write, Goto, Step
  <2>2. op'.pc = "truncate" /\ op'.key = op.key
    BY <1>12, <2>1 DEF SkipFiles, At, Write, Goto, thread
  <2>3. \A k \in Keys \ {op.key} : row'[k] = row[k]
    BY <1>12, <2>1 DEF SkipFiles, Write
  <2>4. UNCHANGED rolled
    BY <1>12 DEF SkipFiles
  <2>5. /\ row'[op.key].anchor = mine.anchor
        /\ row'[op.key].provider = "pending" => mine.provider = "pending"
    BY <1>12, <2>1 DEF SkipFiles, At, Write, Goto, thread, mine, Row
  <2> QED  BY <2>1, <2>2, <2>3, <2>4, <2>5 DEF FenceInv, mine
<1>13. CASE RestoreFiles
  <2>1. /\ op \in [key : Keys, pc : Step, reply : {"none", "ok", "error", "timeout"}]
        /\ op.key \in Keys /\ mine \in Row /\ op # Idle
        /\ row \in [Keys -> Row]
    BY <1>13, MineTyped DEF RestoreFiles, At, Goto, Step
  <2>2. op'.pc = "restored" /\ op'.key = op.key
    BY <1>13, <2>1 DEF RestoreFiles, At, Goto, thread
  <2> QED  BY <1>13, <2>1, <2>2 DEF RestoreFiles, At, FenceInv
<1>14. CASE JournalFiles
  <2>1. /\ op \in [key : Keys, pc : Step, reply : {"none", "ok", "error", "timeout"}]
        /\ op.key \in Keys /\ mine \in Row /\ op # Idle
        /\ row \in [Keys -> Row]
    BY <1>14, MineTyped DEF JournalFiles, At, Write, Goto, Step
  <2>2. op'.pc = "truncate" /\ op'.key = op.key
    BY <1>14, <2>1 DEF JournalFiles, At, Write, Goto, thread
  <2>3. \A k \in Keys \ {op.key} : row'[k] = row[k]
    BY <1>14, <2>1 DEF JournalFiles, Write
  <2>4. UNCHANGED rolled
    BY <1>14 DEF JournalFiles
  <2>5. /\ row'[op.key].anchor = mine.anchor
        /\ row'[op.key].provider = "pending" => mine.provider = "pending"
    BY <1>14, <2>1 DEF JournalFiles, At, Write, Goto, thread, mine, Row
  <2> QED  BY <2>1, <2>2, <2>3, <2>4, <2>5 DEF FenceInv, mine
<1>15. CASE FilesFail
  <2>1. /\ op \in [key : Keys, pc : Step, reply : {"none", "ok", "error", "timeout"}]
        /\ op.key \in Keys /\ mine \in Row /\ op # Idle
        /\ row \in [Keys -> Row]
    BY <1>15, MineTyped DEF FilesFail, At, Write, Answer, Step
  <2>2. op' = Idle /\ Idle.pc = "idle"
    BY <1>15 DEF FilesFail, Idle
  <2>3. \A k \in Keys \ {op.key} : row'[k] = row[k]
    BY <1>15, <2>1 DEF FilesFail, Write
  <2>4. UNCHANGED rolled
    BY <1>15 DEF FilesFail
  <2>5. /\ row'[op.key].anchor = mine.anchor
        /\ row'[op.key].provider = "pending" => mine.provider = "pending"
    BY <1>15, <2>1 DEF FilesFail, At, Write, Answer, thread, mine, Row
  <2> QED  BY <2>1, <2>2, <2>3, <2>4, <2>5 DEF FenceInv, mine
<1>16. CASE SkipTruncate
  <2>1. /\ op \in [key : Keys, pc : Step, reply : {"none", "ok", "error", "timeout"}]
        /\ op.key \in Keys /\ mine \in Row /\ op # Idle
        /\ row \in [Keys -> Row]
    BY <1>16, MineTyped DEF SkipTruncate, At, Goto, Step
  <2>2. op'.pc = "settle" /\ op'.key = op.key
    BY <1>16, <2>1 DEF SkipTruncate, At, Goto, thread
  <2> QED  BY <1>16, <2>1, <2>2 DEF SkipTruncate, At, FenceInv
<1>17. CASE Truncate
  <2>1. /\ op \in [key : Keys, pc : Step, reply : {"none", "ok", "error", "timeout"}]
        /\ op.key \in Keys /\ mine \in Row /\ op # Idle
        /\ row \in [Keys -> Row]
    BY <1>17, MineTyped DEF Truncate, At, Goto, Step
  <2>2. op'.pc = "truncated" /\ op'.key = op.key
    BY <1>17, <2>1 DEF Truncate, At, Goto, thread
  <2> QED  BY <1>17, <2>1, <2>2 DEF Truncate, At, FenceInv
<1>18. CASE JournalTruncate
  <2>1. /\ op \in [key : Keys, pc : Step, reply : {"none", "ok", "error", "timeout"}]
        /\ op.key \in Keys /\ mine \in Row /\ op # Idle
        /\ row \in [Keys -> Row]
    BY <1>18, MineTyped DEF JournalTruncate, At, Write, Goto, Step
  <2>2. op'.pc = "settle" /\ op'.key = op.key
    BY <1>18, <2>1 DEF JournalTruncate, At, Write, Goto, thread
  <2>3. \A k \in Keys \ {op.key} : row'[k] = row[k]
    BY <1>18, <2>1 DEF JournalTruncate, Write
  <2>4. UNCHANGED rolled
    BY <1>18 DEF JournalTruncate
  <2>5. /\ row'[op.key].anchor = mine.anchor
        /\ row'[op.key].provider = "pending" => mine.provider = "pending"
    BY <1>18, <2>1 DEF JournalTruncate, At, Write, Goto, thread, mine, Row
  <2> QED  BY <2>1, <2>2, <2>3, <2>4, <2>5 DEF FenceInv, mine
<1>19. CASE Settle
  <2>1. /\ op \in [key : Keys, pc : Step, reply : {"none", "ok", "error", "timeout"}]
        /\ op.key \in Keys /\ mine \in Row /\ op # Idle
        /\ row \in [Keys -> Row]
    BY <1>19, MineTyped DEF Settle, At, Write, Answer, Verdict, Step
  <2>2. op' = Idle /\ Idle.pc = "idle"
    BY <1>19 DEF Settle, Idle
  <2>3. \A k \in Keys \ {op.key} : row'[k] = row[k]
    BY <1>19, <2>1 DEF Settle, Write
  <2>4. UNCHANGED rolled
    BY <1>19 DEF Settle
  <2>5. /\ row'[op.key].anchor = mine.anchor
        /\ row'[op.key].provider = "pending" => mine.provider = "pending"
    BY <1>19, <2>1 DEF Settle, At, Write, Answer, Verdict, thread, mine, Row
  <2> QED  BY <2>1, <2>2, <2>3, <2>4, <2>5 DEF FenceInv, mine
<1>20. ASSUME NEW k \in Keys, NEW c \in Turns, StartRevert(k, c)
       PROVE  FenceInv'
  <2>1. op = Idle /\ row \in [Keys -> Row] /\ row[k] \in Row
    BY <1>20 DEF StartRevert, TypeOK
  <2>2. op' = Idle \/ op'.pc = "plan"
    BY <1>20, <2>1 DEF StartRevert, Claim, Idle
  <2>3. UNCHANGED rolled
    BY <1>20 DEF StartRevert
  <2>4. \A j \in Keys \ {k} : row'[j] = row[j]
    BY <1>20, <2>1 DEF StartRevert, Claim, NothingToRevert
  <2>5. row[k].outcome = "none" => row[k] = NoRow
    BY DEF JournalInv
  <2>6. row'[k].anchor = row[k].anchor /\ row'[k].provider = row[k].provider
    <3>1. CASE row[k].outcome = "none"
      <4>1. row[k] = NoRow  BY <3>1, <2>5
      <4> DEFINE fresh == [NoRow EXCEPT !.outcome = "running", !.ckpt = c,
                                        !.turns = Cardinality(After(transcript, c))]
      <4>2. row' = row \/ row' = [row EXCEPT ![k] = fresh]
        BY <1>20, <3>1 DEF StartRevert, Claim, NothingToRevert, Open
      <4>3. fresh.anchor = NoRow.anchor /\ fresh.provider = NoRow.provider
        BY DEF NoRow
      <4> HIDE DEF fresh
      <4> QED  BY <4>1, <4>2, <4>3, <2>1
    <3>2. CASE row[k].outcome # "none"
      BY <1>20, <2>1, <3>2 DEF StartRevert, Claim, NothingToRevert, Row
    <3> QED  BY <3>1, <3>2
  <2> QED  BY <2>2, <2>3, <2>4, <2>6 DEF FenceInv, Idle
<1> QED
  BY <1>0, <1>1, <1>2, <1>3, <1>4, <1>5, <1>6, <1>7, <1>8, <1>9, <1>10, <1>11, <1>12, <1>13, <1>14, <1>15, <1>16, <1>17, <1>18, <1>19, <1>20 DEF Next, Phase

\* The journal invariant holds in every reachable state.
LEMMA JournalCorrect == Spec => []JournalInv
<1>1. Init => JournalInv  BY DEF Init, JournalInv, NoRow, Idle
<1>2. TypeOK /\ JournalInv /\ [Next]_vars => JournalInv'  BY JournalStep
<1> QED  BY <1>1, <1>2, TypeCorrect, PTL DEF Spec

\* Unless the provider answers anchors it can only honour by a relative rollback,
\* no crash, retry or order of events rolls it back twice under one key.
THEOREM AtMostOneRollback ==
    ASSUME AnchorKind # "relative"
    PROVE  Spec => []RolledBackAtMostOnce
<1>1. Init => FenceInv  BY DEF Init, FenceInv, NoRow, Idle
<1>2. TypeOK /\ JournalInv /\ FenceInv /\ [Next]_vars => FenceInv'  BY FenceStep
<1>3. FenceInv => RolledBackAtMostOnce
  BY \A n \in {0, 1} : n <= 1 DEF FenceInv, RolledBackAtMostOnce
<1> QED  BY <1>1, <1>2, <1>3, TypeCorrect, JournalCorrect, PTL DEF Spec

-----------------------------------------------------------------------------
(* What a settled row and a truncation mean.                               *)

\* A step of the operation in flight changes no row but its own, and that row is
\* open; it changes no answer but its own key's.
LEMMA PhaseFrame ==
    ASSUME TypeOK, JournalInv, Phase
    PROVE  /\ op.key \in Keys /\ row[op.key].outcome \in Open
           /\ \A k \in Keys \ {op.key} : row'[k] = row[k] /\ answer'[k] = answer[k]
<1>1. op.pc \in Step
  BY DEF Phase, SkipProvider, AnchorCreated, AnchorRefused, AnchorKnown, AnchorUnsupported,
         Restore, RollBackConversation, JournalProvider, SkipFiles, RestoreFiles,
         JournalFiles, FilesFail, SkipTruncate, Truncate, JournalTruncate, Settle, At, Step
<1>2. /\ op.key \in Keys /\ op # Idle
      /\ row \in [Keys -> Row] /\ answer \in [Keys -> {"none", "noop", "failed"} \cup Settled]
  BY <1>1, MineTyped DEF TypeOK
<1>3. row' = row \/ \E r : row' = [row EXCEPT ![op.key] = r]
  BY DEF Phase, SkipProvider, AnchorCreated, AnchorRefused, AnchorKnown, AnchorUnsupported,
         Restore, RollBackConversation, JournalProvider, SkipFiles, RestoreFiles,
         JournalFiles, FilesFail, SkipTruncate, Truncate, JournalTruncate, Settle, Write
<1>4. answer' = answer \/ \E a : answer' = [answer EXCEPT ![op.key] = a]
  BY DEF Phase, SkipProvider, AnchorCreated, AnchorRefused, AnchorKnown, AnchorUnsupported,
         Restore, RollBackConversation, JournalProvider, SkipFiles, RestoreFiles,
         JournalFiles, FilesFail, SkipTruncate, Truncate, JournalTruncate, Settle, Answer
<1> QED  BY <1>2, <1>3, <1>4 DEF JournalInv

\* What a client was told about a settled revert is what the journal holds.
LEMMA AnswersStep ==
    ASSUME TypeOK, JournalInv, AnswersAreJournaled, [Next]_vars
    PROVE  AnswersAreJournaled'
<1>0. CASE UNCHANGED vars  BY <1>0 DEF vars, AnswersAreJournaled
<1>1. CASE NewTurn \/ DeleteThread \/ Crash
  BY <1>1 DEF NewTurn, DeleteThread, Crash, AnswersAreJournaled
<1>2. CASE Phase
  <2>1. /\ op.key \in Keys /\ row[op.key].outcome \in Open
        /\ \A k \in Keys \ {op.key} : row'[k] = row[k] /\ answer'[k] = answer[k]
    BY <1>2, PhaseFrame
  <2>2. row \in [Keys -> Row] /\ mine \in Row /\ answer \in [Keys -> {"none", "noop", "failed"} \cup Settled]
    BY <2>1 DEF TypeOK, mine
  <2>3. answer[op.key] \notin Settled
    BY <2>1 DEF AnswersAreJournaled, Settled, Open
  <2>4. answer'[op.key] \in Settled => row'[op.key].outcome = answer'[op.key]
    <3>1. CASE Settle
      <4>1. row'[op.key].outcome = Verdict  BY <3>1, <2>1, <2>2 DEF Settle, Write, Row
      <4>2. answer'[op.key] = Verdict  BY <3>1, <2>1, <2>2 DEF Settle, Answer
      <4> QED  BY <4>1, <4>2
    <3>2. CASE FilesFail
      <4>1. answer'[op.key] = "failed"  BY <3>2, <2>1, <2>2 DEF FilesFail, Answer
      <4> QED  BY <4>1 DEF Settled
    <3>3. CASE ~Settle /\ ~FilesFail
      <4>1. UNCHANGED answer
        BY <1>2, <3>3 DEF Phase, SkipProvider, AnchorCreated, AnchorRefused, AnchorKnown,
           AnchorUnsupported, Restore, RollBackConversation, JournalProvider, SkipFiles,
           RestoreFiles, JournalFiles, SkipTruncate, Truncate, JournalTruncate
      <4> QED  BY <4>1, <2>3
    <3> QED  BY <3>1, <3>2, <3>3
  <2> QED  BY <2>1, <2>4 DEF AnswersAreJournaled
<1>3. ASSUME NEW k \in Keys, NEW c \in Turns, StartRevert(k, c)
      PROVE  AnswersAreJournaled'
  <2>1. answer \in [Keys -> {"none", "noop", "failed"} \cup Settled] /\ row \in [Keys -> Row]
    BY DEF TypeOK
  <2>2. \A j \in Keys \ {k} : row'[j] = row[j] /\ answer'[j] = answer[j]
    BY <1>3, <2>1 DEF StartRevert, Claim, NothingToRevert, Answer
  <2>3. row[k].outcome \in Settled =>
           row'[k] = row[k] /\ answer'[k] = row[k].outcome
    BY <1>3, <2>1 DEF StartRevert, Claim, NothingToRevert, Answer, Settled, Open
  <2>4. row[k].outcome \notin Settled =>
           answer[k] \notin Settled /\ (answer'[k] = answer[k] \/ answer'[k] = "noop")
    BY <1>3, <2>1 DEF StartRevert, Claim, NothingToRevert, Answer, AnswersAreJournaled
  <2>5. "noop" \notin Settled  BY DEF Settled
  <2> QED  BY <2>2, <2>3, <2>4, <2>5 DEF AnswersAreJournaled
<1> QED  BY <1>0, <1>1, <1>2, <1>3 DEF Next

\* An answer that calls a revert settled is the outcome the journal holds, through
\* crashes, retries and deletions (runRevertCheckpoint).
THEOREM AnswersCorrect == Spec => []AnswersAreJournaled
<1>1. Init => AnswersAreJournaled  BY DEF Init, AnswersAreJournaled, Settled
<1>2. TypeOK /\ JournalInv /\ AnswersAreJournaled /\ [Next]_vars => AnswersAreJournaled'
  BY AnswersStep
<1> QED  BY <1>1, <1>2, TypeCorrect, JournalCorrect, PTL DEF Spec

\* A settled row is final: no retry, crash or later event changes it, and every
\* later answer under its key is the one already given.
THEOREM SettledIsFinal == Spec => SettledReplaysVerbatim
<1> DEFINE Verbatim == \A k \in Keys :
                         /\ row[k].outcome \in Settled => row'[k] = row[k]
                         /\ answer[k] \in Settled => answer'[k] = answer[k]
<1>1. TypeOK /\ JournalInv /\ AnswersAreJournaled /\ [Next]_vars => [Verbatim]_vars
  <2> SUFFICES ASSUME TypeOK, JournalInv, AnswersAreJournaled, Next
               PROVE  Verbatim
    OBVIOUS
  <2>1. CASE NewTurn \/ DeleteThread \/ Crash
    BY <2>1 DEF NewTurn, DeleteThread, Crash
  <2>2. CASE Phase
    <3>1. /\ op.key \in Keys /\ row[op.key].outcome \in Open
          /\ \A k \in Keys \ {op.key} : row'[k] = row[k] /\ answer'[k] = answer[k]
      BY <2>2, PhaseFrame
    <3>2. row[op.key].outcome \notin Settled /\ answer[op.key] \notin Settled
      BY <3>1 DEF AnswersAreJournaled, Settled, Open
    <3> QED  BY <3>1, <3>2
  <2>3. ASSUME NEW k \in Keys, NEW c \in Turns, StartRevert(k, c)
        PROVE  Verbatim
    <3>1. answer \in [Keys -> {"none", "noop", "failed"} \cup Settled] /\ row \in [Keys -> Row]
      BY DEF TypeOK
    <3>2. \A j \in Keys \ {k} : row'[j] = row[j] /\ answer'[j] = answer[j]
      BY <2>3, <3>1 DEF StartRevert, Claim, NothingToRevert, Answer
    <3>3. row[k].outcome \in Settled => row'[k] = row[k] /\ answer'[k] = row[k].outcome
      BY <2>3, <3>1 DEF StartRevert, Claim, NothingToRevert, Answer, Settled, Open
    <3>4. answer[k] \in Settled => row[k].outcome = answer[k]
      BY DEF AnswersAreJournaled
    <3> QED  BY <3>2, <3>3, <3>4
  <2> QED  BY <2>1, <2>2, <2>3 DEF Next
<1> QED  BY <1>1, TypeCorrect, JournalCorrect, AnswersCorrect, PTL DEF Spec, SettledReplaysVerbatim, Verbatim

\* The transcript is cut only by a revert past its files phase, down to its
\* checkpoint and no further.
THEOREM CutOnlyAfterFiles == Spec => FilesBeforeTranscript
<1> DEFINE Cut == transcript' # transcript /\ ~deleted' /\ ~(transcript \subseteq transcript')
                    => /\ mine.files \in {"completed", "skipped_no_location"}
                       /\ \A t \in transcript : t <= mine.ckpt => t \in transcript'
<1>1. TypeOK /\ JournalInv /\ [Next]_vars => [Cut]_vars
  <2> SUFFICES ASSUME TypeOK, JournalInv, Next, transcript' # transcript, ~deleted',
                      ~(transcript \subseteq transcript')
               PROVE  /\ mine.files \in {"completed", "skipped_no_location"}
                      /\ \A t \in transcript : t <= mine.ckpt => t \in transcript'
    OBVIOUS
  <2>1. Truncate
    <3>1. ~NewTurn /\ ~DeleteThread /\ ~Crash
      BY DEF NewTurn, DeleteThread, Crash
    <3>2. \A k \in Keys, c \in Turns : ~StartRevert(k, c)
      BY DEF StartRevert
    <3> QED
      BY <3>1, <3>2 DEF Next, Phase, SkipProvider, AnchorCreated, AnchorRefused, AnchorKnown,
         AnchorUnsupported, Restore, RollBackConversation, JournalProvider, SkipFiles,
         RestoreFiles, JournalFiles, FilesFail, SkipTruncate, JournalTruncate, Settle, thread
  <2>2. mine \in Row  BY <2>1, MineTyped DEF Truncate, At, Step
  <2>3. mine.files \in {"completed", "skipped_no_location"}
    BY <2>1 DEF Truncate, At, JournalInv, mine
  <2>4. ASSUME NEW t \in transcript, t <= mine.ckpt
        PROVE  t \in transcript'
    <3>1. t \in Nat /\ mine.ckpt \in Nat
      BY <2>2, TurnAssumption DEF TypeOK, Turns, Row
    <3>2. ~(t > mine.ckpt)  BY <3>1, <2>4
    <3> QED  BY <3>2, <2>1 DEF Truncate, After
  <2> QED  BY <2>3, <2>4
<1> QED  BY <1>1, TypeCorrect, JournalCorrect, PTL DEF Spec, FilesBeforeTranscript, Cut

-----------------------------------------------------------------------------
(* Absolute anchors and a user who waits: what an open row says of the     *)
(* transcript and of what the provider remembers.                          *)

OpenRow(k) == row[k].outcome \in Open

\* Up to its checkpoint an open revert loses nothing, whether the provider is
\* restored to the anchor or drops the counted turns; after its cut nothing
\* later is left. A checkpoint vanishes only with its thread.
Kept(k) ==
    /\ deleted \/ row[k].ckpt \in transcript
    /\ \A t \in transcript : t <= row[k].ckpt => t \in memory
    /\ \A prefix \in row[k].anchor : \A t \in transcript : t <= row[k].ckpt => t \in prefix
    /\ row[k].anchor = {} => row[k].turns <= Cardinality(After(memory, row[k].ckpt))
    /\ row[k].truncate # "pending" => After(transcript, row[k].ckpt) = {}

KeptInv ==
    /\ deleted => transcript = {}
    /\ \A j, k \in Keys : OpenRow(j) /\ OpenRow(k) => j = k
    /\ Calm => transcript \subseteq memory
    /\ \A k \in Keys : OpenRow(k) => Kept(k)
    /\ op.pc # "rollback"
    /\ op.pc \in {"truncated", "settle"} => After(transcript, row[op.key].ckpt) = {}

\* The n newest turns are all later than a checkpoint that n turns follow.
LEMMA NewestAreLater ==
    ASSUME NEW S, S \subseteq Turns, NEW c \in 0..MaxTurns, NEW n \in Nat,
           n <= Cardinality(After(S, c)), NEW t \in Newest(S, n)
    PROVE  t > c
<1>1. t \in S /\ t \in Nat /\ c \in Nat
  BY TurnAssumption DEF Newest, Turns
<1>2. Cardinality({u \in S : u > t}) < n  BY DEF Newest
<1> SUFFICES ASSUME t <= c
             PROVE  FALSE
  BY <1>1
<1>3. ASSUME NEW u \in After(S, c)
      PROVE  u \in {v \in S : v > t}
  <2>1. u \in S /\ u > c /\ u \in Nat  BY TurnAssumption DEF After, Turns
  <2> QED  BY <1>1, <2>1
<1>4. IsFiniteSet({u \in S : u > t})
  <2>1. IsFiniteSet(Turns)  BY TurnAssumption, FS_Interval DEF Turns
  <2> QED  BY <2>1, FS_Subset, {u \in S : u > t} \subseteq Turns
<1>5. Cardinality(After(S, c)) <= Cardinality({u \in S : u > t})
  BY <1>3, <1>4, FS_Subset
<1>6. Cardinality(After(S, c)) \in Nat /\ Cardinality({u \in S : u > t}) \in Nat
  BY TurnCount, After(S, c) \subseteq Turns, {u \in S : u > t} \subseteq Turns DEF After
<1> QED  BY <1>2, <1>5, <1>6

\* A step that keeps the thread and what its open rows say keeps the invariant.
LEMMA KeptFrame ==
    ASSUME KeptInv, UNCHANGED <<transcript, memory, deleted>>,
           \A k \in Keys : OpenRow(k)' =>
             /\ OpenRow(k)
             /\ row'[k].ckpt = row[k].ckpt /\ row'[k].turns = row[k].turns
             /\ row'[k].anchor = row[k].anchor
             /\ row'[k].truncate = row[k].truncate,
           Calm' => transcript \subseteq memory,
           op'.pc \notin {"rollback", "truncated", "settle"}
    PROVE  KeptInv'
<1>1. ASSUME NEW k \in Keys, OpenRow(k)'
      PROVE  Kept(k)'
  <2>1. OpenRow(k) /\ Kept(k)  BY <1>1 DEF KeptInv
  <2> QED  BY <1>1, <2>1 DEF Kept, After
<1> QED  BY <1>1 DEF KeptInv

\* Journaling a phase's status leaves the rest of its row alone.
LEMMA RowFields ==
    ASSUME NEW r \in Row, NEW v
    PROVE  /\ LET q == [r EXCEPT !.provider = v]
              IN /\ q.outcome = r.outcome /\ q.ckpt = r.ckpt /\ q.turns = r.turns
                 /\ q.anchor = r.anchor /\ q.truncate = r.truncate /\ q.files = r.files
           /\ LET q == [r EXCEPT !.files = v]
              IN /\ q.outcome = r.outcome /\ q.ckpt = r.ckpt /\ q.turns = r.turns
                 /\ q.anchor = r.anchor /\ q.truncate = r.truncate /\ q.provider = r.provider
BY DEF Row

\* Facts of a step of the operation in flight.
LEMMA KeptPhaseFacts ==
    ASSUME TypeOK, JournalInv, KeptInv, op.pc \in Step
    PROVE  /\ op.key \in Keys /\ op # Idle /\ mine \in Row /\ row \in [Keys -> Row]
           /\ OpenRow(op.key) /\ Kept(op.key) /\ mine = row[op.key]
           /\ \A k \in Keys : OpenRow(k) => k = op.key
           /\ op \in [key : Keys, pc : Step, reply : {"none", "ok", "error", "timeout"}]
<1>1. /\ op.key \in Keys /\ op # Idle /\ mine \in Row /\ row \in [Keys -> Row]
      /\ op \in [key : Keys, pc : Step, reply : {"none", "ok", "error", "timeout"}]
  BY MineTyped
<1>2. OpenRow(op.key)  BY <1>1 DEF JournalInv, OpenRow
<1> QED  BY <1>1, <1>2 DEF KeptInv, mine

\* A phase that writes only what Kept does not look at, or nothing.
LEMMA KeptQuiet ==
    ASSUME TypeOK, JournalInv, KeptInv, op.pc \in Step,
           UNCHANGED <<transcript, memory, deleted>>,
           \/ row' = row
           \/ \E r :
                /\ row' = [row EXCEPT ![op.key] = r]
                /\ r.outcome \in Open
                /\ r.ckpt = mine.ckpt /\ r.turns = mine.turns
                /\ r.anchor = mine.anchor /\ r.truncate = mine.truncate,
           op'.pc \notin {"rollback", "truncated", "settle"}
    PROVE  KeptInv'
<1>1. /\ op.key \in Keys /\ row \in [Keys -> Row] /\ mine = row[op.key]
      /\ OpenRow(op.key)
      /\ \A k \in Keys : OpenRow(k) => k = op.key
  BY KeptPhaseFacts
<1>2. CASE row' = row
  <2>1. Calm' => transcript \subseteq memory  BY <1>1, <1>2 DEF Calm, OpenRow
  <2> QED  BY <1>2, <2>1, KeptFrame DEF OpenRow
<1>3. ASSUME NEW r,
             row' = [row EXCEPT ![op.key] = r], r.outcome \in Open,
             r.ckpt = mine.ckpt, r.turns = mine.turns,
             r.anchor = mine.anchor, r.truncate = mine.truncate
      PROVE  KeptInv'
  <2>1. row'[op.key] = r /\ \A k \in Keys \ {op.key} : row'[k] = row[k]
    BY <1>1, <1>3
  <2>2. ~Calm'  BY <1>1, <1>3, <2>1 DEF Calm
  <2>3. \A k \in Keys : OpenRow(k)' =>
             /\ OpenRow(k)
             /\ row'[k].ckpt = row[k].ckpt /\ row'[k].turns = row[k].turns
             /\ row'[k].anchor = row[k].anchor
             /\ row'[k].truncate = row[k].truncate
    BY <1>1, <1>3, <2>1 DEF OpenRow
  <2> HIDE DEF Calm
  <2> QED  BY <2>2, <2>3, KeptFrame
<1> QED  BY <1>2, <1>3

\* The journaled anchor keeps everything up to the checkpoint.
LEMMA KeptAnchored ==
    ASSUME TypeOK, JournalInv, KeptInv, AnchorCreated
    PROVE  KeptInv'
<1>1. /\ op.key \in Keys /\ op # Idle /\ mine \in Row /\ row \in [Keys -> Row]
      /\ OpenRow(op.key) /\ Kept(op.key) /\ mine = row[op.key]
      /\ \A k \in Keys : OpenRow(k) => k = op.key
      /\ op \in [key : Keys, pc : Step, reply : {"none", "ok", "error", "timeout"}]
  BY KeptPhaseFacts DEF AnchorCreated, At, Step
<1> DEFINE prefix == memory \ Newest(memory, mine.turns)
<1>2. /\ row'[op.key].anchor = {prefix}
      /\ row'[op.key].ckpt = mine.ckpt /\ row'[op.key].turns = mine.turns
      /\ row'[op.key].truncate = mine.truncate /\ row'[op.key].outcome = mine.outcome
      /\ \A k \in Keys \ {op.key} : row'[k] = row[k]
  BY <1>1 DEF AnchorCreated, Write, Row
<1>3. op'.pc = "restore" /\ op'.key = op.key /\ UNCHANGED <<transcript, memory, deleted>> /\ mine.anchor = {}
  BY <1>1 DEF AnchorCreated, Goto, thread, Row
<1>4. \A t \in transcript : t <= mine.ckpt => t \in prefix
  <2>1. memory \subseteq Turns /\ mine.ckpt \in 0..MaxTurns /\ mine.turns \in Nat
        /\ mine.turns <= Cardinality(After(memory, mine.ckpt))
    BY <1>1, <1>3, TurnAssumption DEF TypeOK, Row, Kept
  <2> SUFFICES ASSUME NEW t \in transcript, t <= mine.ckpt, t \in Newest(memory, mine.turns)
               PROVE  FALSE
    BY <1>1 DEF Kept
  <2>2. t > mine.ckpt  BY <2>1, NewestAreLater
  <2>3. t \in Nat /\ mine.ckpt \in Nat  BY <2>1, TurnAssumption DEF TypeOK, Turns
  <2> QED  BY <2>2, <2>3
<1> HIDE DEF prefix
<1>5. OpenRow(op.key)' /\ ~Calm' /\ \A k \in Keys : OpenRow(k)' => k = op.key
  BY <1>1, <1>2, <1>3 DEF OpenRow, Calm
<1>6. Kept(op.key)'
  BY <1>1, <1>2, <1>3, <1>4 DEF Kept, After
<1> QED  BY <1>1, <1>3, <1>5, <1>6 DEF KeptInv

\* Restoring to the anchor, whether the call answers or not.
LEMMA KeptRestored ==
    ASSUME AnchorKind = "absolute", TypeOK, JournalInv, KeptInv, Restore
    PROVE  KeptInv'
<1>1. /\ op.key \in Keys /\ op # Idle /\ mine \in Row /\ row \in [Keys -> Row]
      /\ OpenRow(op.key) /\ Kept(op.key) /\ mine = row[op.key]
      /\ \A k \in Keys : OpenRow(k) => k = op.key
      /\ op \in [key : Keys, pc : Step, reply : {"none", "ok", "error", "timeout"}]
  BY KeptPhaseFacts DEF Restore, At, Step
<1>2. op'.pc = "called" /\ op'.key = op.key /\ UNCHANGED <<transcript, deleted, row>>
  BY <1>1 DEF Restore, Reply, thread
<1>3. memory' = memory \/ memory' \in mine.anchor
  BY DEF Restore, Reply
<1>4. Kept(op.key)'
  BY <1>1, <1>2, <1>3 DEF Kept, After
<1>5. ~Calm  BY <1>1 DEF Calm, OpenRow
<1> QED  BY <1>1, <1>2, <1>4, <1>5 DEF KeptInv, OpenRow, Calm

\* The cut, which leaves the checkpoint, and its journal write.
LEMMA KeptCut ==
    ASSUME TypeOK, JournalInv, KeptInv, Truncate \/ JournalTruncate \/ SkipTruncate
    PROVE  KeptInv'
<1>0. op.pc \in Step  BY DEF Truncate, JournalTruncate, SkipTruncate, At, Step
<1>1. /\ op.key \in Keys /\ op # Idle /\ mine \in Row /\ row \in [Keys -> Row]
      /\ OpenRow(op.key) /\ Kept(op.key) /\ mine = row[op.key]
      /\ \A k \in Keys : OpenRow(k) => k = op.key
      /\ op \in [key : Keys, pc : Step, reply : {"none", "ok", "error", "timeout"}]
  BY <1>0, KeptPhaseFacts
<1>2. CASE Truncate
  <2>1. /\ transcript' = transcript \ After(transcript, mine.ckpt)
        /\ UNCHANGED <<row, memory, deleted>> /\ op'.pc = "truncated" /\ op'.key = op.key
    BY <1>1, <1>2 DEF Truncate, Goto
  <2>2. After(transcript', mine.ckpt) = {}  BY <2>1 DEF After
  <2>3. deleted \/ mine.ckpt \in transcript'
    <3>1. mine.ckpt \in Nat  BY <1>1, TurnAssumption DEF Row
    <3>2. mine.ckpt \notin After(transcript, mine.ckpt)  BY <3>1 DEF After
    <3> QED  BY <1>1, <2>1, <3>2 DEF Kept
  <2>4. Kept(op.key)'  BY <1>1, <2>1, <2>2, <2>3 DEF Kept, After
  <2>5. ~Calm  BY <1>1 DEF Calm, OpenRow
  <2>6. deleted => transcript' = {}  BY <2>1 DEF KeptInv
  <2> QED  BY <1>1, <2>1, <2>2, <2>4, <2>5, <2>6 DEF KeptInv, OpenRow, Calm
<1>3. CASE JournalTruncate
  <2>1. /\ row'[op.key].ckpt = mine.ckpt /\ row'[op.key].turns = mine.turns
        /\ row'[op.key].anchor = mine.anchor /\ row'[op.key].outcome = mine.outcome
        /\ \A k \in Keys \ {op.key} : row'[k] = row[k]
    BY <1>1, <1>3 DEF JournalTruncate, Write, Row
  <2>2. /\ UNCHANGED <<transcript, memory, deleted>> /\ op'.pc = "settle" /\ op'.key = op.key
        /\ After(transcript, mine.ckpt) = {}
    BY <1>1, <1>3 DEF JournalTruncate, Goto, thread, At, KeptInv
  <2>3. Kept(op.key)'  BY <1>1, <2>1, <2>2 DEF Kept, After
  <2>4. OpenRow(op.key)' /\ ~Calm' /\ \A k \in Keys : OpenRow(k)' => k = op.key
    BY <1>1, <2>1, <2>2 DEF OpenRow, Calm
  <2> QED  BY <1>1, <2>1, <2>2, <2>3, <2>4 DEF KeptInv
<1>4. CASE SkipTruncate
  <2>1. /\ UNCHANGED <<transcript, memory, deleted, row>> /\ op'.pc = "settle" /\ op'.key = op.key
        /\ After(transcript, mine.ckpt) = {}
    BY <1>1, <1>4 DEF SkipTruncate, Goto, thread, At, Kept
  <2>2. Kept(op.key)'  BY <1>1, <2>1 DEF Kept, After
  <2>3. ~Calm  BY <1>1 DEF Calm, OpenRow
  <2> QED  BY <1>1, <2>1, <2>2, <2>3 DEF KeptInv, OpenRow, Calm
<1> QED  BY <1>2, <1>3, <1>4

\* A settled revert has cut everything the provider may have forgotten.
LEMMA KeptSettled ==
    ASSUME TypeOK, JournalInv, KeptInv, Settle
    PROVE  KeptInv'
<1>1. /\ op.key \in Keys /\ op # Idle /\ mine \in Row /\ row \in [Keys -> Row]
      /\ OpenRow(op.key) /\ Kept(op.key) /\ mine = row[op.key]
      /\ \A k \in Keys : OpenRow(k) => k = op.key
  BY KeptPhaseFacts DEF Settle, At, Step
<1>2. /\ row'[op.key].outcome \notin Open
      /\ \A k \in Keys \ {op.key} : row'[k] = row[k]
      /\ UNCHANGED <<transcript, memory, deleted>> /\ op'.pc = "idle"
  BY <1>1 DEF Settle, Write, Row, Verdict, Open, thread, Idle
<1>3. After(transcript, mine.ckpt) = {}
  BY <1>1 DEF Settle, At, KeptInv
<1>4. transcript \subseteq memory
  <2> SUFFICES ASSUME NEW t \in transcript
               PROVE  t \in memory
    OBVIOUS
  <2>1. t \in Nat /\ mine.ckpt \in Nat  BY <1>1, TurnAssumption DEF TypeOK, Turns, Row
  <2>2. t <= mine.ckpt  BY <1>3, <2>1 DEF After
  <2> QED  BY <1>1, <2>2 DEF Kept
<1>5. \A k \in Keys : ~OpenRow(k)'
  BY <1>1, <1>2 DEF OpenRow
<1> QED  BY <1>2, <1>4, <1>5, KeptFrame

\* A claim counts the turns after its checkpoint, none of which is forgotten; a
\* checkpoint an open revert misses has gone with its thread.
LEMMA KeptClaimed ==
    ASSUME UserWaits, TypeOK, JournalInv, KeptInv, NEW k \in Keys, NEW c \in Turns, StartRevert(k, c)
    PROVE  KeptInv'
<1>1. /\ row \in [Keys -> Row] /\ row[k] \in Row /\ op = Idle
      /\ UNCHANGED <<transcript, memory, deleted>>
      /\ \A j \in Keys \ {k} : ~OpenRow(j)
      /\ transcript \subseteq Turns /\ memory \subseteq Turns
  BY DEF StartRevert, TypeOK, OpenRow
<1>2. op'.pc \in {"idle", "plan"}
  <2>1. op' = Idle \/ op' = [Idle EXCEPT !.key = k, !.pc = "plan"]
    BY <1>1 DEF StartRevert, Claim
  <2>2. Idle.pc = "idle" /\ [Idle EXCEPT !.key = k, !.pc = "plan"].pc = "plan"  BY DEF Idle
  <2> QED  BY <2>1, <2>2
<1>3. CASE row[k].outcome = "none" /\ Exists(c)
  <2> DEFINE n == Cardinality(After(transcript, c))
             fresh == [NoRow EXCEPT !.outcome = "running", !.ckpt = c, !.turns = n]
  <2>1. row' = [row EXCEPT ![k] = fresh]
    BY <1>3 DEF StartRevert, Claim
  <2>2. /\ fresh.outcome = "running" /\ fresh.ckpt = c /\ fresh.turns = n
        /\ fresh.anchor = {} /\ fresh.truncate = "pending"
    BY DEF NoRow
  <2>3. Calm  BY <1>1, <1>3 DEF Calm, OpenRow, Open
  <2>4. transcript \subseteq memory /\ c \in transcript
    BY <1>3, <2>3 DEF KeptInv, Exists
  <2>5. n <= Cardinality(After(memory, c))
    <3>1. IsFiniteSet(Turns)  BY TurnAssumption, FS_Interval DEF Turns
    <3>2. IsFiniteSet(After(memory, c))  BY <3>1, <1>1, FS_Subset DEF After
    <3>3. After(transcript, c) \subseteq After(memory, c)  BY <2>4 DEF After
    <3> QED  BY <3>2, <3>3, FS_Subset
  <2> HIDE DEF fresh, n
  <2>6. row'[k] = fresh /\ \A j \in Keys \ {k} : row'[j] = row[j]
    BY <1>1, <2>1
  <2>7. OpenRow(k)' /\ ~Calm' /\ \A j \in Keys : OpenRow(j)' => j = k
    BY <1>1, <2>2, <2>6 DEF OpenRow, Open, Calm
  <2>8. Kept(k)'
    BY <1>1, <2>2, <2>4, <2>5, <2>6 DEF Kept, After
  <2> QED  BY <1>1, <1>2, <2>7, <2>8 DEF KeptInv
<1>4. CASE row' = row
  <2>1. Calm' => transcript \subseteq memory  BY <1>4 DEF KeptInv, Calm
  <2> QED  BY <1>1, <1>2, <1>4, <2>1, KeptFrame DEF OpenRow
<1>5. CASE row[k].outcome \in Open /\ ~Exists(c)
  <2>1. c = row[k].ckpt /\ row'[k].outcome = "completed" /\ \A j \in Keys \ {k} : row'[j] = row[j]
    BY <1>1, <1>5 DEF StartRevert, NothingToRevert, Open, Row
  <2>2. deleted /\ transcript = {}
    BY <1>5, <2>1 DEF KeptInv, Kept, OpenRow, Exists
  <2>3. \A j \in Keys : ~OpenRow(j)'
    BY <1>1, <2>1 DEF OpenRow, Open
  <2> QED  BY <1>1, <1>2, <2>2, <2>3, KeptFrame
<1> QED
  BY <1>1, <1>3, <1>4, <1>5 DEF StartRevert, Claim, NothingToRevert, Row, Open, Settled

\* Every step keeps what is still wanted.
LEMMA KeptStep ==
    ASSUME AnchorKind = "absolute", UserWaits, TypeOK, JournalInv, KeptInv, [Next]_vars
    PROVE  KeptInv'
<1>0. CASE UNCHANGED vars
  <2>1. UNCHANGED <<transcript, memory, deleted, row, op>>  BY <1>0 DEF vars
  <2> QED  BY <2>1 DEF KeptInv, Kept, OpenRow, Calm, After
<1>1. CASE NewTurn
  <2>1. Calm /\ transcript \subseteq memory /\ UNCHANGED <<row, deleted, op>> /\ op = Idle
        /\ ~deleted /\ transcript' = transcript \cup {begun + 1} /\ memory' = memory \cup {begun + 1}
    BY <1>1 DEF NewTurn, KeptInv
  <2>2. \A k \in Keys : ~OpenRow(k) /\ ~OpenRow(k)'  BY <2>1 DEF Calm, OpenRow
  <2>3. transcript' \subseteq memory' /\ op'.pc = "idle"  BY <2>1 DEF Idle
  <2> QED  BY <2>1, <2>2, <2>3 DEF KeptInv
<1>2. CASE DeleteThread
  <2>1. deleted' /\ transcript' = {} /\ UNCHANGED <<row, memory, op>>
    BY <1>2 DEF DeleteThread
  <2>2. \A k \in Keys : OpenRow(k)' => Kept(k)'
    BY <2>1 DEF Kept, OpenRow, After, KeptInv
  <2>3. \A k : After(transcript', row[k].ckpt) = {}  BY <2>1 DEF After
  <2> QED  BY <2>1, <2>2, <2>3 DEF KeptInv, OpenRow, After
<1>3. CASE Crash
  <2>1. op'.pc = "idle" /\ UNCHANGED <<transcript, memory, deleted, row>>
    BY <1>3 DEF Crash, Idle
  <2>2. Calm' => transcript \subseteq memory  BY <2>1 DEF KeptInv, Calm
  <2> QED  BY <2>1, <2>2, KeptFrame DEF OpenRow
<1>4. ASSUME NEW k \in Keys, NEW c \in Turns, StartRevert(k, c)
      PROVE  KeptInv'
  BY <1>4, KeptClaimed
<1>5. CASE AnchorCreated  BY <1>5, KeptAnchored
<1>6. CASE Restore  BY <1>6, KeptRestored
<1>7. CASE Truncate \/ JournalTruncate \/ SkipTruncate  BY <1>7, KeptCut
<1>8. CASE Settle  BY <1>8, KeptSettled
<1>9. CASE AnchorUnsupported \/ RollBackConversation
  BY <1>9 DEF AnchorUnsupported, RollBackConversation, At, KeptInv
<1>10. CASE SkipProvider \/ AnchorRefused \/ AnchorKnown \/ JournalProvider
             \/ SkipFiles \/ RestoreFiles \/ JournalFiles \/ FilesFail
  <2>1. op.pc \in Step
    BY <1>10 DEF SkipProvider, AnchorRefused, AnchorKnown, JournalProvider, SkipFiles,
                 RestoreFiles, JournalFiles, FilesFail, At, Step
  <2>2. /\ op \in [key : Keys, pc : Step, reply : {"none", "ok", "error", "timeout"}]
        /\ mine \in Row /\ mine.outcome \in Open
    BY <2>1, MineTyped, KeptPhaseFacts DEF OpenRow
  <2>3. UNCHANGED <<transcript, memory, deleted>>
    BY <1>10 DEF SkipProvider, AnchorRefused, AnchorKnown, JournalProvider, SkipFiles,
                 RestoreFiles, JournalFiles, FilesFail, thread
  <2>4. op'.pc \in {"idle", "restore", "files", "restored", "truncate"}
    <3>1. op' = Idle \/ \E pc \in {"restore", "files", "restored", "truncate"} : \E reply :
                          op' = [op EXCEPT !.pc = pc] \/ op' = [op EXCEPT !.pc = pc, !.reply = reply]
      BY <1>10 DEF SkipProvider, AnchorRefused, AnchorKnown, JournalProvider, SkipFiles,
                   RestoreFiles, JournalFiles, FilesFail, Goto
    <3>2. Idle.pc = "idle"  BY DEF Idle
    <3>3. op' = Idle \/ op'.pc \in {"restore", "files", "restored", "truncate"}
      BY <2>2, <3>1
    <3> QED  BY <3>2, <3>3
  <2>5. \/ row' = row
        \/ \E r :
             /\ row' = [row EXCEPT ![op.key] = r]
             /\ r.outcome \in Open
             /\ r.ckpt = mine.ckpt /\ r.turns = mine.turns
             /\ r.anchor = mine.anchor /\ r.truncate = mine.truncate
    <3>1. CASE SkipProvider
      BY <2>2, <3>1 DEF SkipProvider, Write, Row
    <3>2. CASE AnchorRefused
      <4>1. PICK v : row' = [row EXCEPT ![op.key] = [mine EXCEPT !.provider = v]]
        BY <3>2 DEF AnchorRefused, Write
      <4> DEFINE r == [mine EXCEPT !.provider = v]
      <4>2. /\ r.outcome \in Open
            /\ r.ckpt = mine.ckpt /\ r.turns = mine.turns
            /\ r.anchor = mine.anchor /\ r.truncate = mine.truncate
        BY <2>2, RowFields
      <4> HIDE DEF r
      <4> QED  BY <4>1, <4>2 DEF r
    <3>3. CASE AnchorKnown \/ RestoreFiles
      BY <3>3 DEF AnchorKnown, RestoreFiles
    <3>4. CASE JournalProvider
      <4>1. PICK v : row' = [row EXCEPT ![op.key] = [mine EXCEPT !.provider = v]]
        BY <3>4 DEF JournalProvider, Write
      <4> DEFINE r == [mine EXCEPT !.provider = v]
      <4>2. /\ r.outcome \in Open
            /\ r.ckpt = mine.ckpt /\ r.turns = mine.turns
            /\ r.anchor = mine.anchor /\ r.truncate = mine.truncate
        BY <2>2, RowFields
      <4> HIDE DEF r
      <4> QED  BY <4>1, <4>2 DEF r
    <3>5. CASE SkipFiles
      BY <2>2, <3>5 DEF SkipFiles, Write, Row
    <3>6. CASE JournalFiles
      <4> DEFINE r == [mine EXCEPT !.files = "completed"]
      <4>1. row' = [row EXCEPT ![op.key] = r]  BY <3>6 DEF JournalFiles, Write
      <4>2. /\ r.outcome \in Open
            /\ r.ckpt = mine.ckpt /\ r.turns = mine.turns
            /\ r.anchor = mine.anchor /\ r.truncate = mine.truncate
        BY <2>2, RowFields
      <4> HIDE DEF r
      <4> QED  BY <4>1, <4>2
    <3>7. CASE FilesFail
      <4> DEFINE r == [mine EXCEPT !.files = "failed", !.outcome = "failed"]
      <4>1. row' = [row EXCEPT ![op.key] = r]  BY <3>7 DEF FilesFail, Write
      <4>2. /\ r.outcome \in Open
            /\ r.ckpt = mine.ckpt /\ r.turns = mine.turns
            /\ r.anchor = mine.anchor /\ r.truncate = mine.truncate
        BY <2>2 DEF Row, Open
      <4> HIDE DEF r
      <4> QED  BY <4>1, <4>2
    <3> QED  BY <1>10, <3>1, <3>2, <3>3, <3>4, <3>5, <3>6, <3>7
  <2> QED  BY <2>1, <2>3, <2>4, <2>5, KeptQuiet
<1> QED
  BY <1>0, <1>1, <1>2, <1>3, <1>4, <1>5, <1>6, <1>7, <1>8, <1>9, <1>10 DEF Next, Phase

\* It holds at the start, where nothing is open.
LEMMA KeptInit ==
    ASSUME Init
    PROVE  KeptInv
BY DEF Init, KeptInv, Calm, OpenRow, Open, NoRow, Idle

\* With absolute anchors and a user who waits for an interrupted revert, the
\* provider has forgotten no turn the user sees, but for those an unfinished
\* revert is about to cut.
THEOREM NobodyForgets ==
    ASSUME AnchorKind = "absolute", UserWaits
    PROVE  Spec => []NothingForgotten
<1>1. Init => KeptInv  BY KeptInit
<1>2. TypeOK /\ JournalInv /\ KeptInv /\ [Next]_vars => KeptInv'  BY KeptStep
<1>3. TypeOK /\ KeptInv => NothingForgotten
  <2> SUFFICES ASSUME TypeOK, KeptInv, NEW t \in transcript \ memory
               PROVE  \E k \in Keys : row[k].outcome \in Open /\ row[k].ckpt < t
    BY DEF NothingForgotten
  <2>1. PICK k \in Keys : OpenRow(k)  BY DEF KeptInv, Calm, OpenRow
  <2>2. Kept(k) /\ row[k].ckpt \in Nat /\ t \in Nat
    BY <2>1, TurnAssumption DEF KeptInv, TypeOK, Row, Turns
  <2>3. ~(t <= row[k].ckpt)  BY <2>2 DEF Kept
  <2> QED  BY <2>1, <2>2, <2>3 DEF OpenRow
<1> QED  BY <1>1, <1>2, <1>3, TypeCorrect, JournalCorrect, PTL DEF Spec

-----------------------------------------------------------------------------
(* What a completed revert has achieved.                                   *)

\* No revert ended with the provider's state lost or unknown.
NoLoss == \A k \in Keys : row[k].outcome \notin {"completed_local_only", "ambiguous"}

\* What the provider remembers is what the transcript shows, up to the
\* checkpoint; the later turns are those the revert counted, or gone.
Exact(k) ==
    /\ \A t \in memory : t <= row[k].ckpt => t \in transcript
    /\ \A prefix \in row[k].anchor : \A t \in prefix : t <= row[k].ckpt /\ t \in transcript
    /\ row[k].anchor = {} => Cardinality(After(memory, row[k].ckpt)) <= row[k].turns
    /\ row[k].provider \in {"completed", "skipped_no_turns"} => After(memory, row[k].ckpt) = {}

\* Where the operation in flight is says how far its provider and files are.
ProgressInv ==
    /\ \A k \in Keys : OpenRow(k) /\ row[k].anchor # {} => row[k].turns > 0
    /\ \A k \in Keys : OpenRow(k) /\ row[k].files = "completed" => worktree <= row[k].ckpt
    /\ op.pc = "restored" => worktree <= row[op.key].ckpt
    /\ op.pc \in {"files", "restored", "truncate", "truncated", "settle"} =>
         row[op.key].provider # "pending"
    /\ op.pc = "called" /\ op.reply = "ok" => memory \in row[op.key].anchor

ExactInv ==
    NoLoss /\ ~deleted =>
      /\ Calm => memory \subseteq transcript
      /\ \A k \in Keys : OpenRow(k) => Exact(k)

\* A claim leaves every row, or opens one that was not there, or closes one whose
\* thread is gone.
LEMMA ClaimRows ==
    ASSUME UserWaits, TypeOK, JournalInv, KeptInv, NEW k \in Keys, NEW c \in Turns, StartRevert(k, c)
    PROVE  /\ op = Idle /\ op'.pc \in {"idle", "plan"}
           /\ UNCHANGED <<transcript, memory, worktree, deleted>>
           /\ \/ row' = row
              \/ /\ row[k].outcome = "none" /\ Calm /\ ~Calm' /\ \A j \in Keys : OpenRow(j)' => j = k
                 /\ row'[k].outcome = "running" /\ row'[k].ckpt = c
                 /\ row'[k].turns = Cardinality(After(transcript, c))
                 /\ row'[k].anchor = {} /\ row'[k].files = "pending"
                 /\ row'[k].provider = "pending"
                 /\ \A j \in Keys \ {k} : row'[j] = row[j]
              \/ /\ deleted /\ row[k].outcome \in Open /\ row'[k].outcome = "completed"
                 /\ \A j \in Keys : ~OpenRow(j)'
                 /\ \A j \in Keys \ {k} : row'[j] = row[j]
<1>1. /\ row \in [Keys -> Row] /\ row[k] \in Row /\ op = Idle
      /\ UNCHANGED <<transcript, memory, worktree, deleted>>
      /\ \A j \in Keys \ {k} : ~OpenRow(j)
  BY DEF StartRevert, TypeOK, OpenRow
<1>2. op'.pc \in {"idle", "plan"}
  <2>1. op' = Idle \/ op' = [Idle EXCEPT !.key = k, !.pc = "plan"]
    BY <1>1 DEF StartRevert, Claim
  <2>2. Idle.pc = "idle" /\ [Idle EXCEPT !.key = k, !.pc = "plan"].pc = "plan"  BY DEF Idle
  <2> QED  BY <2>1, <2>2
<1>3. CASE row[k].outcome = "none" /\ Exists(c)
  <2> DEFINE n == Cardinality(After(transcript, c))
             fresh == [NoRow EXCEPT !.outcome = "running", !.ckpt = c, !.turns = n]
  <2>1. row' = [row EXCEPT ![k] = fresh]
    BY <1>3 DEF StartRevert, Claim
  <2>2. /\ fresh.outcome = "running" /\ fresh.ckpt = c /\ fresh.turns = n
        /\ fresh.anchor = {} /\ fresh.files = "pending" /\ fresh.provider = "pending"
    BY DEF NoRow
  <2>3. Calm  BY <1>1, <1>3 DEF Calm, OpenRow, Open
  <2> HIDE DEF fresh
  <2>4. row'[k] = fresh /\ \A j \in Keys \ {k} : row'[j] = row[j]
    BY <1>1, <2>1
  <2>5. ~Calm' /\ \A j \in Keys : OpenRow(j)' => j = k
    BY <1>1, <2>2, <2>4 DEF OpenRow, Open, Calm
  <2> QED  BY <1>1, <1>2, <1>3, <2>2, <2>3, <2>4, <2>5
<1>4. CASE row' = row
  BY <1>1, <1>2, <1>4
<1>5. CASE row[k].outcome \in Open /\ ~Exists(c)
  <2>1. c = row[k].ckpt /\ row'[k].outcome = "completed" /\ \A j \in Keys \ {k} : row'[j] = row[j]
    BY <1>1, <1>5 DEF StartRevert, NothingToRevert, Open, Row
  <2>2. deleted
    BY <1>5, <2>1 DEF KeptInv, Kept, OpenRow, Exists
  <2>3. \A j \in Keys : ~OpenRow(j)'
    BY <1>1, <2>1 DEF OpenRow, Open
  <2> QED  BY <1>1, <1>2, <1>5, <2>1, <2>2, <2>3
<1> QED
  BY <1>1, <1>3, <1>4, <1>5 DEF StartRevert, Claim, NothingToRevert, Row, Open, Settled

\* What a phase may write.
LEMMA PhaseRows ==
    ASSUME TypeOK, JournalInv, KeptInv, Phase
    PROVE  /\ op.pc \in Step
           /\ \A k \in Keys \ {op.key} : row'[k] = row[k]
           /\ row'[op.key].ckpt = mine.ckpt /\ row'[op.key].turns = mine.turns
           /\ row'[op.key].anchor = mine.anchor \/ (mine.turns > 0 /\ op'.pc = "restore")
           /\ row'[op.key].files = "completed" => mine.files = "completed" \/ op.pc = "restored"
           /\ op.pc = "settle" \/ row'[op.key].outcome \in Open
           /\ row'[op.key].provider = "pending" => mine.provider = "pending"
           /\ op' = Idle \/ op'.key = op.key
           /\ UNCHANGED deleted
<1>1. op.pc \in Step
  BY DEF Phase, SkipProvider, AnchorCreated, AnchorRefused, AnchorKnown, AnchorUnsupported,
         Restore, RollBackConversation, JournalProvider, SkipFiles, RestoreFiles,
         JournalFiles, FilesFail, SkipTruncate, Truncate, JournalTruncate, Settle, At, Step
<1>2. /\ op.key \in Keys /\ mine \in Row /\ row \in [Keys -> Row] /\ mine = row[op.key]
      /\ op \in [key : Keys, pc : Step, reply : {"none", "ok", "error", "timeout"}]
      /\ mine.outcome \in Open
  BY <1>1, KeptPhaseFacts DEF OpenRow
<1>3. \A k \in Keys \ {op.key} : row'[k] = row[k]
  <2>1. row' = row \/ \E r : row' = [row EXCEPT ![op.key] = r]
    BY DEF Phase, SkipProvider, AnchorCreated, AnchorRefused, AnchorKnown, AnchorUnsupported,
           Restore, RollBackConversation, JournalProvider, SkipFiles, RestoreFiles,
           JournalFiles, FilesFail, SkipTruncate, Truncate, JournalTruncate, Settle, Write
  <2> QED  BY <1>2, <2>1
<1>4. op' = Idle \/ op'.key = op.key
  <2>1. op' = Idle \/ \E pc, reply : op' = [op EXCEPT !.pc = pc] \/ op' = [op EXCEPT !.pc = pc, !.reply = reply]
    BY DEF Phase, SkipProvider, AnchorCreated, AnchorRefused, AnchorKnown, AnchorUnsupported,
           Restore, RollBackConversation, JournalProvider, SkipFiles, RestoreFiles, Reply,
           JournalFiles, FilesFail, SkipTruncate, Truncate, JournalTruncate, Settle, Goto
  <2> QED  BY <1>2, <2>1
<1>5. UNCHANGED deleted
  BY DEF Phase, SkipProvider, AnchorCreated, AnchorRefused, AnchorKnown, AnchorUnsupported,
         Restore, RollBackConversation, JournalProvider, SkipFiles, RestoreFiles, Reply,
         JournalFiles, FilesFail, SkipTruncate, Truncate, JournalTruncate, Settle, thread
<1> DEFINE Goal == /\ row'[op.key].ckpt = mine.ckpt /\ row'[op.key].turns = mine.turns
                   /\ row'[op.key].anchor = mine.anchor \/ (mine.turns > 0 /\ op'.pc = "restore")
                   /\ row'[op.key].files = "completed" => mine.files = "completed" \/ op.pc = "restored"
                   /\ op.pc = "settle" \/ row'[op.key].outcome \in Open
                   /\ row'[op.key].provider = "pending" => mine.provider = "pending"
<1>6. ASSUME row' = row
      PROVE  Goal
  BY <1>2, <1>6
<1>7. ASSUME SkipProvider PROVE Goal  BY <1>2, <1>6, <1>7 DEF SkipProvider, Write, Row
<1>8. ASSUME AnchorCreated PROVE Goal  BY <1>2, <1>8 DEF AnchorCreated, Write, Goto, Row
<1>9. ASSUME AnchorRefused PROVE Goal  BY <1>2, <1>9 DEF AnchorRefused, Failure, Write, Row
<1>10. ASSUME AnchorUnsupported PROVE Goal  BY <1>2, <1>10 DEF AnchorUnsupported, Write, Row
<1>11. ASSUME JournalProvider PROVE Goal  BY <1>2, <1>11 DEF JournalProvider, Failure, Write, Row
<1>12. ASSUME SkipFiles PROVE Goal  BY <1>2, <1>6, <1>12 DEF SkipFiles, Write, Row
<1>13. ASSUME JournalFiles PROVE Goal  BY <1>2, <1>13 DEF JournalFiles, At, Write, Row
<1>14. ASSUME FilesFail PROVE Goal  BY <1>2, <1>14 DEF FilesFail, Write, Row, Open
<1>15. ASSUME JournalTruncate PROVE Goal  BY <1>2, <1>15 DEF JournalTruncate, Write, Row
<1>16. ASSUME Settle PROVE Goal  BY <1>2, <1>16 DEF Settle, At, Write, Row
<1>17. ASSUME AnchorKnown \/ Restore \/ RollBackConversation \/ RestoreFiles \/ SkipTruncate \/ Truncate PROVE Goal
  BY <1>6, <1>17 DEF AnchorKnown, Restore, RollBackConversation, RestoreFiles, SkipTruncate, Truncate
<1>18. Goal
  BY <1>7, <1>8, <1>9, <1>10, <1>11, <1>12, <1>13, <1>14, <1>15, <1>16, <1>17 DEF Phase
<1> QED  BY <1>1, <1>3, <1>4, <1>5, <1>18

\* Where each phase goes on, with absolute anchors.
LEMMA PhasePc ==
    ASSUME AnchorKind = "absolute", KeptInv,
           op \in [key : Keys, pc : Step, reply : {"none", "ok", "error", "timeout"}]
    PROVE  /\ RestoreFiles => op'.pc = "restored" /\ worktree' = mine.ckpt
           /\ Restore => op'.pc = "called"
           /\ AnchorCreated \/ AnchorKnown => op'.pc = "restore"
           /\ SkipProvider \/ AnchorRefused \/ JournalProvider => op'.pc = "files"
           /\ SkipFiles \/ JournalFiles => op'.pc = "truncate"
           /\ SkipTruncate \/ JournalTruncate => op'.pc = "settle"
           /\ Truncate => op'.pc = "truncated"
           /\ FilesFail \/ Settle => op'.pc = "idle"
           /\ ~AnchorUnsupported /\ ~RollBackConversation
<1>1. /\ \A p : [op EXCEPT !.pc = p].pc = p
      /\ \A p, r : [op EXCEPT !.pc = p, !.reply = r].pc = p
      /\ Idle.pc = "idle"
  BY DEF Idle
<1>2. /\ RestoreFiles => op'.pc = "restored" /\ worktree' = mine.ckpt
      /\ Restore => op'.pc = "called"
  BY <1>1 DEF RestoreFiles, Restore, Reply, Goto
<1>3. AnchorCreated \/ AnchorKnown => op'.pc = "restore"
  BY <1>1 DEF AnchorCreated, AnchorKnown, Goto
<1>4. SkipProvider \/ AnchorRefused \/ JournalProvider => op'.pc = "files"
  BY <1>1 DEF SkipProvider, AnchorRefused, JournalProvider, Goto
<1>5. SkipFiles \/ JournalFiles => op'.pc = "truncate"
  BY <1>1 DEF SkipFiles, JournalFiles, Goto
<1>6. /\ SkipTruncate \/ JournalTruncate => op'.pc = "settle"
      /\ Truncate => op'.pc = "truncated"
  BY <1>1 DEF SkipTruncate, JournalTruncate, Truncate, Goto
<1>7. FilesFail \/ Settle => op'.pc = "idle"
  BY <1>1 DEF FilesFail, Settle
<1>8. ~AnchorUnsupported /\ ~RollBackConversation
  BY DEF AnchorUnsupported, RollBackConversation, At, KeptInv
<1> QED  BY <1>2, <1>3, <1>4, <1>5, <1>6, <1>7, <1>8

\* Every step keeps track of its progress.
LEMMA ProgressStep ==
    ASSUME AnchorKind = "absolute", UserWaits, TypeOK, JournalInv, KeptInv, ProgressInv, [Next]_vars
    PROVE  ProgressInv'
<1>0. CASE UNCHANGED vars
  <2>1. UNCHANGED <<worktree, memory, row, op>>  BY <1>0 DEF vars
  <2> QED  BY <2>1 DEF ProgressInv, OpenRow
<1>1. CASE NewTurn
  <2>1. Calm /\ UNCHANGED <<row, op>> /\ op.pc = "idle"
    BY <1>1 DEF NewTurn, Idle
  <2>2. \A k \in Keys : ~OpenRow(k)'  BY <2>1 DEF Calm, OpenRow
  <2> QED  BY <2>1, <2>2 DEF ProgressInv
<1>2. CASE DeleteThread
  BY <1>2 DEF DeleteThread, ProgressInv, OpenRow
<1>3. CASE Crash
  <2>1. op'.pc = "idle" /\ UNCHANGED <<worktree, memory, row>>  BY <1>3 DEF Crash, Idle
  <2> QED  BY <2>1 DEF ProgressInv, OpenRow
<1>4. ASSUME NEW k \in Keys, NEW c \in Turns, StartRevert(k, c)
      PROVE  ProgressInv'
  <2>1. CASE row' = row
    <3>1. op'.pc \in {"idle", "plan"} /\ UNCHANGED <<worktree, memory>>
      BY <1>4, ClaimRows
    <3> QED  BY <2>1, <3>1 DEF ProgressInv, OpenRow
  <2>2. CASE row' # row
    <3>1. /\ op'.pc \in {"idle", "plan"}
          /\ \A j \in Keys : OpenRow(j)' =>
               row'[j].anchor = {} /\ row'[j].files = "pending"
      BY <1>4, <2>2, ClaimRows
    <3> QED  BY <3>1 DEF ProgressInv
  <2> QED  BY <2>1, <2>2
<1>5. CASE Phase
  <2>1. /\ op.key \in Keys /\ mine \in Row /\ row \in [Keys -> Row] /\ mine = row[op.key]
        /\ op \in [key : Keys, pc : Step, reply : {"none", "ok", "error", "timeout"}]
        /\ OpenRow(op.key) /\ \A k \in Keys : OpenRow(k) => k = op.key
    BY <1>5, PhaseRows, KeptPhaseFacts
  <2>2. /\ \A k \in Keys \ {op.key} : row'[k] = row[k]
        /\ row'[op.key].ckpt = mine.ckpt /\ row'[op.key].turns = mine.turns
        /\ row'[op.key].anchor = mine.anchor \/ (mine.turns > 0 /\ op'.pc = "restore")
        /\ row'[op.key].files = "completed" => mine.files = "completed" \/ op.pc = "restored"
        /\ row'[op.key].provider = "pending" => mine.provider = "pending"
        /\ op' = Idle \/ op'.key = op.key
    BY <1>5, PhaseRows
  <2>3. worktree' = worktree \/ worktree' = mine.ckpt
    BY <1>5 DEF Phase, SkipProvider, AnchorCreated, AnchorRefused, AnchorKnown, AnchorUnsupported,
         Restore, RollBackConversation, JournalProvider, SkipFiles, RestoreFiles, Reply,
         JournalFiles, FilesFail, SkipTruncate, Truncate, JournalTruncate, Settle, thread
  <2>12. /\ RestoreFiles => op'.pc = "restored" /\ worktree' = mine.ckpt
         /\ Restore => op'.pc = "called"
         /\ AnchorCreated \/ AnchorKnown => op'.pc = "restore"
         /\ SkipProvider \/ AnchorRefused \/ JournalProvider => op'.pc = "files"
         /\ SkipFiles \/ JournalFiles => op'.pc = "truncate"
         /\ SkipTruncate \/ JournalTruncate => op'.pc = "settle"
         /\ Truncate => op'.pc = "truncated"
         /\ FilesFail \/ Settle => op'.pc = "idle"
         /\ ~AnchorUnsupported /\ ~RollBackConversation
    BY <1>5, <2>1, PhasePc
  <2>4. mine.ckpt <= mine.ckpt  BY <2>1, TurnAssumption DEF Row
  <2>5. mine.files = "completed" \/ op.pc = "restored" => worktree <= mine.ckpt
    BY <2>1 DEF ProgressInv
  <2>6. ASSUME NEW k \in Keys, OpenRow(k)'
        PROVE  k = op.key
    BY <2>1, <2>2, <2>6 DEF OpenRow
  <2>7. \A k \in Keys : OpenRow(k)' /\ row'[k].anchor # {} => row'[k].turns > 0
    BY <2>1, <2>2, <2>6 DEF ProgressInv
  <2>8. \A k \in Keys : OpenRow(k)' /\ row'[k].files = "completed" => worktree' <= row'[k].ckpt
    BY <2>2, <2>3, <2>4, <2>5, <2>6
  <2>9. op'.pc = "restored" => op'.key = op.key /\ worktree' <= row'[op.key].ckpt
    <3>1. op'.pc = "restored" => RestoreFiles
      BY <1>5, <2>12 DEF Phase
    <3>2. RestoreFiles => worktree' = mine.ckpt  BY <2>12
    <3> QED  BY <2>2, <2>4, <3>1, <3>2 DEF Idle
  <2>10. op'.pc \in {"files", "restored", "truncate", "truncated", "settle"} =>
           op'.key = op.key /\ row'[op.key].provider # "pending"
    <3>1. CASE SkipProvider
      <4>1. ~ProviderDue => mine.provider # "pending"  BY DEF ProviderDue
      <4>2. ProviderDue => row'[op.key].provider = "skipped_no_turns"
        BY <2>1, <3>1 DEF SkipProvider, Write, Row
      <4> QED  BY <2>2, <4>1, <4>2 DEF Idle
    <3>2. CASE AnchorRefused
      <4>1. row'[op.key].provider # "pending"
        BY <2>1, <3>2 DEF AnchorRefused, Write, Row, Failure
      <4> QED  BY <2>2, <4>1 DEF Idle
    <3>3. CASE JournalProvider
      <4>1. row'[op.key].provider # "pending"
        BY <2>1, <3>3 DEF JournalProvider, Write, Row, Failure
      <4> QED  BY <2>2, <4>1 DEF Idle
    <3>4. CASE AnchorCreated \/ AnchorKnown \/ Restore \/ FilesFail \/ Settle
      <4>1. op'.pc \in {"restore", "called", "idle"}  BY <2>12, <3>4
      <4> QED  BY <4>1
    <3>5. CASE SkipFiles \/ RestoreFiles \/ JournalFiles \/ SkipTruncate \/ Truncate \/ JournalTruncate
      <4>1. op.pc \in {"files", "restored", "truncate", "truncated"}
        BY <3>5 DEF SkipFiles, RestoreFiles, JournalFiles, SkipTruncate, Truncate, JournalTruncate, At
      <4>2. mine.provider # "pending"  BY <2>1, <4>1 DEF ProgressInv
      <4> QED  BY <2>2, <4>2 DEF Idle
    <3> QED  BY <1>5, <2>12, <3>1, <3>2, <3>3, <3>4, <3>5 DEF Phase
  <2>11. op'.pc = "called" /\ op'.reply = "ok" => op'.key = op.key /\ memory' \in row'[op.key].anchor
    <3>1. op'.pc = "called" => Restore
      BY <1>5, <2>12 DEF Phase
    <3>2. Restore /\ op'.reply = "ok" => memory' \in mine.anchor /\ row' = row
      BY <2>1 DEF Restore, Reply
    <3> QED  BY <2>1, <2>2, <3>1, <3>2 DEF Idle
  <2> QED  BY <2>7, <2>8, <2>9, <2>10, <2>11 DEF ProgressInv
<1> QED
  BY <1>0, <1>1, <1>2, <1>3, <1>4, <1>5 DEF Next

\* A rollback by count takes every turn after a checkpoint that at most that many follow.
LEMMA LaterAreNewest ==
    ASSUME NEW S, S \subseteq Turns, NEW c \in 0..MaxTurns, NEW n \in Nat,
           Cardinality(After(S, c)) <= n, NEW t \in S, t > c
    PROVE  t \in Newest(S, n)
<1>1. t \in Nat /\ c \in Nat  BY TurnAssumption DEF Turns
<1> DEFINE later == {u \in S : u > t}
<1>2. IsFiniteSet(After(S, c))
  <2>1. IsFiniteSet(Turns)  BY TurnAssumption, FS_Interval DEF Turns
  <2> QED  BY <2>1, FS_Subset, After(S, c) \subseteq Turns DEF After
<1>3. later \subseteq After(S, c)
  <2> SUFFICES ASSUME NEW u \in later
               PROVE  u \in After(S, c)
    OBVIOUS
  <2>1. u \in S /\ u > t /\ u \in Nat  BY TurnAssumption DEF Turns
  <2> QED  BY <1>1, <2>1 DEF After
<1>4. t \in After(S, c) /\ t \notin later  BY <1>1 DEF After
<1>5. /\ Cardinality(later) <= Cardinality(After(S, c))
      /\ Cardinality(later) = Cardinality(After(S, c)) => later = After(S, c)
  BY <1>2, <1>3, FS_Subset
<1>6. Cardinality(later) \in Nat /\ Cardinality(After(S, c)) \in Nat
  BY <1>2, <1>3, FS_Subset, FS_CardinalityType
<1>7. Cardinality(later) < n  BY <1>4, <1>5, <1>6
<1> QED  BY <1>7 DEF Newest

\* The anchor drops every later turn and, as nothing was lost before, only those.
LEMMA ExactAnchor ==
    ASSUME TypeOK, JournalInv, KeptInv, AnchorCreated, Exact(op.key)
    PROVE  \A t \in memory \ Newest(memory, mine.turns) : t <= mine.ckpt /\ t \in transcript
<1>1. /\ mine \in Row /\ mine = row[op.key] /\ mine.anchor = {} /\ memory \subseteq Turns
  BY KeptPhaseFacts DEF AnchorCreated, At, Step, TypeOK
<1>2. /\ mine.ckpt \in 0..MaxTurns /\ mine.turns \in Nat
      /\ Cardinality(After(memory, mine.ckpt)) <= mine.turns
  BY <1>1, TurnAssumption DEF Row, Exact
<1> SUFFICES ASSUME NEW t \in memory, t \notin Newest(memory, mine.turns)
             PROVE  t <= mine.ckpt /\ t \in transcript
  OBVIOUS
<1>3. ~(t > mine.ckpt)  BY <1>1, <1>2, LaterAreNewest
<1>4. t \in Nat /\ mine.ckpt \in Nat  BY <1>1, <1>2, TurnAssumption DEF Turns
<1> QED  BY <1>1, <1>3, <1>4 DEF Exact

\* Every step keeps memory and transcript alike, but for what is being reverted.
LEMMA ExactStep ==
    ASSUME AnchorKind = "absolute", UserWaits, TypeOK, JournalInv, KeptInv, ProgressInv,
           ExactInv, [Next]_vars
    PROVE  ExactInv'
<1> SUFFICES ASSUME NoLoss', ~deleted'
             PROVE  /\ Calm' => memory' \subseteq transcript'
                    /\ \A k \in Keys : OpenRow(k)' => Exact(k)'
  BY DEF ExactInv
<1>0. ASSUME UNCHANGED <<transcript, memory, deleted, row>>
      PROVE  /\ Calm' => memory' \subseteq transcript'
             /\ \A k \in Keys : OpenRow(k)' => Exact(k)'
  BY <1>0 DEF ExactInv, NoLoss, Calm, OpenRow, Exact, After
<1>1. CASE UNCHANGED vars  BY <1>0, <1>1 DEF vars
<1>2. CASE NewTurn
  <2>1. Calm /\ UNCHANGED <<row, deleted>> /\ memory' = memory \cup {begun + 1}
        /\ transcript' = transcript \cup {begun + 1}
    BY <1>2 DEF NewTurn
  <2>2. NoLoss  BY <2>1 DEF NoLoss
  <2>3. memory \subseteq transcript  BY <2>1, <2>2 DEF ExactInv
  <2>4. \A k \in Keys : ~OpenRow(k)'  BY <2>1 DEF Calm, OpenRow
  <2> QED  BY <2>1, <2>3, <2>4
<1>3. CASE DeleteThread  BY <1>3 DEF DeleteThread
<1>4. CASE Crash  BY <1>0, <1>4 DEF Crash
<1>5. ASSUME NEW k \in Keys, NEW c \in Turns, StartRevert(k, c)
      PROVE  /\ Calm' => memory' \subseteq transcript'
             /\ \A j \in Keys : OpenRow(j)' => Exact(j)'
  <2>1. UNCHANGED <<transcript, memory, deleted>>  BY <1>5, ClaimRows
  <2>2. CASE row' = row  BY <1>0, <2>1, <2>2
  <2>3. CASE row' # row
    <3>1. /\ row[k].outcome = "none" /\ Calm /\ ~Calm' /\ \A j \in Keys : OpenRow(j)' => j = k
          /\ row'[k].ckpt = c /\ row'[k].turns = Cardinality(After(transcript, c))
          /\ row'[k].anchor = {} /\ row'[k].provider = "pending"
          /\ \A j \in Keys \ {k} : row'[j] = row[j]
      BY <1>5, <2>1, <2>3, ClaimRows
    <3>2. NoLoss
      BY <3>1 DEF NoLoss
    <3>3. memory \subseteq transcript  BY <2>1, <3>1, <3>2 DEF ExactInv
    <3>4. Cardinality(After(memory, c)) <= Cardinality(After(transcript, c))
      <4>1. IsFiniteSet(Turns)  BY TurnAssumption, FS_Interval DEF Turns
      <4>2. IsFiniteSet(After(transcript, c))  BY <4>1, FS_Subset DEF After, TypeOK
      <4>3. After(memory, c) \subseteq After(transcript, c)  BY <3>3 DEF After
      <4> QED  BY <4>2, <4>3, FS_Subset
    <3>5. Exact(k)'  BY <2>1, <3>1, <3>3, <3>4 DEF Exact, After
    <3> QED  BY <3>1, <3>5
  <2> QED  BY <2>2, <2>3
<1>6. CASE Phase
  <2>1. /\ op.key \in Keys /\ mine \in Row /\ row \in [Keys -> Row] /\ mine = row[op.key]
        /\ op \in [key : Keys, pc : Step, reply : {"none", "ok", "error", "timeout"}]
        /\ OpenRow(op.key) /\ \A k \in Keys : OpenRow(k) => k = op.key
    BY <1>6, PhaseRows, KeptPhaseFacts
  <2>2. /\ \A k \in Keys \ {op.key} : row'[k] = row[k]
        /\ row'[op.key].ckpt = mine.ckpt /\ row'[op.key].turns = mine.turns
        /\ row'[op.key].anchor = mine.anchor \/ op'.pc = "restore"
        /\ op.pc = "settle" \/ row'[op.key].outcome \in Open
        /\ UNCHANGED deleted
    BY <1>6, PhaseRows
  <2>3. NoLoss
    BY <2>1, <2>2 DEF NoLoss, OpenRow, Open
  <2>4. Exact(op.key)  BY <2>1, <2>2, <2>3 DEF ExactInv
  <2>5. \A k \in Keys : OpenRow(k)' => k = op.key
    BY <2>1, <2>2 DEF OpenRow
  <2>6. op.pc # "settle" => ~Calm'
    BY <2>1, <2>2 DEF Calm
  <2> DEFINE ExactNext ==
               /\ \A t \in memory' : t <= mine.ckpt => t \in transcript'
               /\ \A prefix \in row'[op.key].anchor : \A t \in prefix : t <= mine.ckpt /\ t \in transcript'
               /\ row'[op.key].anchor = {} => Cardinality(After(memory', mine.ckpt)) <= mine.turns
               /\ row'[op.key].provider \in {"completed", "skipped_no_turns"} => After(memory', mine.ckpt) = {}
  <2>7. ASSUME op.pc # "settle", ExactNext
        PROVE  /\ Calm' => memory' \subseteq transcript'
               /\ \A k \in Keys : OpenRow(k)' => Exact(k)'
    <3>1. ASSUME NEW k \in Keys, OpenRow(k)'
          PROVE  Exact(k)'
      <4>1. k = op.key  BY <2>5, <3>1
      <4> QED  BY <2>2, <2>7, <4>1 DEF Exact, After
    <3> QED  BY <2>6, <2>7, <3>1
  <2>8. CASE Settle
    <3>1. UNCHANGED <<transcript, memory>> /\ op.pc = "settle" /\ row'[op.key].outcome = Verdict
      BY <2>1, <2>8 DEF Settle, Write, thread, At, Row
    <3>2. mine.provider \notin {"ambiguous", "failed", "pending"}
      BY <2>1, <3>1 DEF NoLoss, Verdict, ProgressInv
    <3>3. After(memory, mine.ckpt) = {}
      BY <2>1, <2>4, <3>2 DEF Row, Exact
    <3>4. memory \subseteq transcript
      <4> SUFFICES ASSUME NEW t \in memory
                   PROVE  t \in transcript
        OBVIOUS
      <4>1. t \in Nat /\ mine.ckpt \in Nat  BY <2>1, TurnAssumption DEF TypeOK, Turns, Row
      <4>2. t <= mine.ckpt  BY <3>3, <4>1 DEF After
      <4> QED  BY <2>1, <2>4, <4>2 DEF Exact
    <3>5. row'[op.key].outcome \notin Open  BY <3>1 DEF Verdict, Open
    <3>6. \A k \in Keys : ~OpenRow(k)'  BY <2>5, <3>5 DEF OpenRow
    <3> QED  BY <3>1, <3>4, <3>6
  <2>9. CASE AnchorCreated
    <3>1. /\ row'[op.key].anchor = {memory \ Newest(memory, mine.turns)}
          /\ row'[op.key].provider = mine.provider
          /\ UNCHANGED <<transcript, memory>> /\ op.pc = "plan"
      BY <2>1, <2>9 DEF AnchorCreated, Write, thread, At, Row
    <3>2. \A t \in memory \ Newest(memory, mine.turns) : t <= mine.ckpt /\ t \in transcript
      BY <2>4, <2>9, ExactAnchor
    <3>3. ExactNext  BY <2>1, <2>4, <3>1, <3>2 DEF Exact, After
    <3> HIDE DEF ExactNext
    <3> QED  BY <2>7, <3>1, <3>3
  <2>10. CASE Restore
    <3>1. /\ row' = row /\ UNCHANGED transcript /\ op.pc = "restore"
          /\ memory' = memory \/ memory' \in mine.anchor
      BY <2>10 DEF Restore, Reply, thread, At
    <3>2. CASE memory' = memory
      <4>1. ExactNext  BY <2>1, <2>4, <3>1, <3>2 DEF Exact, After
      <4> HIDE DEF ExactNext
      <4> QED  BY <2>7, <3>1, <4>1
    <3>3. CASE memory' \in mine.anchor
      <4>1. \A t \in memory' : t <= mine.ckpt /\ t \in transcript
        BY <2>1, <2>4, <3>3 DEF Exact
      <4>2. mine.anchor \subseteq SUBSET Turns /\ mine.ckpt \in Nat
        BY <2>1, TurnAssumption DEF Row
      <4>3. After(memory', mine.ckpt) = {}
        <5> SUFFICES ASSUME NEW t \in memory', t > mine.ckpt
                     PROVE  FALSE
          BY DEF After
        <5>1. t \in Nat  BY <3>3, <4>2, TurnAssumption DEF Turns
        <5> QED  BY <4>1, <4>2, <5>1
      <4>4. mine.anchor # {}  BY <3>3
      <4>5. ExactNext  BY <2>1, <2>4, <3>1, <4>1, <4>3, <4>4 DEF Exact
      <4> HIDE DEF ExactNext
      <4> QED  BY <2>7, <3>1, <4>5
    <3> QED  BY <3>1, <3>2, <3>3
  <2>11. CASE Truncate
    <3>1. /\ row' = row /\ UNCHANGED memory /\ op.pc = "truncate"
          /\ transcript' = transcript \ After(transcript, mine.ckpt)
      BY <2>11 DEF Truncate, At
    <3>2. ASSUME NEW t \in transcript, t <= mine.ckpt
          PROVE  t \in transcript'
      <4>1. t \in Nat /\ mine.ckpt \in Nat  BY <2>1, TurnAssumption DEF TypeOK, Turns, Row
      <4> QED  BY <3>1, <3>2, <4>1 DEF After
    <3>3. ExactNext  BY <2>1, <2>4, <3>1, <3>2 DEF Exact, After
    <3> HIDE DEF ExactNext
    <3> QED  BY <2>7, <3>1, <3>3
  <2>12. ASSUME UNCHANGED <<transcript, memory>>, op.pc # "settle",
                row'[op.key].anchor = mine.anchor,
                row'[op.key].provider \in {"completed", "skipped_no_turns"} =>
                  \/ row'[op.key].provider = mine.provider
                  \/ After(memory, mine.ckpt) = {}
         PROVE  /\ Calm' => memory' \subseteq transcript'
                /\ \A k \in Keys : OpenRow(k)' => Exact(k)'
    <3>1. ExactNext  BY <2>1, <2>4, <2>12 DEF Exact, After
    <3> HIDE DEF ExactNext
    <3> QED  BY <2>7, <2>12, <3>1
  <2>13. CASE SkipProvider
    <3>1. UNCHANGED <<transcript, memory>> /\ op.pc = "plan" /\ row'[op.key].anchor = mine.anchor
      BY <2>1, <2>13 DEF SkipProvider, Write, thread, At, Row
    <3>2. CASE ~ProviderDue
      BY <2>1, <2>12, <2>13, <3>1, <3>2 DEF SkipProvider
    <3>3. CASE ProviderDue
      <4>1. mine.turns = 0  BY <2>13, <3>3 DEF SkipProvider
      <4>2. mine.anchor = {}  BY <2>1, <4>1 DEF ProgressInv
      <4>3. Cardinality(After(memory, mine.ckpt)) <= 0  BY <2>1, <2>4, <4>1, <4>2 DEF Exact
      <4>4. After(memory, mine.ckpt) = {}
        <5>1. IsFiniteSet(Turns)  BY TurnAssumption, FS_Interval DEF Turns
        <5>2. IsFiniteSet(After(memory, mine.ckpt))  BY <5>1, FS_Subset DEF After, TypeOK
        <5>3. Cardinality(After(memory, mine.ckpt)) = 0
          BY <4>3, <5>2, FS_CardinalityType
        <5> QED  BY <5>2, <5>3, FS_EmptySet
      <4> QED  BY <2>12, <3>1, <4>4
    <3> QED  BY <3>2, <3>3
  <2>14. CASE JournalProvider
    <3>1. /\ UNCHANGED <<transcript, memory>> /\ op.pc = "called" /\ row'[op.key].anchor = mine.anchor
          /\ row'[op.key].provider = "completed" \/ row'[op.key].provider \in {"failed", "ambiguous"}
          /\ row'[op.key].provider = "completed" => op.reply = "ok"
      BY <2>1, <2>14 DEF JournalProvider, Failure, Write, thread, At, Row
    <3>2. op.reply = "ok" => After(memory, mine.ckpt) = {}
      <4> SUFFICES ASSUME op.reply = "ok", NEW t \in memory, t > mine.ckpt
                   PROVE  FALSE
        BY DEF After
      <4>1. memory \in mine.anchor  BY <2>1, <3>1 DEF ProgressInv
      <4>2. t <= mine.ckpt  BY <2>1, <2>4, <4>1 DEF Exact
      <4>3. t \in Nat /\ mine.ckpt \in Nat  BY <2>1, TurnAssumption DEF TypeOK, Turns, Row
      <4> QED  BY <4>2, <4>3
    <3> QED  BY <2>12, <3>1, <3>2
  <2>15. CASE AnchorRefused
    <3>1. /\ UNCHANGED <<transcript, memory>> /\ op.pc = "plan" /\ row'[op.key].anchor = mine.anchor
          /\ row'[op.key].provider \in {"failed", "ambiguous"}
      BY <2>1, <2>15 DEF AnchorRefused, Failure, Write, thread, At, Row
    <3> QED  BY <2>12, <3>1
  <2>16. CASE SkipFiles \/ JournalFiles \/ FilesFail \/ JournalTruncate
    <3>1. /\ UNCHANGED <<transcript, memory>> /\ op.pc # "settle" /\ row'[op.key].anchor = mine.anchor
          /\ row'[op.key].provider = mine.provider
      <4>1. CASE SkipFiles  BY <2>1, <4>1 DEF SkipFiles, Write, thread, At, Row
      <4>2. CASE JournalFiles  BY <2>1, <4>2 DEF JournalFiles, Write, thread, At, Row
      <4>3. CASE FilesFail  BY <2>1, <4>3 DEF FilesFail, Write, thread, At, Row
      <4>4. CASE JournalTruncate  BY <2>1, <4>4 DEF JournalTruncate, Write, thread, At, Row
      <4> QED  BY <2>16, <4>1, <4>2, <4>3, <4>4
    <3> QED  BY <2>12, <3>1
  <2>17. CASE AnchorKnown \/ RestoreFiles \/ SkipTruncate
    <3>1. UNCHANGED <<transcript, memory, deleted, row>>
      BY <2>17 DEF AnchorKnown, RestoreFiles, SkipTruncate, thread
    <3> QED  BY <1>0, <3>1
  <2>18. ~AnchorUnsupported /\ ~RollBackConversation  BY <2>1, PhasePc
  <2> QED
    BY <1>6, <2>8, <2>9, <2>10, <2>11, <2>13, <2>14, <2>15, <2>16, <2>17, <2>18 DEF Phase
<1> QED
  BY <1>1, <1>2, <1>3, <1>4, <1>5, <1>6 DEF Next

\* All of it holds at the start, where nothing is open and both sides agree.
LEMMA ExactInit ==
    ASSUME Init
    PROVE  ProgressInv /\ ExactInv
<1>1. \A k \in Keys : ~OpenRow(k)  BY DEF Init, OpenRow, Open, NoRow
<1>2. op.pc = "idle" /\ memory = transcript  BY DEF Init, Idle
<1> QED  BY <1>1, <1>2 DEF ProgressInv, ExactInv

\* A revert that ends as completed, with absolute anchors and a user who waits, has
\* really taken every later turn out of the provider's memory, the files and the
\* transcript, as far as its journal says, through crashes and retries.
THEOREM CompletionIsReal ==
    ASSUME AnchorKind = "absolute", UserWaits
    PROVE  Spec => CompletedMeansReverted
<1> DEFINE Real == \A k \in Keys :
                     /\ row[k].outcome # "completed" /\ row'[k].outcome = "completed"
                     /\ NoPriorLoss(k) /\ ~deleted
                     => /\ row[k].provider = "completed" => After(memory', row[k].ckpt) = {}
                        /\ row[k].files = "completed" => worktree' <= row[k].ckpt
                        /\ After(transcript', row[k].ckpt) = {}
<1>1. TypeOK /\ JournalInv /\ KeptInv /\ ProgressInv /\ ExactInv /\ [Next]_vars => [Real]_vars
  <2> SUFFICES ASSUME TypeOK, JournalInv, KeptInv, ProgressInv, ExactInv, Next,
                      NEW k \in Keys, row[k].outcome # "completed", row'[k].outcome = "completed",
                      NoPriorLoss(k), ~deleted
               PROVE  /\ row[k].provider = "completed" => After(memory', row[k].ckpt) = {}
                      /\ row[k].files = "completed" => worktree' <= row[k].ckpt
                      /\ After(transcript', row[k].ckpt) = {}
    OBVIOUS
  <2>1. Settle /\ k = op.key
    <3>1. ~NewTurn /\ ~DeleteThread /\ ~Crash
      BY DEF NewTurn, DeleteThread, Crash
    <3>2. ASSUME NEW j \in Keys, NEW c \in Turns, StartRevert(j, c)
          PROVE  FALSE
      BY <3>2, ClaimRows
    <3>3. Phase  BY <3>1, <3>2 DEF Next
    <3>4. /\ op.pc \in Step /\ \A j \in Keys \ {op.key} : row'[j] = row[j]
          /\ op.pc = "settle" \/ row'[op.key].outcome \in Open
      BY <3>3, PhaseRows
    <3>5. k = op.key /\ op.pc = "settle"  BY <3>4 DEF Open
    <3> QED
      BY <3>3, <3>5 DEF Phase, SkipProvider, AnchorCreated, AnchorRefused, AnchorKnown, AnchorUnsupported,
         Restore, RollBackConversation, JournalProvider, SkipFiles, RestoreFiles,
         JournalFiles, FilesFail, SkipTruncate, Truncate, JournalTruncate, At
  <2>2. UNCHANGED <<transcript, memory, worktree>> /\ op.pc = "settle"
    BY <2>1 DEF Settle, thread, At
  <2>3. OpenRow(k)  BY <2>1, <2>2, KeptPhaseFacts DEF Step
  <2>4. NoLoss  BY <2>3 DEF NoLoss, NoPriorLoss, OpenRow, Open
  <2>5. Exact(k)  BY <2>3, <2>4 DEF ExactInv
  <2>6. row[k].provider = "completed" => After(memory', row[k].ckpt) = {}
    BY <2>2, <2>5 DEF Exact
  <2>7. row[k].files = "completed" => worktree' <= row[k].ckpt
    BY <2>2, <2>3 DEF ProgressInv
  <2>8. After(transcript', row[k].ckpt) = {}
    BY <2>1, <2>2 DEF KeptInv
  <2> QED  BY <2>6, <2>7, <2>8
<1>2. Init => KeptInv /\ ProgressInv /\ ExactInv  BY KeptInit, ExactInit
<1>3. TypeOK /\ JournalInv /\ KeptInv /\ [Next]_vars => KeptInv'  BY KeptStep
<1>4. TypeOK /\ JournalInv /\ KeptInv /\ ProgressInv /\ [Next]_vars => ProgressInv'
  BY ProgressStep
<1>5. TypeOK /\ JournalInv /\ KeptInv /\ ProgressInv /\ ExactInv /\ [Next]_vars => ExactInv'
  BY ExactStep
<1> QED
  BY <1>1, <1>2, <1>3, <1>4, <1>5, TypeCorrect, JournalCorrect, PTL DEF Spec, CompletedMeansReverted, Real
=============================================================================

------------------------ MODULE RootPromotionProofs -------------------------
(***************************************************************************)
(* Proofs about RootPromotion: for any number of activation commands,      *)
(* deaths and failed writes, a desktop serves the promotion of its plain   *)
(* profile, a served root keeps its keys, the activation record describes  *)
(* them, and the files implement OneRoot.                                  *)
(***************************************************************************)
EXTENDS RootPromotion, TLAPS

(***************************************************************************)
(* The inductive invariant: what the root is while a process is at a step. *)
(* The lease makes it local: only its holder changes the root, and every   *)
(* other process is at a step that says nothing about it.                  *)
(***************************************************************************)

\* The root's files among themselves.
Files ==
    /\ ~root.dir => root.manifest = "none" /\ root.data = "none" /\ root.receipt = "none"
    /\ root.dirty => Activated /\ root.data # "none"
    /\ Running("promotion") => root.data = "plain"

\* What holds while the desktop, a server or an activation command is at step s.
DesktopAt(s) ==
    /\ s \in {"off", "open", "serving", "mkdir", "manifest", "stage", "settle", "finalize"} \cup Custody
    /\ s \in {"mkdir", "manifest"} => ~world.plain
    /\ s \in {"mkdir", "manifest", "stage"} => root.manifest = "none"
    /\ s \in {"manifest"} => root.dir
    /\ s \in {"settle", "finalize"} \cup Custody => root.data = "plain"
    /\ s \in {"settle", "state", "flip"} => ~root.dirty
    /\ s \in {"finalize", "receipt", "record", "complete", "open", "serving"} => Activated
    /\ s \in {"complete"} => root.record # NoRecord
    /\ s \in {"open", "serving"} /\ world.plain => root.data = "plain" /\ root.record # NoRecord
ServerAt(s) ==
    /\ s \in {"off", "mkdir", "manifest", "key", "state", "open", "serving"}
    /\ s \in {"mkdir", "manifest"} => root.manifest = "none"
    /\ s \in {"manifest"} => root.dir
    /\ s \in {"key", "state", "open", "serving"} => Activated
    /\ s \in {"state"} => ~root.dirty
CliAt(s) ==
    /\ s \in Outside \cup {"begin", "archivedir", "archive", "key"} \cup Custody
    /\ s \notin Outside => root.dir
    /\ s \in {"begin", "archivedir", "archive", "key", "state", "flip"} => ~root.dirty

Holds(p, s) ==
    CASE p = "desktop" -> DesktopAt(s)
      [] p = "server" -> ServerAt(s)
      [] OTHER -> CliAt(s)

Inv == TypeOK /\ Files /\ \A p \in Procs : Holds(p, pc[p])

\* The part of Inv that moving a process can disturb.
Placed == LeaseOK /\ \A p \in Procs : Holds(p, pc[p])

-----------------------------------------------------------------------------
\* The initial state.
LEMMA InvInit == Init => Inv
BY ClisAssumption DEF Init, Inv, TypeOK, WorldOK, RootOK, LeaseOK, BooksOK, Files, Holds, DesktopAt,
   ServerAt, CliAt, Procs, NoRoot, Idle, NoOperation, NoRecord, NoState, NoPlan, Running, Activated, Outside, Inside, Custody,
   Plans, Operations, Outcomes, Fingerprints

\* A process without the lease claims nothing of the root.
LEMMA OutsideHolds ==
    ASSUME NEW p \in Procs, NEW s \in Outside, Holds(p, s)
    PROVE  Holds(p, s)'
BY DEF Holds, DesktopAt, ServerAt, CliAt, Outside, Custody

\* The holder goes on to another step.
LEMMA Moves ==
    ASSUME Inv, NEW p \in Procs, lease = p, NEW s \in Inside, Go(p, s), UNCHANGED lease, Holds(p, s)'
    PROVE  Placed'
<1>1. LeaseOK'
  BY DEF Inv, TypeOK, LeaseOK, Go, Outside, Inside, Custody
<1>2. ASSUME NEW q \in Procs, q # p PROVE Holds(q, pc[q])'
  <2>1. pc'[q] = pc[q] /\ pc[q] \in Outside
    BY <1>2 DEF Inv, TypeOK, LeaseOK, Go
  <2> QED BY <1>2, <2>1, OutsideHolds DEF Inv
<1>3. pc'[p] = s
  BY DEF Inv, TypeOK, LeaseOK, Go
<1> QED BY <1>1, <1>2, <1>3 DEF Placed

\* A process takes the free lease.
LEMMA Takes ==
    ASSUME Inv, NEW p \in Procs, lease = "none", lease' = p, NEW s \in Inside, Go(p, s), Holds(p, s)'
    PROVE  Placed'
<1>0. p # "none" BY ClisAssumption DEF Procs
<1>1. LeaseOK'
  BY <1>0, ClisAssumption DEF Inv, TypeOK, LeaseOK, Go, Outside, Inside, Custody, Procs
<1>2. ASSUME NEW q \in Procs, q # p PROVE Holds(q, pc[q])'
  <2>0. q # "none" BY ClisAssumption DEF Procs
  <2>1. pc'[q] = pc[q] /\ pc[q] \in Outside
    BY <1>2, <2>0 DEF Inv, TypeOK, LeaseOK, Go
  <2> QED BY <1>2, <2>1, OutsideHolds DEF Inv
<1>3. pc'[p] = s
  BY DEF Inv, TypeOK, LeaseOK, Go
<1> QED BY <1>1, <1>2, <1>3 DEF Placed

\* A process moves without the lease, and the root stands.
LEMMA Waits ==
    ASSUME Inv, NEW p \in Procs, lease # p, NEW s \in Outside, Go(p, s), Holds(p, s),
           UNCHANGED <<world, root, lease>>
    PROVE  Placed'
<1>1. LeaseOK'
  BY DEF Inv, TypeOK, LeaseOK, Go
<1>2. ASSUME NEW q \in Procs, q # p PROVE Holds(q, pc[q])'
  <2>1. pc'[q] = pc[q]
    BY <1>2 DEF Inv, TypeOK, LeaseOK, Go
  <2> QED BY <1>2, <2>1 DEF Inv, Holds, DesktopAt, ServerAt, CliAt, Activated
<1>3. pc'[p] = s
  BY DEF Inv, TypeOK, LeaseOK, Go
<1> QED BY <1>1, <1>2, <1>3, OutsideHolds DEF Placed

\* A process ends or gives up.
LEMMA Leaves ==
    ASSUME Inv, NEW p \in Procs, Leave(p), UNCHANGED <<world, root>>
    PROVE  Placed'
<1>0. "none" \notin Procs BY ClisAssumption DEF Procs
<1>1. LeaseOK'
  BY <1>0 DEF Inv, TypeOK, LeaseOK, Leave, Outside
<1>2. ASSUME NEW q \in Procs, q # p PROVE Holds(q, pc[q])'
  <2>1. pc'[q] = pc[q]
    BY <1>2 DEF Inv, TypeOK, LeaseOK, Leave
  <2> QED BY <1>2, <2>1 DEF Inv, Holds, DesktopAt, ServerAt, CliAt, Activated
<1>3. pc'[p] = "off"
  BY DEF Inv, TypeOK, LeaseOK, Leave
<1>4. Holds(p, "off")'
  BY DEF Holds, DesktopAt, ServerAt, CliAt, Outside, Custody
<1> QED BY <1>1, <1>2, <1>3, <1>4 DEF Placed

\* Nobody moves; what the holder relies on still holds.
LEMMA Stands ==
    ASSUME Inv, UNCHANGED <<pc, lease>>, lease \in Procs => Holds(lease, pc[lease])'
    PROVE  Placed'
<1>1. LeaseOK'
  BY DEF Inv, TypeOK, LeaseOK
<1>2. ASSUME NEW q \in Procs, q # lease PROVE Holds(q, pc[q])'
  <2>1. pc'[q] = pc[q] /\ pc[q] \in Outside
    BY <1>2 DEF Inv, TypeOK, LeaseOK
  <2> QED BY <1>2, <2>1, OutsideHolds DEF Inv
<1> QED BY <1>1, <1>2 DEF Placed

-----------------------------------------------------------------------------
\* One lemma per action: it keeps the invariant.
LEMMA LeaveBooks ==
    ASSUME Inv, NEW p \in Procs, Leave(p), UNCHANGED journal
    PROVE  BooksOK'
BY DEF Inv, TypeOK, BooksOK, Leave, Idle, NoPlan, Plans, Outcomes, Fingerprints

LEMMA MakeRootDirectoryKeeps == ASSUME Inv, NEW p \in Procs, MakeRootDirectory(p) PROVE Inv'
<1> DEFINE s == "manifest"
<1>1. WorldOK' /\ RootOK' /\ BooksOK'
  BY DEF Inv, TypeOK, MakeRootDirectory, WorldOK, RootOK, BooksOK
<1>2. Holds(p, pc[p])
  BY DEF Inv
<1>3. Files'
  BY <1>2 DEF Inv, TypeOK, MakeRootDirectory, RootOK, Files, Running, Activated, Holds, DesktopAt, ServerAt, CliAt, Outside, Custody
<1>4. Holds(p, s)'
  BY <1>2 DEF Inv, TypeOK, MakeRootDirectory, WorldOK, RootOK, Activated, Holds, DesktopAt, ServerAt, CliAt, Outside, Custody
<1>5. lease = p /\ s \in Inside /\ Go(p, s) /\ UNCHANGED lease
  BY DEF Inv, TypeOK, LeaseOK, MakeRootDirectory, Outside, Inside, Custody
<1>6. Placed'
  BY <1>4, <1>5, Moves
<1> QED BY <1>1, <1>3, <1>6 DEF Inv, TypeOK, Placed

LEMMA WriteEmptyManifestKeeps == ASSUME Inv, NEW p \in Procs, WriteEmptyManifest(p) PROVE Inv'
<1> DEFINE s == IF p = "desktop" THEN "open" ELSE "key"
<1>1. WorldOK' /\ RootOK' /\ BooksOK'
  BY DEF Inv, TypeOK, WriteEmptyManifest, WorldOK, RootOK, BooksOK
<1>2. Holds(p, pc[p])
  BY DEF Inv
<1>3. Files'
  BY <1>2 DEF Inv, TypeOK, WriteEmptyManifest, RootOK, Files, Running, Activated, Holds, DesktopAt, ServerAt, CliAt, Outside, Custody
<1>4. Holds(p, s)'
  BY <1>2 DEF Inv, TypeOK, WriteEmptyManifest, WorldOK, RootOK, Activated, Holds, DesktopAt, ServerAt, CliAt, Outside, Custody
<1>5. lease = p /\ s \in Inside /\ Go(p, s) /\ UNCHANGED lease
  BY DEF Inv, TypeOK, LeaseOK, WriteEmptyManifest, Outside, Inside, Custody
<1>6. Placed'
  BY <1>4, <1>5, Moves
<1> QED BY <1>1, <1>3, <1>6 DEF Inv, TypeOK, Placed

LEMMA WriteCredentialStateKeeps == ASSUME Inv, NEW p \in Procs, WriteCredentialState(p) PROVE Inv'
<1> DEFINE s == IF p = "server" THEN "open" ELSE "flip"
<1>1. WorldOK' /\ RootOK' /\ BooksOK'
  BY DEF Inv, TypeOK, WriteCredentialState, WorldOK, RootOK, BooksOK, StateOf, ModeOf, Plans, Fingerprints
<1>2. Holds(p, pc[p])
  BY DEF Inv
<1>3. Files'
  BY <1>2 DEF Inv, TypeOK, WriteCredentialState, RootOK, Files, Running, Activated, Holds, DesktopAt, ServerAt, CliAt, Outside, Custody
<1>4. Holds(p, s)'
  BY <1>2 DEF Inv, TypeOK, WriteCredentialState, WorldOK, RootOK, Activated, Holds, DesktopAt, ServerAt, CliAt, Outside, Custody, StateOf, ModeOf, Plans, Fingerprints
<1>5. lease = p /\ s \in Inside /\ Go(p, s) /\ UNCHANGED lease
  BY DEF Inv, TypeOK, LeaseOK, WriteCredentialState, Outside, Inside, Custody
<1>6. Placed'
  BY <1>4, <1>5, Moves
<1> QED BY <1>1, <1>3, <1>6 DEF Inv, TypeOK, Placed

LEMMA FlipManifestKeeps == ASSUME Inv, NEW p \in Procs, FlipManifest(p) PROVE Inv'
<1> DEFINE s == "receipt"
<1>1. WorldOK' /\ RootOK' /\ BooksOK'
  BY DEF Inv, TypeOK, FlipManifest, WorldOK, RootOK, BooksOK
<1>2. Holds(p, pc[p])
  BY DEF Inv
<1>3. Files'
  BY <1>2 DEF Inv, TypeOK, FlipManifest, RootOK, Files, Running, Activated, Holds, DesktopAt, ServerAt, CliAt, Outside, Custody
<1>4. Holds(p, s)'
  BY <1>2 DEF Inv, TypeOK, FlipManifest, WorldOK, RootOK, Activated, Holds, DesktopAt, ServerAt, CliAt, Outside, Custody
<1>5. lease = p /\ s \in Inside /\ Go(p, s) /\ UNCHANGED lease
  BY DEF Inv, TypeOK, LeaseOK, FlipManifest, Outside, Inside, Custody
<1>6. Placed'
  BY <1>4, <1>5, Moves
<1> QED BY <1>1, <1>3, <1>6 DEF Inv, TypeOK, Placed

LEMMA ArchiveReceiptKeeps == ASSUME Inv, NEW p \in Procs, ArchiveReceipt(p) PROVE Inv'
<1> DEFINE s == "record"
<1>1. WorldOK' /\ RootOK' /\ BooksOK'
  BY DEF Inv, TypeOK, ArchiveReceipt, WorldOK, RootOK, BooksOK
<1>2. Holds(p, pc[p])
  BY DEF Inv
<1>3. Files'
  BY <1>2 DEF Inv, TypeOK, ArchiveReceipt, RootOK, Files, Running, Activated, Holds, DesktopAt, ServerAt, CliAt, Outside, Custody
<1>4. Holds(p, s)'
  BY <1>2 DEF Inv, TypeOK, ArchiveReceipt, WorldOK, RootOK, Activated, Holds, DesktopAt, ServerAt, CliAt, Outside, Custody
<1>5. lease = p /\ s \in Inside /\ Go(p, s) /\ UNCHANGED lease
  BY DEF Inv, TypeOK, LeaseOK, ArchiveReceipt, Outside, Inside, Custody
<1>6. Placed'
  BY <1>4, <1>5, Moves
<1> QED BY <1>1, <1>3, <1>6 DEF Inv, TypeOK, Placed

LEMMA WriteActivationRecordKeeps == ASSUME Inv, NEW p \in Procs, WriteActivationRecord(p) PROVE Inv'
<1> DEFINE s == "complete"
<1>1. WorldOK' /\ RootOK' /\ BooksOK'
  BY DEF Inv, TypeOK, WriteActivationRecord, WorldOK, RootOK, BooksOK, OperationOf, Plans, NoRecord
<1>2. Holds(p, pc[p])
  BY DEF Inv
<1>3. Files'
  BY <1>2 DEF Inv, TypeOK, WriteActivationRecord, RootOK, Files, Running, Activated, Holds, DesktopAt, ServerAt, CliAt, Outside, Custody
<1>4. Holds(p, s)'
  BY <1>2 DEF Inv, TypeOK, WriteActivationRecord, WorldOK, RootOK, Activated, Holds, DesktopAt, ServerAt, CliAt, Outside, Custody, OperationOf, Plans, NoRecord
<1>5. lease = p /\ s \in Inside /\ Go(p, s) /\ UNCHANGED lease
  BY DEF Inv, TypeOK, LeaseOK, WriteActivationRecord, Outside, Inside, Custody
<1>6. Placed'
  BY <1>4, <1>5, Moves
<1> QED BY <1>1, <1>3, <1>6 DEF Inv, TypeOK, Placed

LEMMA OpenRootKeeps == ASSUME Inv, NEW p \in Procs, OpenRoot(p) PROVE Inv'
<1> DEFINE s == "serving"
<1> DEFINE d == IF root.data = "none" THEN "fresh" ELSE root.data
           k == IF p = "desktop" /\ desk.healthy /\ root.safe = "none" THEN "new" ELSE root.safe
<1>0. /\ root' = [root EXCEPT !.dirty = TRUE, !.data = d, !.safe = k]
      /\ d \in {"fresh", "plain", "backup"} /\ k \in Fingerprints
  BY DEF Inv, TypeOK, OpenRoot, RootOK, Fingerprints
<1>1. WorldOK' /\ RootOK' /\ BooksOK'
  <2>1. WorldOK' /\ BooksOK'
    BY DEF Inv, TypeOK, OpenRoot, WorldOK, BooksOK
  <2>2. RootOK'
    <3> HIDE DEF d, k
    <3> QED BY <1>0 DEF Inv, TypeOK, RootOK
  <2> QED BY <2>1, <2>2
<1>2. Holds(p, pc[p])
  BY DEF Inv
<1>3. Files'
  BY <1>2 DEF Inv, TypeOK, OpenRoot, RootOK, Files, Running, Activated, Holds, DesktopAt, ServerAt, CliAt, Outside, Custody
<1>4. Holds(p, s)'
  BY <1>2 DEF Inv, TypeOK, OpenRoot, WorldOK, RootOK, Activated, Holds, DesktopAt, ServerAt, CliAt, Outside, Custody, Fingerprints
<1>5. lease = p /\ s \in Inside /\ Go(p, s) /\ UNCHANGED lease
  BY DEF Inv, TypeOK, LeaseOK, OpenRoot, Outside, Inside, Custody
<1>6. Placed'
  BY <1>4, <1>5, Moves
<1> QED BY <1>1, <1>3, <1>6 DEF Inv, TypeOK, Placed

LEMMA MakeArchiveKeeps == ASSUME Inv, NEW p \in Procs, MakeArchive(p) PROVE Inv'
<1> DEFINE s == "archive"
<1>1. WorldOK' /\ RootOK' /\ BooksOK'
  BY DEF Inv, TypeOK, MakeArchive, WorldOK, RootOK, BooksOK
<1>2. Holds(p, pc[p])
  BY DEF Inv
<1>3. Files'
  BY <1>2 DEF Inv, TypeOK, MakeArchive, RootOK, Files, Running, Activated, Holds, DesktopAt, ServerAt, CliAt, Outside, Custody
<1>4. Holds(p, s)'
  BY <1>2 DEF Inv, TypeOK, MakeArchive, WorldOK, RootOK, Activated, Holds, DesktopAt, ServerAt, CliAt, Outside, Custody
<1>5. lease = p /\ s \in Inside /\ Go(p, s) /\ UNCHANGED lease
  BY DEF Inv, TypeOK, LeaseOK, MakeArchive, Outside, Inside, Custody
<1>6. Placed'
  BY <1>4, <1>5, Moves
<1> QED BY <1>1, <1>3, <1>6 DEF Inv, TypeOK, Placed

LEMMA ArchiveKeyKeeps == ASSUME Inv, NEW p \in Procs, ArchiveKey(p) PROVE Inv'
<1> DEFINE s == "key"
<1>0. root.safe \in {"none", "dir", "old", "new"} /\ "none" \in Fingerprints
  BY DEF Inv, TypeOK, RootOK, Fingerprints
<1>1. WorldOK' /\ RootOK' /\ BooksOK'
  BY <1>0 DEF Inv, TypeOK, ArchiveKey, WorldOK, RootOK, BooksOK
<1>2. Holds(p, pc[p])
  BY DEF Inv
<1>3. Files'
  BY <1>2 DEF Inv, TypeOK, ArchiveKey, RootOK, Files, Running, Activated, Holds, DesktopAt, ServerAt, CliAt, Outside, Custody
<1>4. Holds(p, s)'
  BY <1>2 DEF Inv, TypeOK, ArchiveKey, WorldOK, RootOK, Activated, Holds, DesktopAt, ServerAt, CliAt, Outside, Custody, Fingerprints
<1>5. lease = p /\ s \in Inside /\ Go(p, s) /\ UNCHANGED lease
  BY DEF Inv, TypeOK, LeaseOK, ArchiveKey, Outside, Inside, Custody
<1>6. Placed'
  BY <1>4, <1>5, Moves
<1> QED BY <1>1, <1>3, <1>6 DEF Inv, TypeOK, Placed

LEMMA WriteKeyKeeps == ASSUME Inv, NEW p \in Procs, WriteKey(p) PROVE Inv'
<1> DEFINE s == "state"
<1>1. WorldOK' /\ RootOK' /\ BooksOK'
  BY DEF Inv, TypeOK, WriteKey, WorldOK, RootOK, BooksOK, Plans
<1>2. Holds(p, pc[p])
  BY DEF Inv
<1>3. Files'
  BY <1>2 DEF Inv, TypeOK, WriteKey, RootOK, Files, Running, Activated, Holds, DesktopAt, ServerAt, CliAt, Outside, Custody
<1>4. Holds(p, s)'
  BY <1>2, ClisAssumption DEF Inv, TypeOK, WriteKey, WorldOK, RootOK, Activated, Holds, DesktopAt, ServerAt, CliAt, Outside, Custody, Plans
<1>5. lease = p /\ s \in Inside /\ Go(p, s) /\ UNCHANGED lease
  BY DEF Inv, TypeOK, LeaseOK, WriteKey, Outside, Inside, Custody
<1>6. Placed'
  BY <1>4, <1>5, Moves
<1> QED BY <1>1, <1>3, <1>6 DEF Inv, TypeOK, Placed

\* Actions that end with the process leaving, or may.
LEMMA Left ==
    ASSUME Inv, NEW p \in Procs, Leave(p), UNCHANGED <<world, root>>, BooksOK',
           Running("promotion")' => Running("promotion")
    PROVE  Inv'
<1>1. WorldOK' /\ RootOK' /\ Files'
  BY DEF Inv, TypeOK, WorldOK, RootOK, Files, Activated
<1> QED BY <1>1, Leaves DEF Inv, TypeOK, Placed

LEMMA MarkBooks ==
    ASSUME Inv, NEW o \in {"promotion", "activation"}, NEW f \in {"failed", "completed"}, Mark(o, f)
    PROVE  /\ journal' \in [promotion : Operations, activation : Operations]
           /\ Running("promotion")' => Running("promotion")
BY DEF Inv, TypeOK, BooksOK, Mark, Operations, Running

LEMMA LeaveShapes ==
    ASSUME Inv, NEW p \in Procs, Leave(p), journal' \in [promotion : Operations, activation : Operations]
    PROVE  BooksOK'
BY DEF Inv, TypeOK, BooksOK, Leave, Idle, NoPlan, Plans, Outcomes, Fingerprints

LEMMA CompleteKeeps == ASSUME Inv, NEW p \in Procs, Complete(p) PROVE Inv'
<1>1. OperationOf(p) \in {"promotion", "activation"}
  BY DEF OperationOf
<1>2. /\ journal' \in [promotion : Operations, activation : Operations]
      /\ Running("promotion")' => Running("promotion")
  BY <1>1, MarkBooks DEF Complete
<1>3. CASE p = "desktop"
  <2>1. WorldOK' /\ RootOK' /\ BooksOK'
    BY <1>2, <1>3 DEF Inv, TypeOK, Complete, WorldOK, RootOK, BooksOK, NoPlan, Plans, Outcomes, Fingerprints
  <2>2. Files'
    BY <1>2, <1>3 DEF Inv, Complete, Files, Activated
  <2>3. Holds(p, "open")'
    <3>1. Holds(p, pc[p])
      BY DEF Inv
    <3> QED BY <1>3, <3>1 DEF Complete, Holds, DesktopAt, Activated, Custody
  <2>4. lease = p /\ Go(p, "open") /\ UNCHANGED lease
    BY <1>3 DEF Inv, TypeOK, LeaseOK, Complete, Outside
  <2>5. Placed'
    BY <2>3, <2>4, Moves DEF Inside
  <2> QED BY <2>1, <2>2, <2>5 DEF Inv, TypeOK, Placed
<1>4. CASE p # "desktop"
  BY <1>2, <1>4, LeaveShapes, Left DEF Complete
<1> QED BY <1>3, <1>4

LEMMA QuitKeeps == ASSUME Inv, NEW p \in Procs, Quit(p) PROVE Inv'
BY LeaveBooks, Left DEF Quit, Running

LEMMA DiesKeeps == ASSUME Inv, NEW p \in Procs, Dies(p) PROVE Inv'
BY LeaveBooks, Left DEF Dies, Running

LEMMA CustodyFailsKeeps == ASSUME Inv, NEW p \in Procs, CustodyFails(p) PROVE Inv'
<1>1. OperationOf(p) \in {"promotion", "activation"}
  BY DEF OperationOf
<1>2. /\ journal' \in [promotion : Operations, activation : Operations]
      /\ Running("promotion")' => Running("promotion")
  BY <1>1, MarkBooks DEF CustodyFails
<1> QED BY <1>2, LeaveShapes, Left DEF CustodyFails

LEMMA LaunchKeeps == ASSUME Inv, NEW h \in BOOLEAN, Launch(h) PROVE Inv'
<1> DEFINE s == CASE Decision = "fresh" -> "mkdir"
                  [] Decision = "ready" -> "open"
                  [] Decision = "required" -> "stage"
                  [] OTHER -> IF Activated THEN "finalize" ELSE "settle"
<1>1. WorldOK' /\ RootOK' /\ BooksOK' /\ Files'
  <2>1. desk' \in [healthy : BOOLEAN, tried : BOOLEAN]
    BY DEF Launch, Idle
  <2> QED BY <2>1 DEF Inv, TypeOK, Launch, WorldOK, RootOK, BooksOK, Files, Running, Activated
<1>2. root.manifest \in {"none", "empty", "required", "ready"} /\ Files
  BY DEF Inv, TypeOK, RootOK
<1>3. Decision \in {"fresh", "ready", "required", "resumable"}
  BY DEF Launch, Decision
<1>4. PICK t : t = s
  OBVIOUS
<1>5. Holds("desktop", t)' /\ t \in Inside
  <2>1. CASE Decision = "fresh"
    BY <1>2, <1>4, <2>1 DEF Launch, Decision, Holds, DesktopAt, Activated, Custody, Inside
  <2>2. CASE Decision = "ready"
    <3>1. /\ root.manifest \in {"empty", "ready"}
          /\ world.plain => root.data = "plain" /\ root.record # NoRecord
      BY <1>2, <2>2 DEF Decision
    <3>2. t = "open" /\ UNCHANGED <<world, root>>
      BY <1>4, <2>2 DEF Launch
    <3> QED BY <3>1, <3>2 DEF Holds, DesktopAt, Activated, Custody, Inside
  <2>3. CASE Decision = "required"
    BY <1>2, <1>4, <2>3 DEF Launch, Decision, Holds, DesktopAt, Activated, Custody, Inside
  <2>4. CASE Decision = "resumable"
    BY <1>2, <1>4, <2>4 DEF Launch, Decision, Holds, DesktopAt, Activated, Custody, Inside, Files
  <2> QED BY <1>3, <2>1, <2>2, <2>3, <2>4
<1>6. lease = "none" /\ lease' = "desktop" /\ Go("desktop", t) /\ "desktop" \in Procs
  BY <1>4 DEF Launch, Procs
<1>7. Placed'
  BY <1>5, <1>6, Takes
<1> QED BY <1>1, <1>7 DEF Inv, TypeOK, Placed

\* A staged copy is a root.
LEMMA StagedShape ==
    ASSUME NEW source \in {"plain", "backup"}, NEW key, root' = Staged(source, key)
    PROVE  RootOK'
<1> DEFINE safe == IF key = "safe" THEN "old" ELSE "none"
           headless == IF key = "headless" THEN "old" ELSE "none"
<1>1. root' = [dir |-> TRUE, manifest |-> "required", data |-> source, dirty |-> FALSE,
               receipt |-> "staged", record |-> NoRecord, state |-> NoState,
               safe |-> safe, headless |-> headless, archive |-> "none"]
  BY DEF Staged, NoRoot
<1>2. safe \in Fingerprints /\ headless \in Fingerprints
  BY DEF Fingerprints
<1>3. /\ NoRecord \in [by : {"none", "promotion", "activation"}, outcome : Outcomes]
      /\ NoState \in [mode : {"none", "os-sealed", "session-only", "headless-file"}, print : Fingerprints]
  BY DEF NoRecord, NoState, Outcomes, Fingerprints
<1> HIDE DEF safe, headless
<1> QED BY <1>1, <1>2, <1>3 DEF RootOK

LEMMA StageOwnNamespaceKeeps == ASSUME Inv, StageOwnNamespace PROVE Inv'
<1>0. "desktop" \in Procs
  BY DEF Procs
<1>1. CASE root.dir
  BY <1>0, <1>1, LeaveBooks, Left DEF StageOwnNamespace, Running
<1>2. CASE ~root.dir
  <2>1. WorldOK' /\ RootOK' /\ BooksOK'
    BY <1>2, StagedShape DEF Inv, TypeOK, StageOwnNamespace, WorldOK, RootOK, BooksOK
  <2>2. Files' /\ Holds("desktop", "settle")'
    BY <1>2 DEF Inv, StageOwnNamespace, Staged, NoRoot, Files, Running, Holds, DesktopAt, Custody
  <2>3. lease = "desktop" /\ Go("desktop", "settle") /\ UNCHANGED lease
    BY <1>0, <1>2 DEF Inv, TypeOK, LeaseOK, StageOwnNamespace, Outside
  <2>4. Placed'
    BY <1>0, <2>2, <2>3, Moves DEF Inside
  <2> QED BY <2>1, <2>2, <2>4 DEF Inv, TypeOK, Placed
<1> QED BY <1>1, <1>2

\* A step that leaves the root and everybody's place.
LEMMA Standing ==
    ASSUME Inv, UNCHANGED <<world, root, pc, lease>>, BooksOK', Running("promotion")' => Running("promotion")
    PROVE  Inv'
<1>1. WorldOK' /\ RootOK' /\ Files'
  BY DEF Inv, TypeOK, WorldOK, RootOK, Files, Activated
<1>2. lease \in Procs => Holds(lease, pc[lease])'
  BY DEF Inv, Holds, DesktopAt, ServerAt, CliAt, Activated
<1> QED BY <1>1, <1>2, Stands DEF Inv, TypeOK, Placed

LEMMA SupersedePromotionKeeps == ASSUME Inv, SupersedePromotion PROVE Inv'
<1>0. "desktop" \in Procs
  BY DEF Procs
<1>1. CASE Mark("promotion", "failed") /\ UNCHANGED <<lease, pc, plan, desk, stale>>
  BY <1>1, MarkBooks, Standing DEF SupersedePromotion, Inv, TypeOK, BooksOK
<1>2. CASE Leave("desktop") /\ UNCHANGED journal
  BY <1>0, <1>2, LeaveBooks, Left DEF SupersedePromotion, Running
<1> QED BY <1>1, <1>2 DEF SupersedePromotion

LEMMA BeginPromotionKeeps == ASSUME Inv, BeginPromotion PROVE Inv'
<1>0. "desktop" \in Procs
  BY DEF Procs
<1>1. PromotionPlan(desk.healthy) \in Plans
  BY DEF Inv, TypeOK, RootOK, PromotionPlan, Plans, Outcomes, Fingerprints
<1>2. WorldOK' /\ RootOK' /\ BooksOK'
  <2> DEFINE p == PromotionPlan(desk.healthy)
  <2>1. /\ journal' = [journal EXCEPT !.promotion = [phase |-> "running", plan |-> p]]
        /\ plan' = [plan EXCEPT !["desktop"] = p] /\ desk' = [desk EXCEPT !.tried = TRUE]
        /\ UNCHANGED <<world, root, stale>>
    BY DEF BeginPromotion, Claim
  <2>2. p \in Plans
    BY <1>1
  <2> HIDE DEF p
  <2>3. BooksOK'
    BY <2>1, <2>2 DEF Inv, TypeOK, BooksOK, Operations
  <2> QED BY <2>1, <2>3 DEF Inv, TypeOK, WorldOK, RootOK
<1>3. Holds("desktop", "settle")
  BY <1>0 DEF Inv, BeginPromotion
<1>4. Files' /\ Holds("desktop", "state")'
  BY <1>3 DEF Inv, BeginPromotion, Files, Activated, Holds, DesktopAt, Custody
<1>5. lease = "desktop" /\ Go("desktop", "state") /\ UNCHANGED lease
  BY <1>0 DEF Inv, TypeOK, LeaseOK, BeginPromotion, Outside
<1>6. Placed'
  BY <1>0, <1>4, <1>5, Moves DEF Inside, Custody
<1> QED BY <1>2, <1>4, <1>6 DEF Inv, TypeOK, Placed

LEMMA FinalizePromotionKeeps == ASSUME Inv, FinalizePromotion PROVE Inv'
<1> DEFINE s == IF root.record = NoRecord THEN "receipt" ELSE "complete"
<1>0. "desktop" \in Procs
  BY DEF Procs
<1>1. CASE Leave("desktop")
  BY <1>0, <1>1, LeaveBooks, Left DEF FinalizePromotion, Running
<1>2. CASE ~Leave("desktop")
  <2>1. /\ plan' = [plan EXCEPT !["desktop"] = journal.promotion.plan]
        /\ Go("desktop", s) /\ UNCHANGED <<lease, desk, stale>>
    BY <1>2 DEF FinalizePromotion
  <2>2. WorldOK' /\ RootOK' /\ Files'
    BY DEF Inv, TypeOK, FinalizePromotion, WorldOK, RootOK, Files, Running, Activated
  <2>3. BooksOK'
    BY <2>1 DEF Inv, TypeOK, FinalizePromotion, BooksOK, Operations
  <2>4. PICK t : t = s
    OBVIOUS
  <2>5. Holds("desktop", "finalize")
    BY <1>0 DEF Inv, FinalizePromotion
  <2>6. Holds("desktop", t)' /\ t \in Inside
    BY <2>4, <2>5 DEF FinalizePromotion, Holds, DesktopAt, Activated, Custody, Inside
  <2>7. lease = "desktop" /\ Go("desktop", t)
    BY <1>0, <2>1, <2>4 DEF Inv, TypeOK, LeaseOK, FinalizePromotion, Outside
  <2>8. Placed'
    BY <1>0, <2>1, <2>6, <2>7, Moves
  <2> QED BY <2>2, <2>3, <2>8 DEF Inv, TypeOK, Placed
<1> QED BY <1>1, <1>2

LEMMA CliIs == ASSUME NEW c \in Clis PROVE c \in Procs /\ c \notin {"desktop", "server", "none"}
BY ClisAssumption DEF Procs

LEMMA InspectKeeps == ASSUME Inv, NEW c \in Clis, Inspect(c) PROVE Inv'
<1>0. c \in Procs /\ c \notin {"desktop", "server", "none"}
  BY CliIs
<1>1. PICK s \in {"resuming", "waiting"}, q \in Plans, b \in BOOLEAN :
          Go(c, s) /\ plan' = [plan EXCEPT ![c] = q] /\ stale' = [stale EXCEPT ![c] = b]
  <2>1. CASE Interrupted = "applied"
    BY <2>1 DEF Inspect, Inv, TypeOK, BooksOK, Operations
  <2>2. CASE Interrupted \in {"no", "stale"}
    <3>1. ActivationPlans \subseteq Plans
      BY DEF Inv, TypeOK, RootOK, ActivationPlans, Plans, Outcomes, Fingerprints
    <3> QED BY <2>2, <3>1 DEF Inspect
  <2> QED BY <2>1, <2>2 DEF Inspect
<1>2. WorldOK' /\ RootOK' /\ BooksOK' /\ Files'
  <2>1. WorldOK' /\ RootOK' /\ Files'
    BY DEF Inv, TypeOK, Inspect, WorldOK, RootOK, Files, Running, Activated
  <2>2. UNCHANGED <<journal, desk>>
    BY DEF Inspect
  <2>3. BooksOK'
    BY <1>1, <2>2 DEF Inv, TypeOK, BooksOK
  <2> QED BY <2>1, <2>3
<1>3. lease # c
  BY <1>0 DEF Inv, TypeOK, LeaseOK, Inspect, Outside
<1>4. Holds(c, s) /\ s \in Outside
  BY <1>0 DEF Holds, CliAt, Outside
<1>5. Placed'
  BY <1>0, <1>1, <1>3, <1>4, Waits DEF Inspect
<1> QED BY <1>2, <1>5 DEF Inv, TypeOK, Placed

LEMMA GiveUpKeeps == ASSUME Inv, NEW c \in Clis, GiveUp(c) PROVE Inv'
BY CliIs, LeaveBooks, Left DEF GiveUp, Running

\* An activation command takes the lease over a root nothing was served from.
LEMMA CliTakes ==
    ASSUME Inv, NEW c \in Clis, NEW s \in {"begin", "state"}, lease = "none", lease' = c, Go(c, s),
           root.receipt = "staged", ~root.dirty, UNCHANGED <<world, root, journal, plan, desk, stale>>
    PROVE  Inv'
<1>0. c \in Procs /\ c \notin {"desktop", "server", "none"}
  BY CliIs
<1>1. WorldOK' /\ RootOK' /\ BooksOK' /\ Files'
  BY DEF Inv, TypeOK, WorldOK, RootOK, BooksOK, Files, Running, Activated
<1>2. Holds(c, s)' /\ s \in Inside
  BY <1>0 DEF Inv, TypeOK, RootOK, Files, Holds, CliAt, Outside, Inside, Custody
<1>3. Placed'
  BY <1>0, <1>2, Takes
<1> QED BY <1>1, <1>3 DEF Inv, TypeOK, Placed

LEMMA TakeLeaseKeeps == ASSUME Inv, NEW c \in Clis, TakeLease(c) PROVE Inv'
<1>1. CASE StillStaged(c)
  BY <1>1, CliTakes DEF TakeLease, StillStaged, Pending, Evidence
<1>2. CASE ~StillStaged(c)
  BY <1>2, CliIs, LeaveBooks, Left DEF TakeLease, Running
<1> QED BY <1>1, <1>2

LEMMA ResumeKeeps == ASSUME Inv, NEW c \in Clis, Resume(c) PROVE Inv'
<1>1. CASE Resumable(c)
  BY <1>1, CliTakes DEF Resume, Resumable
<1>2. CASE ~Resumable(c)
  BY <1>2, CliIs, LeaveBooks, Left DEF Resume, Running
<1> QED BY <1>1, <1>2

LEMMA SupersedeActivationKeeps == ASSUME Inv, NEW c \in Clis, SupersedeActivation(c) PROVE Inv'
<1>1. CASE Running("activation")
  <2>1. Mark("activation", "failed") /\ stale' = [stale EXCEPT ![c] = FALSE] /\ UNCHANGED <<lease, pc, plan, desk>>
    BY <1>1 DEF SupersedeActivation
  <2>2. BooksOK' /\ (Running("promotion")' => Running("promotion"))
    BY <2>1, MarkBooks DEF Inv, TypeOK, BooksOK
  <2> QED BY <2>1, <2>2, Standing DEF SupersedeActivation
<1>2. CASE ~Running("activation")
  BY <1>2, CliIs, LeaveBooks, Left DEF SupersedeActivation, Running
<1> QED BY <1>1, <1>2

LEMMA BeginActivationKeeps == ASSUME Inv, NEW c \in Clis, BeginActivation(c) PROVE Inv'
<1> DEFINE s == IF Archives(plan[c]) THEN "archivedir" ELSE "key"
<1>0. c \in Procs /\ c \notin {"desktop", "server", "none"}
  BY CliIs
<1>1. CASE Running("activation")
  BY <1>0, <1>1, LeaveBooks, Left DEF BeginActivation, Running
<1>2. CASE ~Running("activation")
  <2>1. /\ journal' = [journal EXCEPT !.activation = [phase |-> "running", plan |-> plan[c]]]
        /\ UNCHANGED <<world, root, lease, plan, desk, stale>>
    BY <1>2 DEF BeginActivation, Claim
  <2>2. BooksOK'
    BY <1>0, <2>1 DEF Inv, TypeOK, BooksOK, Operations
  <2>3. WorldOK' /\ RootOK' /\ Files'
    BY <2>1 DEF Inv, TypeOK, BooksOK, WorldOK, RootOK, Files, Running, Activated
  <2>4. PICK t \in {"archivedir", "key"} : Go(c, t)
    BY <1>2 DEF BeginActivation
  <2>5. Holds(c, "begin")
    BY <1>0 DEF Inv, BeginActivation
  <2>6. Holds(c, t)' /\ t \in Inside
    BY <1>0, <2>1, <2>5 DEF Holds, CliAt, Outside, Inside, Custody
  <2>7. lease = c
    BY <1>0 DEF Inv, TypeOK, LeaseOK, BeginActivation, Outside
  <2>8. Placed'
    BY <1>0, <2>1, <2>4, <2>6, <2>7, Moves
  <2> QED BY <2>2, <2>3, <2>8 DEF Inv, TypeOK, Placed
<1> QED BY <1>1, <1>2

LEMMA StartServerKeeps == ASSUME Inv, StartServer PROVE Inv'
<1>0. "server" \in Procs
  BY DEF Procs
<1>1. WorldOK' /\ RootOK' /\ BooksOK' /\ Files'
  BY DEF Inv, TypeOK, StartServer, WorldOK, RootOK, BooksOK, Files, Running, Activated
<1>2. PICK s \in {"key", "mkdir"} :
          Go("server", s) /\ (s = "key" => Activated) /\ (s = "mkdir" => root.manifest = "none")
  BY DEF StartServer
<1>3. Holds("server", s)' /\ s \in Inside
  BY <1>2 DEF StartServer, Holds, ServerAt, Activated, Inside
<1>4. lease = "none" /\ lease' = "server"
  BY DEF StartServer
<1>5. Placed'
  BY <1>0, <1>2, <1>3, <1>4, Takes
<1> QED BY <1>1, <1>5 DEF Inv, TypeOK, Placed

LEMMA InitializeKeyKeeps == ASSUME Inv, InitializeKey PROVE Inv'
<1> DEFINE key == IF root.headless = "none" THEN "new" ELSE root.headless
<1>0. "server" \in Procs
  BY DEF Procs
<1>1. CASE ~KeyAcceptable
  BY <1>0, <1>1, LeaveBooks, Left DEF InitializeKey, Running
<1>2. CASE KeyAcceptable
  <2>1. key \in Fingerprints
    BY DEF Inv, TypeOK, RootOK, Fingerprints
  <2>2. /\ root' = [root EXCEPT !.headless = key]
        /\ plan' = [plan EXCEPT !["server"] = [outcome |-> "existing", key |-> key]]
        /\ UNCHANGED <<world, journal, lease, desk, stale>>
    BY <1>2 DEF InitializeKey
  <2>3. PICK s \in {"state", "open"} : Go("server", s) /\ (s = "state" => root.state = NoState)
    BY <1>2 DEF InitializeKey
  <2>4. Holds("server", "key")
    BY <1>0 DEF Inv, InitializeKey
  <2>5. s = "state" => ~root.dirty
    BY <1>2, <2>3 DEF KeyAcceptable, Inv, Files
  <2> HIDE DEF key
  <2>6. WorldOK' /\ RootOK' /\ Files'
    <3>1. WorldOK' /\ RootOK'
      BY <2>1, <2>2 DEF Inv, TypeOK, WorldOK, RootOK
    <3>2. Files'
      BY <2>2 DEF Inv, TypeOK, RootOK, Files, Running, Activated
    <3> QED BY <3>1, <3>2
  <2>7. BooksOK'
    <3>1. [outcome |-> "existing", key |-> key] \in Plans
      BY <2>1 DEF Plans, Outcomes
    <3> QED BY <2>2, <3>1 DEF Inv, TypeOK, BooksOK
  <2>8. Holds("server", s)' /\ s \in Inside
    BY <2>2, <2>4, <2>5 DEF Inv, TypeOK, RootOK, Holds, ServerAt, Activated, Inside, Custody
  <2>9. lease = "server"
    BY <1>0 DEF Inv, TypeOK, LeaseOK, InitializeKey, Outside
  <2>10. Placed'
    BY <1>0, <2>2, <2>3, <2>8, <2>9, Moves
  <2> QED BY <2>6, <2>7, <2>10 DEF Inv, TypeOK, Placed
<1> QED BY <1>1, <1>2

LEMMA StageBackupKeeps == ASSUME Inv, StageBackup PROVE Inv'
<1>1. lease = "none" /\ lease \notin Procs
  BY ClisAssumption DEF StageBackup, Procs
<1>2. WorldOK' /\ RootOK' /\ BooksOK'
  BY StagedShape DEF Inv, TypeOK, StageBackup, WorldOK, BooksOK
<1>3. ~Running("promotion")
  BY DEF Inv, StageBackup, Files
<1>4. Files'
  BY <1>3 DEF StageBackup, Staged, NoRoot, Files, Running
<1>5. Placed'
  BY <1>1, Stands DEF StageBackup
<1> QED BY <1>2, <1>4, <1>5 DEF Inv, TypeOK, Placed

LEMMA OldReleaseRunsKeeps == ASSUME Inv, OldReleaseRuns PROVE Inv'
<1>1. lease = "none" /\ lease \notin Procs
  BY ClisAssumption DEF OldReleaseRuns, Procs
<1>2. WorldOK' /\ RootOK' /\ BooksOK' /\ Files'
  <2>1. WorldOK'
    BY DEF Inv, TypeOK, OldReleaseRuns, WorldOK
  <2>2. RootOK' /\ BooksOK' /\ Files'
    BY DEF Inv, TypeOK, OldReleaseRuns, RootOK, BooksOK, Files, Running, Activated
  <2> QED BY <2>1, <2>2
<1>3. Placed'
  BY <1>1, Stands DEF OldReleaseRuns
<1> QED BY <1>2, <1>3 DEF Inv, TypeOK, Placed

LEMMA StutterKeeps == ASSUME Inv, UNCHANGED vars PROVE Inv'
<1>1. BooksOK'
  BY DEF Inv, TypeOK, BooksOK, vars
<1> QED BY <1>1, Standing DEF vars, Running

\* Every step of the specification is one of these.
LEMMA Steps ==
    ASSUME Next
    PROVE  \/ \E h \in BOOLEAN : Launch(h)
           \/ StageOwnNamespace \/ SupersedePromotion \/ BeginPromotion \/ FinalizePromotion
           \/ StartServer \/ InitializeKey \/ StageBackup \/ OldReleaseRuns
           \/ \E p \in Procs :
                \/ MakeRootDirectory(p) \/ WriteEmptyManifest(p) \/ WriteCredentialState(p)
                \/ FlipManifest(p) \/ ArchiveReceipt(p) \/ WriteActivationRecord(p) \/ Complete(p)
                \/ OpenRoot(p) \/ Quit(p) \/ Dies(p) \/ CustodyFails(p)
                \/ (p \in Clis /\ (MakeArchive(p) \/ ArchiveKey(p))) \/ WriteKey(p)
           \/ \E c \in Clis :
                \/ Inspect(c) \/ TakeLease(c) \/ GiveUp(c) \/ SupersedeActivation(c)
                \/ BeginActivation(c) \/ Resume(c)
<1>1. CASE Launches
  BY <1>1 DEF Launches
<1>2. CASE DesktopStep \/ StartServer \/ InitializeKey \/ StageBackup \/ OldReleaseRuns
  BY <1>2 DEF DesktopStep
<1>3. ASSUME NEW p \in Procs, CustodyStep(p) \/ Dies(p) \/ CustodyFails(p)
      PROVE  \/ MakeRootDirectory(p) \/ WriteEmptyManifest(p) \/ WriteCredentialState(p)
             \/ FlipManifest(p) \/ ArchiveReceipt(p) \/ WriteActivationRecord(p) \/ Complete(p)
             \/ OpenRoot(p) \/ Quit(p) \/ Dies(p) \/ CustodyFails(p)
  BY <1>3 DEF CustodyStep
<1>4. ASSUME NEW c \in Clis, Inspect(c) \/ CliStep(c)
      PROVE  \/ Inspect(c) \/ TakeLease(c) \/ GiveUp(c) \/ SupersedeActivation(c)
             \/ BeginActivation(c) \/ Resume(c)
             \/ c \in Procs /\ (MakeArchive(c) \/ ArchiveKey(c) \/ WriteKey(c))
  BY <1>4, CliIs DEF CliStep
<1> QED BY <1>1, <1>2, <1>3, <1>4 DEF Next

LEMMA InvStep == ASSUME Inv, [Next]_vars PROVE Inv'
<1>1. ASSUME NEW p \in Procs,
             \/ MakeRootDirectory(p) \/ WriteEmptyManifest(p) \/ WriteCredentialState(p)
             \/ FlipManifest(p) \/ ArchiveReceipt(p) \/ WriteActivationRecord(p) \/ Complete(p)
             \/ OpenRoot(p) \/ Quit(p) \/ Dies(p) \/ CustodyFails(p)
             \/ (p \in Clis /\ (MakeArchive(p) \/ ArchiveKey(p))) \/ WriteKey(p)
      PROVE  Inv'
  BY <1>1, MakeRootDirectoryKeeps, WriteEmptyManifestKeeps, WriteCredentialStateKeeps,
     FlipManifestKeeps, ArchiveReceiptKeeps, WriteActivationRecordKeeps, CompleteKeeps,
     OpenRootKeeps, QuitKeeps, DiesKeeps, CustodyFailsKeeps, MakeArchiveKeeps, ArchiveKeyKeeps,
     WriteKeyKeeps
<1>2. ASSUME NEW c \in Clis,
             \/ Inspect(c) \/ TakeLease(c) \/ GiveUp(c) \/ SupersedeActivation(c)
             \/ BeginActivation(c) \/ Resume(c)
      PROVE  Inv'
  BY <1>2, InspectKeeps, TakeLeaseKeeps, GiveUpKeeps, SupersedeActivationKeeps,
     BeginActivationKeeps, ResumeKeeps
<1>3. CASE Next
  BY <1>1, <1>2, <1>3, Steps, LaunchKeeps, StageOwnNamespaceKeeps, SupersedePromotionKeeps,
     BeginPromotionKeeps, FinalizePromotionKeeps, StartServerKeeps, InitializeKeyKeeps,
     StageBackupKeeps, OldReleaseRunsKeeps
<1>4. CASE UNCHANGED vars
  BY <1>4, StutterKeeps
<1> QED BY <1>3, <1>4

LEMMA InvAlways == Spec => []Inv
BY InvInit, InvStep, PTL DEF Spec

-----------------------------------------------------------------------------
\* The variables keep their shapes, and only the holder of the owner lease is
\* at a step that changes the root (RootOwnership.withLease).
THEOREM TypesHold == Spec => []TypeOK
<1>1. Inv => TypeOK
  BY DEF Inv
<1> QED BY <1>1, InvAlways, PTL

\* A desktop that finds a database in the plain profile directory serves that
\* data and never an empty root or another lineage beside it
\* (inspectDesktopRootPromotion).
THEOREM PromotionIsServed == Spec => []ServesThePromotion
<1>1. Inv => ServesThePromotion
  BY DEF Inv, ServesThePromotion, Procs, Holds, DesktopAt
<1> QED BY <1>1, InvAlways, PTL

\* Once services have written to the root, no promotion, activation or server
\* start changes its keys or its credential state (initializeKey,
\* activateStagedHostRoot, completeDesktopPromotionCustody).
THEOREM CustodyIsKept == Spec => ServedKeepsCustody
<1> DEFINE Kept == root.dirty => /\ root'.state = root.state /\ root'.headless = root.headless
                                /\ root'.archive \in {root.archive, "dir"}
<1>1. ASSUME Inv, Next PROVE Kept
  <2>1. SUFFICES ASSUME root.dirty, root' # root PROVE Kept
    OBVIOUS
  <2>2. root.dir /\ root.data # "none" /\ Activated /\ RootOK
    BY <1>1, <2>1 DEF Inv, Files, TypeOK
  <2>3. ASSUME NEW p \in Procs PROVE Holds(p, pc[p])
    BY <1>1 DEF Inv
  <2>4. ASSUME NEW p \in Procs,
               \/ MakeRootDirectory(p) \/ WriteEmptyManifest(p) \/ FlipManifest(p)
               \/ ArchiveReceipt(p) \/ WriteActivationRecord(p) \/ OpenRoot(p)
        PROVE  Kept
    BY <2>2, <2>4 DEF RootOK, MakeRootDirectory, WriteEmptyManifest, FlipManifest, ArchiveReceipt,
       WriteActivationRecord, OpenRoot
  <2>5. ASSUME NEW p \in Procs, WriteCredentialState(p) PROVE Kept
    BY <2>1, <2>3, <2>5 DEF WriteCredentialState, Holds, DesktopAt, ServerAt, CliAt
  <2>6. ASSUME NEW p \in Clis, MakeArchive(p) \/ ArchiveKey(p) \/ WriteKey(p) PROVE Kept
    BY <2>1, <2>3, <2>6, CliIs DEF MakeArchive, ArchiveKey, WriteKey, Holds, CliAt
  <2>7. CASE InitializeKey
    BY <2>1, <2>2, <2>7 DEF InitializeKey, KeyAcceptable, RootOK
  <2>8. CASE StageOwnNamespace \/ StageBackup
    BY <2>1, <2>2, <2>8 DEF StageOwnNamespace, StageBackup
  <2>9. ASSUME NEW p \in Procs, Complete(p) \/ Quit(p) \/ Dies(p) \/ CustodyFails(p) PROVE FALSE
    BY <2>1, <2>9 DEF Complete, Quit, Dies, CustodyFails
  <2>10. ASSUME NEW c \in Clis,
                \/ Inspect(c) \/ TakeLease(c) \/ GiveUp(c) \/ SupersedeActivation(c)
                \/ BeginActivation(c) \/ Resume(c)
         PROVE  FALSE
    BY <2>1, <2>10 DEF Inspect, TakeLease, GiveUp, SupersedeActivation, BeginActivation, Resume
  <2>11. CASE \/ \E h \in BOOLEAN : Launch(h)
              \/ SupersedePromotion \/ BeginPromotion \/ FinalizePromotion
              \/ StartServer \/ OldReleaseRuns
    BY <2>1, <2>11 DEF Launch, SupersedePromotion, BeginPromotion, FinalizePromotion, StartServer,
       OldReleaseRuns
  <2>12. ASSUME NEW p \in Procs, WriteKey(p) PROVE p \in Clis
    BY <2>12 DEF WriteKey
  <2> QED BY <1>1, Steps, <2>4, <2>5, <2>6, <2>7, <2>8, <2>9, <2>10, <2>11, <2>12
<1>2. ASSUME Inv, [Next]_vars PROVE [Kept]_root
  BY <1>1, <1>2 DEF vars
<1> QED BY <1>2, InvAlways, PTL DEF Spec, ServedKeepsCustody

-----------------------------------------------------------------------------
\* At most the holder of the lease serves.
LEMMA HolderServes ==
    ASSUME LeaseOK, NEW p \in Procs, lease = p, pc[p] # "serving"
    PROVE  ~Serving
BY DEF LeaseOK, Outside, Serving

\* A process that neither served nor serves now moves.
LEMMA QuietMove ==
    ASSUME LeaseOK, NEW p \in Procs, NEW t, Go(p, t), t # "serving", pc[p] # "serving"
    PROVE  Serving' <=> Serving
<1>1. \A q \in Procs : pc'[q] = "serving" <=> pc[q] = "serving"
  BY DEF LeaseOK, Go
<1> QED BY <1>1 DEF Serving

\* A process that leaves: nobody serves, or it was not the one.
LEMMA QuietLeave ==
    ASSUME LeaseOK, NEW p \in Procs, Leave(p)
    PROVE  pc[p] # "serving" => (Serving' <=> Serving)
BY QuietMove DEF Leave, Go

\* The abstract steps, and what else may happen.
Stutters == root'.data = root.data /\ (Activated' <=> Activated) /\ (Serving' <=> Serving)
Mapped == Promise!Stage \/ Promise!Activate \/ Promise!Serve \/ Promise!Stop \/ Stutters

LEMMA HolderMaps ==
    ASSUME Inv, Inv', NEW p \in Procs,
           \/ MakeRootDirectory(p) \/ WriteEmptyManifest(p) \/ WriteCredentialState(p)
           \/ FlipManifest(p) \/ ArchiveReceipt(p) \/ WriteActivationRecord(p) \/ Complete(p)
           \/ OpenRoot(p) \/ Quit(p) \/ Dies(p) \/ CustodyFails(p)
           \/ MakeArchive(p) \/ ArchiveKey(p) \/ WriteKey(p)
    PROVE  Mapped
<1>1. LeaseOK /\ LeaseOK' /\ RootOK /\ Holds(p, pc[p])
  BY DEF Inv, TypeOK
<1>2. CASE WriteEmptyManifest(p) \/ FlipManifest(p)
  <2>1. PICK t : Go(p, t) /\ t # "serving"
    BY <1>2 DEF WriteEmptyManifest, FlipManifest
  <2>2. lease = p /\ pc[p] # "serving"
    BY <1>1, <1>2 DEF LeaseOK, WriteEmptyManifest, FlipManifest, Outside
  <2>3. ~Serving /\ ~Serving'
    BY <1>1, <2>1, <2>2, HolderServes, QuietMove
  <2>4. root'.data = root.data /\ Activated'
    BY <1>1, <1>2 DEF RootOK, WriteEmptyManifest, FlipManifest, Activated
  <2>5. CASE Activated
    BY <2>3, <2>4, <2>5 DEF Mapped, Stutters
  <2>6. CASE ~Activated
    <3>1. Activated' = TRUE /\ Serving' = Serving
      BY <2>3, <2>4 DEF Activated, Serving
    <3> QED BY <2>3, <2>4, <2>6, <3>1 DEF Mapped, Promise!Activate
  <2> QED BY <2>5, <2>6
<1>3. CASE OpenRoot(p)
  <2>1. lease = p /\ pc[p] = "open"
    BY <1>1, <1>3 DEF LeaseOK, OpenRoot, Outside
  <2>2. ~Serving
    BY <1>1, <2>1, HolderServes
  <2>3. Serving'
    BY <1>1, <1>3 DEF LeaseOK, OpenRoot, Go, Serving
  <2>4. Activated
    BY <1>1, <2>1 DEF Holds, DesktopAt, ServerAt, CliAt, Outside, Custody
  <2>5. Activated' /\ root'.data = IF root.data = "none" THEN "fresh" ELSE root.data
    BY <1>1, <1>3, <2>4 DEF RootOK, OpenRoot, Activated
  <2> QED BY <2>2, <2>3, <2>4, <2>5 DEF Mapped, Promise!Serve
<1>4. CASE Quit(p) \/ Dies(p) \/ CustodyFails(p)
  <2>1. Leave(p) /\ root' = root
    BY <1>4 DEF Quit, Dies, CustodyFails
  <2>2. CASE pc[p] = "serving"
    <3>1. \A q \in Procs : pc'[q] # "serving"
      BY <1>1, <2>1, <2>2 DEF LeaseOK, Leave, Outside
    <3>2. Serving /\ ~Serving'
      BY <2>2, <3>1 DEF Serving
    <3> QED BY <2>1, <3>2 DEF Mapped, Promise!Stop, Activated
  <2>3. CASE pc[p] # "serving"
    BY <1>1, <2>1, <2>3, QuietLeave DEF Mapped, Stutters, Activated
  <2> QED BY <2>2, <2>3
<1>5. CASE \/ MakeRootDirectory(p) \/ WriteCredentialState(p) \/ ArchiveReceipt(p)
           \/ WriteActivationRecord(p) \/ MakeArchive(p) \/ ArchiveKey(p) \/ WriteKey(p)
  <2>1. pc[p] # "serving" /\ \E t : Go(p, t) /\ t # "serving"
    BY <1>5 DEF MakeRootDirectory, WriteCredentialState, ArchiveReceipt, WriteActivationRecord,
       MakeArchive, ArchiveKey, WriteKey
  <2>2. root'.data = root.data /\ root'.manifest = root.manifest
    BY <1>1, <1>5 DEF RootOK, MakeRootDirectory, WriteCredentialState, ArchiveReceipt,
       WriteActivationRecord, MakeArchive, ArchiveKey, WriteKey
  <2> QED BY <1>1, <2>1, <2>2, QuietMove DEF Mapped, Stutters, Activated
<1>6. CASE Complete(p)
  <2>1. pc[p] # "serving" /\ root' = root /\ (Leave(p) \/ Go(p, "open"))
    BY <1>6 DEF Complete
  <2> QED BY <1>1, <2>1, QuietMove, QuietLeave DEF Mapped, Stutters, Activated
<1> QED BY <1>2, <1>3, <1>4, <1>5, <1>6

LEMMA CliMaps ==
    ASSUME Inv, NEW c \in Clis,
           \/ Inspect(c) \/ TakeLease(c) \/ GiveUp(c) \/ SupersedeActivation(c)
           \/ BeginActivation(c) \/ Resume(c)
    PROVE  Mapped
<1>1. LeaseOK /\ c \in Procs
  BY CliIs DEF Inv, TypeOK
<1>2. pc[c] # "serving" /\ root' = root
  BY DEF Inspect, TakeLease, GiveUp, SupersedeActivation, BeginActivation, Resume
<1>3. Leave(c) \/ pc' = pc \/ \E t : Go(c, t) /\ t # "serving"
  BY DEF Inspect, TakeLease, GiveUp, SupersedeActivation, BeginActivation, Resume
<1> QED BY <1>1, <1>2, <1>3, QuietMove, QuietLeave DEF Mapped, Stutters, Activated, Serving

LEMMA OtherMaps ==
    ASSUME Inv,
           \/ \E h \in BOOLEAN : Launch(h)
           \/ StageOwnNamespace \/ SupersedePromotion \/ BeginPromotion \/ FinalizePromotion
           \/ StartServer \/ InitializeKey \/ StageBackup \/ OldReleaseRuns
    PROVE  Mapped
<1>1. LeaseOK /\ RootOK /\ {"desktop", "server"} \subseteq Procs
  BY DEF Inv, TypeOK, Procs
<1>2. CASE \E h \in BOOLEAN : Launch(h)
  <2>1. pc["desktop"] # "serving" /\ root' = root
    BY <1>2 DEF Launch
  <2>2. \E t : Go("desktop", t) /\ t # "serving"
    BY <1>2 DEF Launch
  <2> QED BY <1>1, <2>1, <2>2, QuietMove DEF Mapped, Stutters, Activated
<1>3. CASE SupersedePromotion \/ BeginPromotion \/ FinalizePromotion
  <2>1. pc["desktop"] # "serving" /\ root' = root
    BY <1>3 DEF SupersedePromotion, BeginPromotion, FinalizePromotion
  <2>2. Leave("desktop") \/ pc' = pc \/ \E t : Go("desktop", t) /\ t # "serving"
    BY <1>3 DEF SupersedePromotion, BeginPromotion, FinalizePromotion
  <2> QED BY <1>1, <2>1, <2>2, QuietMove, QuietLeave DEF Mapped, Stutters, Activated, Serving
<1>4. CASE StartServer
  <2>1. pc["server"] # "serving" /\ root' = root /\ \E t : Go("server", t) /\ t # "serving"
    BY <1>4 DEF StartServer
  <2> QED BY <1>1, <2>1, QuietMove DEF Mapped, Stutters, Activated
<1>5. CASE InitializeKey
  <2>1. pc["server"] # "serving" /\ root'.data = root.data /\ root'.manifest = root.manifest
    BY <1>1, <1>5 DEF InitializeKey, RootOK
  <2>2. Leave("server") \/ \E t : Go("server", t) /\ t # "serving"
    BY <1>5 DEF InitializeKey
  <2> QED BY <1>1, <2>1, <2>2, QuietMove, QuietLeave DEF Mapped, Stutters, Activated
<1>6. CASE StageOwnNamespace \/ StageBackup
  <2>1. CASE root' = root
    <3>1. pc' = pc \/ (pc["desktop"] # "serving" /\ (Leave("desktop") \/ Go("desktop", "settle")))
      BY <1>6 DEF StageOwnNamespace, StageBackup
    <3> QED BY <1>1, <2>1, <3>1, QuietMove, QuietLeave DEF Mapped, Stutters, Activated, Serving
  <2>2. CASE root' # root
    <3>1. ~root.dir /\ root'.data \in {"plain", "backup"} /\ root'.manifest = "required"
      BY <1>6, <2>2 DEF StageOwnNamespace, StageBackup, Staged, NoRoot
    <3>2. root.data = "none" /\ root.manifest = "none"
      BY <3>1 DEF Inv, Files
    <3>3. pc' = pc \/ (pc["desktop"] # "serving" /\ Go("desktop", "settle"))
      BY <1>6, <2>2 DEF StageOwnNamespace, StageBackup
    <3>4. Serving' <=> Serving
      BY <1>1, <3>3, QuietMove DEF Serving
    <3>5. ~Activated /\ Activated' = Activated /\ Serving' = Serving
      BY <3>1, <3>2, <3>4 DEF Activated, Serving
    <3> QED BY <3>1, <3>2, <3>5 DEF Mapped, Promise!Stage
  <2> QED BY <2>1, <2>2
<1>7. CASE OldReleaseRuns
  BY <1>7 DEF OldReleaseRuns, Mapped, Stutters, Activated, Serving
<1> QED BY <1>2, <1>3, <1>4, <1>5, <1>6, <1>7

\* The owned root gets its data once, from one source, and is served only
\* after it was activated: the files implement OneRoot.
THEOREM OneRootImplemented == Spec => ImplementsOneRoot
<1>1. Init => Promise!Init
  BY DEF Init, Promise!Init, NoRoot, Activated, Serving
<1>2. ASSUME Inv, Inv', [Next]_vars PROVE [Promise!Next]_<<root.data, Activated, Serving>>
  <2>1. CASE Next
    <3>1. Mapped
      BY <1>2, <2>1, Steps, HolderMaps, CliMaps, OtherMaps
    <3> QED BY <3>1 DEF Mapped, Stutters, Promise!Next, Activated, Serving
  <2>2. CASE UNCHANGED vars
    BY <2>2 DEF vars, Activated, Serving
  <2> QED BY <1>2, <2>1, <2>2
<1> QED BY <1>1, <1>2, InvAlways, PTL DEF Spec, ImplementsOneRoot, Promise!Spec

(***************************************************************************)
(* What the record says. The keys of a copied root change only where an    *)
(* activation began; until then a promotion's plan, made or journaled,     *)
(* speaks of the keys that were copied, and whoever is about to write the  *)
(* record has already made it true.                                        *)
(***************************************************************************)
Copied == root.data \in {"plain", "backup"}
Begun == journal.activation.phase # "none"

\* What the record of an outcome says of the keys.
Told(outcome) ==
    /\ root.state.mode = ModeOf(outcome)
    /\ outcome \in {"existing", "adopted"} => root.headless = "old" /\ root.state.print = "old"
    /\ outcome = "signin" => root.headless = "new" /\ root.state.print = "new" /\ root.archive = "old"
    /\ outcome = "sealed" => root.safe = "old" /\ root.state.print = "old"

ActivationPlan(p) ==
    /\ p.outcome \in {"existing", "adopted", "signin"}
    /\ p.key = IF p.outcome = "signin" THEN "new" ELSE "old"
PromotionPlanned(p) ==
    /\ p.outcome \in {"existing", "sealed", "session", "fresh"}
    /\ p.outcome = "existing" => p.key = "old" /\ root.headless = "old"
    /\ p.outcome = "sealed" => p.key = "old" /\ root.safe = "old"
    /\ p.outcome = "session" => root.safe # "none"

\* The root's files and the journal.
Keys ==
    /\ root.receipt = "staged" \/ root.manifest = "required" \/ root.record # NoRecord => Copied
    /\ root.manifest = "required" => root.receipt = "staged"
    /\ root.record # NoRecord => root.receipt = "archived" /\ Activated
    /\ Copied => \/ root.headless \in {"none", "old"}
                 \/ root.headless = "new" /\ Begun /\ root.archive = "old"
    /\ Copied /\ ~root.dirty => root.safe \in {"none", "old"}
    /\ root.manifest = "required" /\ ~Begun /\ root.safe = "none" /\ root.headless = "none" =>
            root.state = NoState
Journals ==
    /\ Begun => ActivationPlan(journal.activation.plan)
    /\ Running("promotion") /\ ~Begun => PromotionPlanned(journal.promotion.plan)

\* What holds while a process is at step s with plan p.
DesktopHas(s, p) ==
    /\ s \in {"settle", "state", "flip"} => root.manifest = "required"
    /\ s = "finalize" => Running("promotion")
    /\ s \in {"state", "flip", "receipt", "record"} =>
            root.record = NoRecord /\ (~Begun => PromotionPlanned(p))
    /\ s = "state" /\ p.outcome = "fresh" /\ ~Begun => root.state = NoState
    /\ s \in {"flip", "receipt", "record"} /\ ~Begun => Told(p.outcome)
    /\ s = "record" => root.receipt = "archived"
ServerHas(s) == s = "state" => root.data = "none"
CliHas(s, p) ==
    /\ s # "off" => ActivationPlan(p)
    /\ s \notin Outside => Copied
    /\ s \notin Outside \cup {"begin"} => Begun
    /\ s \notin Outside \cup {"complete"} => root.record = NoRecord
    /\ s \in {"begin", "archivedir", "archive", "key", "state"} => root.receipt = "staged"
    /\ s \in {"archivedir", "archive"} => Archives(p)
    /\ s \in {"begin", "archivedir", "archive"} /\ Archives(p) => root.safe = "old"
    /\ s = "key" /\ Archives(p) => root.archive = "old"
    /\ s = "state" => root.headless = p.key
    /\ s \in {"flip", "receipt", "record"} => Told(p.outcome)
    /\ s \in {"receipt", "record"} => Activated
    /\ s = "record" => root.receipt = "archived"
Has(p) ==
    CASE p = "desktop" -> DesktopHas(pc[p], plan[p])
      [] p = "server" -> ServerHas(pc[p])
      [] OTHER -> CliHas(pc[p], plan[p])

KeyInv == Keys /\ Journals /\ RecordIsTrue /\ \A p \in Procs : Has(p)

-----------------------------------------------------------------------------
LEMMA KeysInit == Init => KeyInv
BY ClisAssumption DEF Init, KeyInv, Keys, Journals, RecordIsTrue, Has, DesktopHas, ServerHas, CliHas,
   NoRoot, NoOperation, Running, Begun, Outside

\* A process at a lease-free step relies on its plan alone.
LEMMA OthersHave ==
    ASSUME Inv, Inv', KeyInv, NEW p \in Procs, p \in {lease, lease'},
           \A q \in Procs : q # p => pc'[q] = pc[q] /\ plan'[q] = plan[q]
    PROVE  \A q \in Procs : q # p => Has(q)'
<1> SUFFICES ASSUME NEW q \in Procs, q # p PROVE Has(q)'
  OBVIOUS
<1>1. pc[q] = pc'[q] /\ pc'[q] \in Outside /\ plan'[q] = plan[q]
  BY DEF Inv, TypeOK, LeaseOK
<1>2. Has(q)
  BY DEF KeyInv
<1> QED BY <1>1, <1>2 DEF Has, DesktopHas, ServerHas, CliHas, Outside

\* The holder goes on.
LEMMA GoesOn ==
    ASSUME Inv, Inv', KeyInv, NEW p \in Procs, p \in {lease, lease'}, NEW s, Go(p, s),
           \A q \in Procs : q # p => plan'[q] = plan[q], Has(p)'
    PROVE  \A q \in Procs : Has(q)'
<1>1. \A q \in Procs : q # p => pc'[q] = pc[q]
  BY DEF Inv, TypeOK, LeaseOK, Go
<1> QED BY <1>1, OthersHave

\* One lemma for each step that writes to the root: what it keeps of the keys,
\* the journal, the record and its own place.
LEMMA MakeRootDirectoryTrue == ASSUME Inv, Inv', KeyInv, NEW p \in Procs, MakeRootDirectory(p) PROVE KeyInv'
<1>1. /\ root'.dir = TRUE
      /\ root'.manifest = root.manifest /\ root'.data = root.data /\ root'.dirty = root.dirty /\ root'.receipt = root.receipt
      /\ root'.record = root.record /\ root'.state = root.state /\ root'.safe = root.safe /\ root'.headless = root.headless /\ root'.archive = root.archive
  BY DEF Inv, TypeOK, RootOK, MakeRootDirectory
<1>2. UNCHANGED <<journal, plan>> /\ lease = p /\ \E s : Go(p, s)
  BY DEF Inv, TypeOK, LeaseOK, MakeRootDirectory, Outside
<1>3. Holds(p, pc[p]) /\ Has(p) /\ Files /\ Keys /\ Journals /\ RecordIsTrue /\ RootOK
  BY DEF Inv, TypeOK, KeyInv
<1>4. pc[p] = "mkdir"
  BY DEF MakeRootDirectory
<1>5. Keys' /\ Journals'
  BY <1>1, <1>2, <1>3, <1>4 DEF Keys, Journals, Copied, Begun, Activated, Running, PromotionPlanned
<1>6. RecordIsTrue'
  BY <1>1, <1>2, <1>3, <1>4 DEF RecordIsTrue, Keys, Activated, Holds, DesktopAt, ServerAt, Has, CliHas,
     Outside
<1>7. Has(p)'
  BY <1>1, <1>2, <1>3, <1>4 DEF MakeRootDirectory, Go, Holds, CliAt, Has, DesktopHas, ServerHas, Outside,
     Custody
<1> QED BY <1>2, <1>5, <1>6, <1>7, GoesOn DEF KeyInv

LEMMA WriteEmptyManifestTrue == ASSUME Inv, Inv', KeyInv, NEW p \in Procs, WriteEmptyManifest(p) PROVE KeyInv'
<1>1. /\ root'.manifest = "empty"
      /\ root'.dir = root.dir /\ root'.data = root.data /\ root'.dirty = root.dirty /\ root'.receipt = root.receipt
      /\ root'.record = root.record /\ root'.state = root.state /\ root'.safe = root.safe /\ root'.headless = root.headless /\ root'.archive = root.archive
  BY DEF Inv, TypeOK, RootOK, WriteEmptyManifest
<1>2. UNCHANGED <<journal, plan>> /\ lease = p /\ \E s : Go(p, s)
  BY DEF Inv, TypeOK, LeaseOK, WriteEmptyManifest, Outside
<1>3. Holds(p, pc[p]) /\ Has(p) /\ Files /\ Keys /\ Journals /\ RecordIsTrue /\ RootOK
  BY DEF Inv, TypeOK, KeyInv
<1>4. pc[p] = "manifest"
  BY DEF WriteEmptyManifest
<1>5. Keys' /\ Journals'
  BY <1>1, <1>2, <1>3, <1>4 DEF Keys, Journals, Copied, Begun, Activated, Running, PromotionPlanned
<1>6. RecordIsTrue'
  BY <1>1, <1>2, <1>3, <1>4 DEF RecordIsTrue, Keys, Activated, Holds, DesktopAt, ServerAt, Has, CliHas,
     Outside
<1>7. Has(p)'
  BY <1>1, <1>2, <1>3, <1>4 DEF WriteEmptyManifest, Go, Holds, CliAt, Has, DesktopHas, ServerHas, Outside,
     Custody
<1> QED BY <1>2, <1>5, <1>6, <1>7, GoesOn DEF KeyInv

LEMMA FlipManifestTrue == ASSUME Inv, Inv', KeyInv, NEW p \in Procs, FlipManifest(p) PROVE KeyInv'
<1>1. /\ root'.manifest = "ready"
      /\ root'.dir = root.dir /\ root'.data = root.data /\ root'.dirty = root.dirty /\ root'.receipt = root.receipt
      /\ root'.record = root.record /\ root'.state = root.state /\ root'.safe = root.safe /\ root'.headless = root.headless /\ root'.archive = root.archive
  BY DEF Inv, TypeOK, RootOK, FlipManifest
<1>2. UNCHANGED <<journal, plan>> /\ lease = p /\ \E s : Go(p, s)
  BY DEF Inv, TypeOK, LeaseOK, FlipManifest, Outside
<1>3. Holds(p, pc[p]) /\ Has(p) /\ Files /\ Keys /\ Journals /\ RecordIsTrue /\ RootOK
  BY DEF Inv, TypeOK, KeyInv
<1>4. pc[p] = "flip"
  BY DEF FlipManifest
<1>5. Keys' /\ Journals'
  BY <1>1, <1>2, <1>3, <1>4 DEF Keys, Journals, Copied, Begun, Running, PromotionPlanned, Holds, ServerAt,
     Has, DesktopHas, CliHas, Outside
<1>6. RecordIsTrue'
  BY <1>1, <1>2, <1>3, <1>4 DEF RecordIsTrue, Holds, ServerAt, Has, DesktopHas, CliHas, Outside
<1>7. Has(p)'
  BY <1>1, <1>2, <1>3, <1>4 DEF FlipManifest, Go, Inv, TypeOK, LeaseOK, Copied, Begun, Activated,
     PromotionPlanned, Told, Has, DesktopHas, ServerHas, CliHas
<1> QED BY <1>2, <1>5, <1>6, <1>7, GoesOn DEF KeyInv

LEMMA ArchiveReceiptTrue == ASSUME Inv, Inv', KeyInv, NEW p \in Procs, ArchiveReceipt(p) PROVE KeyInv'
<1>1. /\ root'.receipt = "archived"
      /\ root'.archive = IF root.archive = "none" THEN "dir" ELSE root.archive
      /\ root'.dir = root.dir /\ root'.manifest = root.manifest /\ root'.data = root.data /\ root'.dirty = root.dirty
      /\ root'.record = root.record /\ root'.state = root.state /\ root'.safe = root.safe /\ root'.headless = root.headless
  BY DEF Inv, TypeOK, RootOK, ArchiveReceipt
<1>2. UNCHANGED <<journal, plan>> /\ lease = p /\ \E s : Go(p, s)
  BY DEF Inv, TypeOK, LeaseOK, ArchiveReceipt, Outside
<1>3. Holds(p, pc[p]) /\ Has(p) /\ Files /\ Keys /\ Journals /\ RecordIsTrue /\ RootOK
  BY DEF Inv, TypeOK, KeyInv
<1>4. pc[p] = "receipt"
  BY DEF ArchiveReceipt
<1>5. Keys' /\ Journals'
  BY <1>1, <1>2, <1>3, <1>4 DEF Keys, Journals, Copied, Begun, Activated, Running, PromotionPlanned, Holds,
     DesktopAt, ServerAt, Has, CliHas
<1>6. RecordIsTrue'
  BY <1>1, <1>2, <1>3, <1>4 DEF RecordIsTrue, Holds, ServerAt, Has, DesktopHas, CliHas, Outside
<1>7. Has(p)'
  BY <1>1, <1>2, <1>3, <1>4 DEF ArchiveReceipt, Go, Copied, Begun, Activated, PromotionPlanned, Told, Has,
     DesktopHas, ServerHas, CliHas, Outside
<1> QED BY <1>2, <1>5, <1>6, <1>7, GoesOn DEF KeyInv

LEMMA WriteActivationRecordTrue == ASSUME Inv, Inv', KeyInv, NEW p \in Procs, WriteActivationRecord(p) PROVE KeyInv'
<1>1. /\ root'.record = [by |-> OperationOf(p), outcome |-> plan[p].outcome]
      /\ root'.dir = root.dir /\ root'.manifest = root.manifest /\ root'.data = root.data /\ root'.dirty = root.dirty
      /\ root'.receipt = root.receipt /\ root'.state = root.state /\ root'.safe = root.safe /\ root'.headless = root.headless /\ root'.archive = root.archive
  BY DEF Inv, TypeOK, RootOK, WriteActivationRecord
<1>2. UNCHANGED <<journal, plan>> /\ lease = p /\ \E s : Go(p, s)
  BY DEF Inv, TypeOK, LeaseOK, WriteActivationRecord, Outside
<1>3. Holds(p, pc[p]) /\ Has(p) /\ Files /\ Keys /\ Journals /\ RecordIsTrue /\ RootOK
  BY DEF Inv, TypeOK, KeyInv
<1>4. pc[p] = "record"
  BY DEF WriteActivationRecord
<1>5. Keys' /\ Journals'
  BY <1>1, <1>2, <1>3, <1>4 DEF Keys, Journals, Copied, Begun, Activated, Running, PromotionPlanned, Holds,
     DesktopAt, ServerAt, Has, DesktopHas, CliHas, Outside
<1>6. RecordIsTrue'
  <2>1. ~OverInterrupted' => Told(plan[p].outcome)
    BY <1>1, <1>2, <1>3, <1>4 DEF OverInterrupted, Begun, OperationOf, Holds, ServerAt, Has, DesktopHas,
       CliHas
  <2>2. \A o : Told(o) => Told(o)'
    BY <1>1 DEF Told
  <2>3. root'.record.outcome = plan[p].outcome /\ plan' = plan
    BY <1>1, <1>2
  <2> QED BY <2>1, <2>2, <2>3 DEF RecordIsTrue, Told
<1>7. Has(p)'
  <2>1. pc'[p] = "complete" /\ plan' = plan
    BY <1>2 DEF WriteActivationRecord, Go, Inv, TypeOK, LeaseOK
  <2> QED BY <1>1, <1>2, <1>3, <1>4, <2>1 DEF Has, DesktopHas, ServerHas, CliHas, Outside, Copied, Begun
<1> QED BY <1>2, <1>5, <1>6, <1>7, GoesOn DEF KeyInv

LEMMA MakeArchiveTrue == ASSUME Inv, Inv', KeyInv, NEW p \in Procs, MakeArchive(p) PROVE KeyInv'
<1>1. /\ root'.archive = IF root.archive = "none" THEN "dir" ELSE root.archive
      /\ root'.dir = root.dir /\ root'.manifest = root.manifest /\ root'.data = root.data /\ root'.dirty = root.dirty
      /\ root'.receipt = root.receipt /\ root'.record = root.record /\ root'.state = root.state /\ root'.safe = root.safe /\ root'.headless = root.headless
  BY DEF Inv, TypeOK, RootOK, MakeArchive
<1>2. UNCHANGED <<journal, plan>> /\ lease = p /\ \E s : Go(p, s)
  BY DEF Inv, TypeOK, LeaseOK, MakeArchive, Outside
<1>3. Holds(p, pc[p]) /\ Has(p) /\ Files /\ Keys /\ Journals /\ RecordIsTrue /\ RootOK
  BY DEF Inv, TypeOK, KeyInv
<1>4. pc[p] = "archivedir"
  BY DEF MakeArchive
<1>5. Keys' /\ Journals'
  BY <1>1, <1>2, <1>3, <1>4 DEF Keys, Journals, Copied, Begun, Holds, DesktopAt, ServerAt, Has, CliHas,
     Outside, Custody
<1>6. RecordIsTrue'
  BY <1>1, <1>2, <1>3, <1>4 DEF RecordIsTrue, Holds, DesktopAt, ServerAt, Has, CliHas, Outside, Custody
<1>7. Has(p)'
  BY <1>1, <1>2, <1>3, <1>4 DEF MakeArchive, Go, Copied, Begun, Has, DesktopHas, ServerHas, CliHas, Outside
<1> QED BY <1>2, <1>5, <1>6, <1>7, GoesOn DEF KeyInv

LEMMA ArchiveKeyTrue == ASSUME Inv, Inv', KeyInv, NEW p \in Procs, ArchiveKey(p) PROVE KeyInv'
<1>1. /\ root'.archive = root.safe
      /\ root'.safe = "none"
      /\ root'.dir = root.dir /\ root'.manifest = root.manifest /\ root'.data = root.data /\ root'.dirty = root.dirty
      /\ root'.receipt = root.receipt /\ root'.record = root.record /\ root'.state = root.state /\ root'.headless = root.headless
  BY DEF Inv, TypeOK, RootOK, ArchiveKey
<1>2. UNCHANGED <<journal, plan>> /\ lease = p /\ \E s : Go(p, s)
  BY DEF Inv, TypeOK, LeaseOK, ArchiveKey, Outside
<1>3. Holds(p, pc[p]) /\ Has(p) /\ Files /\ Keys /\ Journals /\ RecordIsTrue /\ RootOK
  BY DEF Inv, TypeOK, KeyInv
<1>4. pc[p] = "archive"
  BY DEF ArchiveKey
<1>5. Keys' /\ Journals'
  BY <1>1, <1>2, <1>3, <1>4 DEF Keys, Journals, Copied, Begun, Holds, DesktopAt, ServerAt, Has, CliHas,
     Outside, Custody
<1>6. RecordIsTrue'
  BY <1>1, <1>2, <1>3, <1>4 DEF RecordIsTrue, Holds, DesktopAt, ServerAt, Has, CliHas, Outside, Custody
<1>7. Has(p)'
  BY <1>1, <1>2, <1>3, <1>4 DEF ArchiveKey, Go, Inv, TypeOK, LeaseOK, Copied, Begun, Has, DesktopHas,
     ServerHas, CliHas
<1> QED BY <1>2, <1>5, <1>6, <1>7, GoesOn DEF KeyInv

LEMMA WriteKeyTrue == ASSUME Inv, Inv', KeyInv, NEW p \in Procs, WriteKey(p) PROVE KeyInv'
<1>1. /\ root'.headless = plan[p].key
      /\ root'.dir = root.dir /\ root'.manifest = root.manifest /\ root'.data = root.data /\ root'.dirty = root.dirty
      /\ root'.receipt = root.receipt /\ root'.record = root.record /\ root'.state = root.state /\ root'.safe = root.safe /\ root'.archive = root.archive
  BY DEF Inv, TypeOK, RootOK, WriteKey
<1>2. UNCHANGED <<journal, plan>> /\ lease = p /\ \E s : Go(p, s)
  BY DEF Inv, TypeOK, LeaseOK, WriteKey, Outside
<1>3. Holds(p, pc[p]) /\ Has(p) /\ Files /\ Keys /\ Journals /\ RecordIsTrue /\ RootOK
  BY DEF Inv, TypeOK, KeyInv
<1>4. pc[p] = "key"
  BY DEF WriteKey
<1>5. p \notin {"desktop", "server"} /\ ActivationPlan(plan[p]) /\ Copied /\ Begun
      /\ (Archives(plan[p]) => root.archive = "old") /\ root.receipt = "staged" /\ root.record = NoRecord
  BY <1>3, <1>4, ClisAssumption DEF WriteKey, Has, CliHas, Outside
<1>6. Keys' /\ Journals'
  BY <1>1, <1>2, <1>3, <1>5 DEF Keys, Journals, Copied, Begun, ActivationPlan, Archives
<1>7. RecordIsTrue'
  BY <1>1, <1>5 DEF RecordIsTrue
<1>8. Has(p)'
  <2>1. pc'[p] = "state" /\ plan' = plan
    BY <1>2 DEF WriteKey, Go, Inv, TypeOK, LeaseOK
  <2> QED BY <1>1, <1>2, <1>5, <2>1 DEF Has, CliHas, Outside, Copied, Begun
<1> QED BY <1>2, <1>6, <1>7, <1>8, GoesOn DEF KeyInv

LEMMA WriteCredentialStateTrue == ASSUME Inv, Inv', KeyInv, NEW p \in Procs, WriteCredentialState(p) PROVE KeyInv'
<1>1. /\ root'.state = IF plan[p].outcome = "fresh" THEN root.state ELSE StateOf(plan[p])
      /\ root'.dir = root.dir /\ root'.manifest = root.manifest /\ root'.data = root.data /\ root'.dirty = root.dirty
      /\ root'.receipt = root.receipt /\ root'.record = root.record /\ root'.safe = root.safe /\ root'.headless = root.headless /\ root'.archive = root.archive
  BY DEF Inv, TypeOK, RootOK, WriteCredentialState
<1>2. UNCHANGED <<journal, plan>> /\ lease = p /\ \E s : Go(p, s)
  BY DEF Inv, TypeOK, LeaseOK, WriteCredentialState, Outside
<1>3. Holds(p, pc[p]) /\ Has(p) /\ Files /\ Keys /\ Journals /\ RecordIsTrue /\ RootOK
  BY DEF Inv, TypeOK, KeyInv
<1>4. pc[p] = "state"
  BY DEF WriteCredentialState
<1>5. Keys' /\ Journals'
  BY <1>1, <1>2, <1>3, <1>4 DEF Keys, Journals, Copied, Begun, Running, PromotionPlanned, Has, DesktopHas,
     ServerHas, CliHas, Outside
<1>6. RecordIsTrue'
  BY <1>1, <1>2, <1>3, <1>4 DEF RecordIsTrue, Keys, Copied, Has, DesktopHas, ServerHas, CliHas
<1>7. Has(p)'
  <2>1. pc'[p] = (IF p = "server" THEN "open" ELSE "flip") /\ plan' = plan
    BY <1>2 DEF WriteCredentialState, Go, Inv, TypeOK, LeaseOK
  <2>2. CASE p = "server"
    BY <2>1, <2>2 DEF Has, ServerHas
  <2>3. CASE p = "desktop"
    <3>1. ~Begun => Told(plan[p].outcome)'
      BY <1>1, <1>2, <1>3, <1>4, <2>3 DEF Has, DesktopHas, PromotionPlanned, Told, StateOf, ModeOf, NoState
    <3> QED BY <1>1, <1>2, <1>3, <1>4, <2>1, <2>3, <3>1 DEF Has, DesktopHas, PromotionPlanned, Begun, Told
  <2>4. CASE p \notin {"server", "desktop"}
    <3>1. Told(plan[p].outcome)'
      BY <1>1, <1>2, <1>3, <1>4, <2>4 DEF Has, CliHas, ActivationPlan, Keys, Told, StateOf
    <3> QED BY <1>1, <1>2, <1>3, <1>4, <2>1, <2>4, <3>1 DEF Has, CliHas, Outside, Copied, Begun
  <2> QED BY <2>2, <2>3, <2>4
<1> QED BY <1>2, <1>5, <1>6, <1>7, GoesOn DEF KeyInv

LEMMA OpenRootTrue == ASSUME Inv, Inv', KeyInv, NEW p \in Procs, OpenRoot(p) PROVE KeyInv'
<1>1. /\ root'.dirty = TRUE
      /\ root'.data = IF root.data = "none" THEN "fresh" ELSE root.data
      /\ root'.safe = IF p = "desktop" /\ desk.healthy /\ root.safe = "none" THEN "new" ELSE root.safe
      /\ root'.dir = root.dir /\ root'.manifest = root.manifest /\ root'.receipt = root.receipt /\ root'.record = root.record
      /\ root'.state = root.state /\ root'.headless = root.headless /\ root'.archive = root.archive
  BY DEF Inv, TypeOK, RootOK, OpenRoot
<1>2. UNCHANGED <<journal, plan>> /\ lease = p /\ \E s : Go(p, s)
  BY DEF Inv, TypeOK, LeaseOK, OpenRoot, Outside
<1>3. Holds(p, pc[p]) /\ Has(p) /\ Files /\ Keys /\ Journals /\ RecordIsTrue /\ RootOK
  BY DEF Inv, TypeOK, KeyInv
<1>4. pc[p] = "open"
  BY DEF OpenRoot
<1>5. Keys' /\ Journals'
  BY <1>1, <1>2, <1>3, <1>4 DEF Keys, Journals, Copied, Begun, Activated, Running, PromotionPlanned
<1>6. RecordIsTrue'
  BY <1>1, <1>2, <1>3, <1>4 DEF RecordIsTrue, OverInterrupted
<1>7. Has(p)'
  BY <1>1, <1>2, <1>3, <1>4 DEF OpenRoot, Go, Holds, CliAt, Has, DesktopHas, ServerHas, Outside, Custody
<1> QED BY <1>2, <1>5, <1>6, <1>7, GoesOn DEF KeyInv

-----------------------------------------------------------------------------
\* Steps that leave the root, and of the journal all but the end of an operation.
SameBooks ==
    /\ root' = root
    /\ journal'.activation.plan = journal.activation.plan
    /\ journal'.promotion.plan = journal.promotion.plan
    /\ Begun' <=> Begun
    /\ Running("promotion")' => Running("promotion")
    /\ pc["desktop"] = "finalize" /\ Running("promotion") => Running("promotion")'

LEMMA SameBooksTrue ==
    ASSUME KeyInv, SameBooks
    PROVE  /\ Keys' /\ Journals' /\ RecordIsTrue'
           /\ \A q \in Procs : pc'[q] = pc[q] /\ plan'[q] = plan[q] => Has(q)'
<1>1. Keys' /\ Journals'
  BY DEF KeyInv, SameBooks, Keys, Journals, Copied, Activated, PromotionPlanned
<1>2. RecordIsTrue'
  BY DEF KeyInv, SameBooks, RecordIsTrue, OverInterrupted, Begun
<1>3. \A q \in Procs : pc'[q] = pc[q] /\ plan'[q] = plan[q] => Has(q)'
  <2> SUFFICES ASSUME NEW q \in Procs, pc'[q] = pc[q], plan'[q] = plan[q] PROVE Has(q)'
    OBVIOUS
  <2>1. \A o : Told(o)' <=> Told(o)
    BY DEF SameBooks, Told
  <2>2. Has(q)
    BY DEF KeyInv
  <2> QED BY <2>1, <2>2 DEF SameBooks, Has, DesktopHas, ServerHas, CliHas, Copied, Activated,
     PromotionPlanned
<1> QED BY <1>1, <1>2, <1>3

\* A process moves or leaves, and is entitled to where it goes.
LEMMA MovesTrue ==
    ASSUME Inv, KeyInv, SameBooks, NEW p \in Procs, Has(p)',
           \A q \in Procs : q # p => pc'[q] = pc[q] /\ plan'[q] = plan[q]
    PROVE  KeyInv'
BY SameBooksTrue DEF KeyInv

LEMMA LeavesTrue ==
    ASSUME Inv, KeyInv, SameBooks, NEW p \in Procs, Leave(p)
    PROVE  KeyInv'
<1>1. pc'[p] = "off" /\ \A q \in Procs : q # p => pc'[q] = pc[q] /\ plan'[q] = plan[q]
  BY DEF Inv, TypeOK, LeaseOK, BooksOK, Leave
<1>2. Has(p)'
  BY <1>1 DEF Has, DesktopHas, ServerHas, CliHas, Outside
<1> QED BY <1>1, <1>2, MovesTrue

\* An operation that began is over.
LEMMA MarkSame ==
    ASSUME Inv, NEW o \in {"promotion", "activation"}, NEW f \in {"failed", "completed"}, Mark(o, f),
           o = "activation" => Begun, o = "promotion" => pc["desktop"] # "finalize", root' = root
    PROVE  SameBooks
<1>1. /\ o = "promotion" => journal'.activation = journal.activation
      /\ o = "activation" => journal'.promotion = journal.promotion /\ journal'.activation.phase = f
      /\ o = "promotion" => journal'.promotion.phase = f
      /\ journal'.promotion.plan = journal.promotion.plan
      /\ journal'.activation.plan = journal.activation.plan
  BY DEF Inv, TypeOK, BooksOK, Mark, Operations
<1> QED BY <1>1 DEF SameBooks, Begun, Running

LEMMA CompleteTrue == ASSUME Inv, KeyInv, NEW p \in Procs, Complete(p) PROVE KeyInv'
<1>1. Holds(p, pc[p]) /\ Has(p) /\ pc[p] = "complete"
  BY DEF Inv, KeyInv, Complete
<1>2. /\ OperationOf(p) = "activation" => Begun
      /\ OperationOf(p) = "promotion" => pc["desktop"] # "finalize"
  BY <1>1 DEF OperationOf, Holds, ServerAt, Has, CliHas, Outside
<1>3. SameBooks
  BY <1>2, MarkSame DEF Complete, OperationOf
<1>4. CASE p # "desktop"
  BY <1>3, <1>4, LeavesTrue DEF Complete
<1>5. CASE p = "desktop"
  <2>1. pc'[p] = "open" /\ \A q \in Procs : q # p => pc'[q] = pc[q] /\ plan'[q] = plan[q]
    BY <1>5 DEF Inv, TypeOK, LeaseOK, BooksOK, Complete, Go
  <2>2. Has(p)'
    BY <1>5, <2>1 DEF Has, DesktopHas
  <2> QED BY <1>3, <2>1, <2>2, MovesTrue
<1> QED BY <1>4, <1>5

LEMMA QuitTrue == ASSUME Inv, KeyInv, NEW p \in Procs, Quit(p) \/ Dies(p) PROVE KeyInv'
<1>1. SameBooks /\ Leave(p)
  BY DEF Quit, Dies, SameBooks, Begun, Running
<1> QED BY <1>1, LeavesTrue

LEMMA CustodyFailsTrue == ASSUME Inv, KeyInv, NEW p \in Procs, CustodyFails(p) PROVE KeyInv'
<1>1. Has(p) /\ p # "server" /\ pc[p] \notin Outside \cup {"begin", "finalize"}
  BY DEF KeyInv, CustodyFails, Outside
<1>2. /\ OperationOf(p) = "activation" => Begun
      /\ OperationOf(p) = "promotion" => pc["desktop"] # "finalize"
  BY <1>1 DEF OperationOf, Has, CliHas
<1>3. SameBooks
  BY <1>2, MarkSame DEF CustodyFails, OperationOf
<1> QED BY <1>3, LeavesTrue DEF CustodyFails

LEMMA LaunchTrue == ASSUME Inv, KeyInv, NEW h \in BOOLEAN, Launch(h) PROVE KeyInv'
<1>1. SameBooks
  BY DEF Launch, SameBooks, Begun, Running
<1>2. /\ plan' = plan /\ pc'["desktop"] \in {"mkdir", "open", "stage", "finalize", "settle"}
      /\ \A q \in Procs : q # "desktop" => pc'[q] = pc[q]
  BY DEF Inv, TypeOK, LeaseOK, Launch, Go, Procs
<1>3. pc'["desktop"] = "settle" => root.manifest = "required"
  <2> SUFFICES ASSUME pc'["desktop"] = "settle" PROVE root.manifest = "required"
    OBVIOUS
  <2>1. Decision = "resumable" /\ ~Activated
    BY DEF Launch, Go, Decision
  <2> QED BY <2>1 DEF Decision, Inv, TypeOK, RootOK, Activated
<1>4. pc'["desktop"] = "finalize" => Running("promotion")'
  <2> SUFFICES ASSUME pc'["desktop"] = "finalize" PROVE Running("promotion")
    BY <1>1 DEF Launch, Running
  <2>1. Decision = "resumable" /\ Activated
    BY DEF Launch, Go, Decision
  <2> QED BY <2>1 DEF Decision, Activated
<1>5. Has("desktop")'
  BY <1>1, <1>2, <1>3, <1>4 DEF SameBooks, Has, DesktopHas
<1> QED BY <1>1, <1>2, <1>5, MovesTrue DEF Procs

LEMMA SupersedePromotionTrue == ASSUME Inv, KeyInv, SupersedePromotion PROVE KeyInv'
<1>0. "desktop" \in Procs
  BY DEF Procs
<1>1. CASE Mark("promotion", "failed") /\ UNCHANGED <<lease, pc, plan, desk, stale>>
  <2>1. SameBooks
    BY <1>1, MarkSame DEF SupersedePromotion
  <2> QED BY <1>1, <2>1, SameBooksTrue DEF KeyInv
<1>2. CASE Leave("desktop") /\ UNCHANGED journal
  <2>1. SameBooks
    BY <1>2 DEF SupersedePromotion, SameBooks, Begun, Running
  <2> QED BY <1>0, <1>2, <2>1, LeavesTrue
<1> QED BY <1>1, <1>2 DEF SupersedePromotion

LEMMA FinalizePromotionTrue == ASSUME Inv, Inv', KeyInv, FinalizePromotion PROVE KeyInv'
<1>0. "desktop" \in Procs /\ "desktop" # "server"
  BY DEF Procs
<1>1. SameBooks
  BY DEF FinalizePromotion, SameBooks, Begun, Running
<1>2. CASE Leave("desktop")
  BY <1>0, <1>1, <1>2, LeavesTrue
<1>3. CASE /\ CustodyMatchesPlan
           /\ root.record # NoRecord \/ root.receipt = "staged"
           /\ plan' = [plan EXCEPT !["desktop"] = journal.promotion.plan]
           /\ Go("desktop", IF root.record = NoRecord THEN "receipt" ELSE "complete")
  <2>1. /\ plan'["desktop"] = journal.promotion.plan
        /\ pc'["desktop"] = IF root.record = NoRecord THEN "receipt" ELSE "complete"
        /\ \A q \in Procs : q # "desktop" => pc'[q] = pc[q] /\ plan'[q] = plan[q]
    BY <1>0, <1>3 DEF Inv, TypeOK, LeaseOK, BooksOK, Go
  <2>2. ~Begun => PromotionPlanned(journal.promotion.plan)
    BY DEF KeyInv, Journals, Has, DesktopHas, FinalizePromotion, Procs
  <2>3. ~Begun => Told(journal.promotion.plan.outcome)
    BY <1>3, <2>2 DEF CustodyMatchesPlan, PromotionPlanned, Told, ModeOf, NoState
  <2>4. Has("desktop")'
    BY <1>1, <2>1, <2>2, <2>3 DEF SameBooks, Has, DesktopHas, PromotionPlanned, Told
  <2> QED BY <1>0, <1>1, <2>1, <2>4, MovesTrue
<1> QED BY <1>2, <1>3 DEF FinalizePromotion

\* A process of the activation command: it waits, takes the lease or leaves.
LEMMA InspectTrue == ASSUME Inv, Inv', KeyInv, NEW c \in Clis, Inspect(c) PROVE KeyInv'
<1>0. c \in Procs /\ c \notin {"desktop", "server"}
  BY ClisAssumption DEF Procs
<1>1. SameBooks
  BY DEF Inspect, SameBooks, Begun, Running
<1>2. CASE /\ Interrupted = "applied"
           /\ Go(c, "resuming")
           /\ plan' = [plan EXCEPT ![c] = journal.activation.plan]
  <2>1. /\ plan'[c] = journal.activation.plan /\ pc'[c] = "resuming"
        /\ \A q \in Procs : q # c => pc'[q] = pc[q] /\ plan'[q] = plan[q]
    BY <1>0, <1>2 DEF Inv, TypeOK, LeaseOK, BooksOK, Go
  <2>2. Begun
    BY <1>2 DEF Interrupted, Begun, Running
  <2>3. ActivationPlan(journal.activation.plan)
    BY <2>2 DEF KeyInv, Journals
  <2>4. Has(c)'
    BY <1>0, <2>1, <2>3 DEF Has, CliHas, Outside, ActivationPlan
  <2> QED BY <1>0, <1>1, <2>1, <2>4, MovesTrue
<1>3. CASE /\ Pending /\ Evidence
           /\ (root.safe # "none") # (root.headless # "none")
           /\ Go(c, "waiting")
           /\ \E p \in ActivationPlans : plan' = [plan EXCEPT ![c] = p]
  <2>1. PICK p \in ActivationPlans : plan' = [plan EXCEPT ![c] = p]
    BY <1>3
  <2>2. /\ plan'[c] = p /\ pc'[c] = "waiting"
        /\ \A q \in Procs : q # c => pc'[q] = pc[q] /\ plan'[q] = plan[q]
    BY <1>0, <1>3, <2>1 DEF Inv, TypeOK, LeaseOK, BooksOK, Go
  <2>3. root.safe \in {"none", "old"} /\ root.headless \in {"none", "old"}
    BY <1>3 DEF Evidence, Staged, NoRoot
  <2>4. ActivationPlan(p)
    BY <1>3, <2>1, <2>3 DEF ActivationPlans, ActivationPlan
  <2>5. Has(c)'
    BY <1>0, <2>2, <2>4 DEF Has, CliHas, Outside, ActivationPlan
  <2> QED BY <1>0, <1>1, <2>2, <2>5, MovesTrue
<1> QED BY <1>2, <1>3 DEF Inspect

LEMMA TakeLeaseTrue == ASSUME Inv, Inv', KeyInv, NEW c \in Clis, TakeLease(c) PROVE KeyInv'
<1>0. c \in Procs /\ c \notin {"desktop", "server"}
  BY ClisAssumption DEF Procs
<1>1. SameBooks
  BY DEF TakeLease, SameBooks, Begun, Running
<1>2. CASE StillStaged(c)
  <2>1. /\ plan' = plan /\ pc[c] = "waiting" /\ pc'[c] = "begin"
        /\ \A q \in Procs : q # c => pc'[q] = pc[q]
    BY <1>0, <1>2 DEF Inv, TypeOK, LeaseOK, TakeLease, Go
  <2>2. Has(c) /\ Keys
    BY <1>0 DEF KeyInv
  <2>3. Has(c)'
    BY <1>0, <1>1, <1>2, <2>1, <2>2 DEF SameBooks, StillStaged, Pending, Keys, Has, CliHas, Copied
  <2> QED BY <1>0, <1>1, <2>1, <2>3, MovesTrue
<1>3. CASE ~StillStaged(c)
  BY <1>0, <1>1, <1>3, LeavesTrue DEF TakeLease
<1> QED BY <1>2, <1>3

LEMMA ResumeTrue == ASSUME Inv, Inv', KeyInv, NEW c \in Clis, Resume(c) PROVE KeyInv'
<1>0. c \in Procs /\ c \notin {"desktop", "server"}
  BY ClisAssumption DEF Procs
<1>1. SameBooks
  BY DEF Resume, SameBooks, Begun, Running
<1>2. CASE Resumable(c)
  <2>1. /\ plan' = plan /\ pc[c] = "resuming" /\ pc'[c] = "state"
        /\ \A q \in Procs : q # c => pc'[q] = pc[q]
    BY <1>0, <1>2 DEF Inv, TypeOK, LeaseOK, Resume, Go
  <2>2. Has(c) /\ Keys
    BY <1>0 DEF KeyInv
  <2>3. Has(c)'
    BY <1>0, <1>1, <1>2, <2>1, <2>2 DEF SameBooks, Resumable, Running, Begun, Keys, Has, CliHas, Copied
  <2> QED BY <1>0, <1>1, <2>1, <2>3, MovesTrue
<1>3. CASE ~Resumable(c)
  BY <1>0, <1>1, <1>3, LeavesTrue DEF Resume
<1> QED BY <1>2, <1>3

LEMMA GiveUpTrue == ASSUME Inv, KeyInv, NEW c \in Clis, GiveUp(c) PROVE KeyInv'
<1>1. SameBooks /\ c \in Procs
  BY DEF GiveUp, SameBooks, Begun, Running, Procs
<1> QED BY <1>1, LeavesTrue DEF GiveUp

LEMMA SupersedeActivationTrue == ASSUME Inv, KeyInv, NEW c \in Clis, SupersedeActivation(c) PROVE KeyInv'
<1>0. c \in Procs
  BY DEF Procs
<1>1. CASE Running("activation")
  <2>1. SameBooks
    BY <1>1, MarkSame DEF SupersedeActivation, Running, Begun
  <2> QED BY <1>1, <2>1, SameBooksTrue DEF KeyInv, SupersedeActivation
<1>2. CASE ~Running("activation")
  <2>1. SameBooks
    BY <1>2 DEF SupersedeActivation, SameBooks, Begun, Running
  <2> QED BY <1>0, <1>2, <2>1, LeavesTrue DEF SupersedeActivation
<1> QED BY <1>1, <1>2

\* Once an activation began, no promotion's plan is relied on.
LEMMA BeginActivationTrue == ASSUME Inv, Inv', KeyInv, NEW c \in Clis, BeginActivation(c) PROVE KeyInv'
<1>0. c \in Procs /\ c \notin {"desktop", "server"}
  BY ClisAssumption DEF Procs
<1>1. CASE Running("activation")
  <2>1. SameBooks
    BY <1>1 DEF BeginActivation, SameBooks, Begun, Running
  <2> QED BY <1>0, <1>1, <2>1, LeavesTrue DEF BeginActivation
<1>2. CASE ~Running("activation")
  <2>1. /\ root' = root /\ plan' = plan /\ lease = c
        /\ journal'.activation = [phase |-> "running", plan |-> plan[c]]
        /\ pc[c] = "begin" /\ pc'[c] = IF Archives(plan[c]) THEN "archivedir" ELSE "key"
        /\ \E s : Go(c, s)
    BY <1>0, <1>2 DEF Inv, TypeOK, LeaseOK, BooksOK, BeginActivation, Claim, Go, Outside
  <2>2. Has(c) /\ Keys /\ RecordIsTrue
    BY <1>0 DEF KeyInv
  <2>3. Keys' /\ Journals' /\ Begun'
    BY <1>0, <2>1, <2>2 DEF Keys, Journals, Begun, Copied, Has, CliHas
  <2>4. RecordIsTrue'
    BY <1>0, <2>1, <2>2 DEF RecordIsTrue, Has, CliHas, Outside
  <2>5. Has(c)'
    BY <1>0, <2>1, <2>2, <2>3 DEF Has, CliHas, Outside, Copied
  <2> QED BY <1>0, <2>1, <2>3, <2>4, <2>5, GoesOn DEF KeyInv
<1> QED BY <1>1, <1>2

\* A promotion plans with the keys that were copied.
LEMMA BeginPromotionTrue == ASSUME Inv, Inv', KeyInv, BeginPromotion PROVE KeyInv'
<1> DEFINE p == PromotionPlan(desk.healthy)
<1>0. "desktop" \in Procs /\ "desktop" # "server"
  BY DEF Procs
<1>1. /\ root' = root /\ lease = "desktop" /\ Go("desktop", "state")
      /\ journal'.activation = journal.activation
      /\ journal'.promotion = [phase |-> "running", plan |-> p]
      /\ plan'["desktop"] = p /\ \A q \in Procs : q # "desktop" => plan'[q] = plan[q]
      /\ pc["desktop"] = "settle" /\ pc'["desktop"] = "state"
  BY <1>0 DEF Inv, TypeOK, LeaseOK, BooksOK, BeginPromotion, Claim, Go, Outside
<1>2. Has("desktop") /\ Holds("desktop", pc["desktop"]) /\ Keys /\ Journals /\ RecordIsTrue /\ RootOK
  BY <1>0 DEF KeyInv, Inv, TypeOK
<1>3. Copied /\ root.manifest = "required" /\ ~root.dirty /\ root.record = NoRecord
  BY <1>1, <1>2 DEF Has, DesktopHas, Holds, DesktopAt, Keys
<1>4. ~Begun => PromotionPlanned(p) /\ (p.outcome = "fresh" => root.state = NoState)
  BY <1>2, <1>3 DEF Keys, PromotionPlan, PromotionPlanned, RootOK, Fingerprints
<1> HIDE DEF p
<1>5. Keys' /\ Journals' /\ RecordIsTrue'
  BY <1>1, <1>2, <1>3, <1>4 DEF Keys, Journals, RecordIsTrue, Begun, Copied, PromotionPlanned
<1>6. Has("desktop")'
  BY <1>0, <1>1, <1>3, <1>4 DEF Has, DesktopHas, Begun, PromotionPlanned
<1> QED BY <1>0, <1>1, <1>5, <1>6, GoesOn DEF KeyInv

\* A copy comes with the keys its data is sealed with, and nothing else.
LEMMA StagedTrue ==
    ASSUME Inv, KeyInv, ~root.dir, NEW key, NEW source \in {"plain", "backup"}, root' = Staged(source, key),
           UNCHANGED <<journal, plan>>
    PROVE  /\ Keys' /\ Journals' /\ RecordIsTrue'
           /\ root'.manifest = "required" /\ Copied'
<1>1. /\ root'.data = source /\ root'.manifest = "required" /\ root'.receipt = "staged"
      /\ root'.record = NoRecord /\ root'.state = NoState /\ root'.dirty = FALSE
      /\ root'.safe \in {"none", "old"} /\ root'.headless \in {"none", "old"}
  BY DEF Staged, NoRoot
<1>2. ~Running("promotion") /\ Journals
  BY DEF Inv, Files, KeyInv
<1> QED BY <1>1, <1>2 DEF Keys, Journals, RecordIsTrue, Copied, Begun, Running

LEMMA StageOwnNamespaceTrue == ASSUME Inv, Inv', KeyInv, StageOwnNamespace PROVE KeyInv'
<1>0. "desktop" \in Procs
  BY DEF Procs
<1>1. CASE root.dir
  <2>1. SameBooks /\ Leave("desktop")
    BY <1>1 DEF StageOwnNamespace, SameBooks, Begun, Running
  <2> QED BY <1>0, <2>1, LeavesTrue
<1>2. CASE ~root.dir
  <2>1. /\ root' = Staged("plain", world.key) /\ UNCHANGED <<journal, plan>>
        /\ lease = "desktop" /\ Go("desktop", "settle") /\ pc'["desktop"] = "settle"
    BY <1>0, <1>2 DEF StageOwnNamespace, Inv, TypeOK, LeaseOK, Go, Outside
  <2>2. Keys' /\ Journals' /\ RecordIsTrue' /\ root'.manifest = "required"
    BY <1>2, <2>1, StagedTrue
  <2>3. Has("desktop")'
    BY <2>1, <2>2 DEF Has, DesktopHas
  <2> QED BY <1>0, <2>1, <2>2, <2>3, GoesOn DEF KeyInv
<1> QED BY <1>1, <1>2

LEMMA StageBackupTrue == ASSUME Inv, Inv', KeyInv, StageBackup PROVE KeyInv'
<1>1. Keys' /\ Journals' /\ RecordIsTrue'
  BY StagedTrue DEF StageBackup
<1>2. ASSUME NEW q \in Procs PROVE Has(q)'
  <2>1. pc'[q] = pc[q] /\ plan'[q] = plan[q] /\ pc[q] \in Outside
    BY ClisAssumption DEF StageBackup, Inv, TypeOK, LeaseOK, Procs
  <2>2. Has(q)
    BY DEF KeyInv
  <2> QED BY <2>1, <2>2 DEF Has, DesktopHas, ServerHas, CliHas, Outside
<1> QED BY <1>1, <1>2 DEF KeyInv

LEMMA StartServerTrue == ASSUME Inv, KeyInv, StartServer PROVE KeyInv'
<1>1. SameBooks
  BY DEF StartServer, SameBooks, Begun, Running
<1>2. /\ plan' = plan /\ pc'["server"] \in {"key", "mkdir"}
      /\ \A q \in Procs : q # "server" => pc'[q] = pc[q]
  BY DEF Inv, TypeOK, LeaseOK, StartServer, Go, Procs
<1>3. Has("server")'
  BY <1>2 DEF Has, ServerHas
<1> QED BY <1>1, <1>2, <1>3, MovesTrue DEF Procs

\* A server never makes a key beside copied data.
LEMMA InitializeKeyTrue == ASSUME Inv, Inv', KeyInv, InitializeKey PROVE KeyInv'
<1> DEFINE key == IF root.headless = "none" THEN "new" ELSE root.headless
<1>0. "server" \in Procs /\ "server" # "desktop"
  BY DEF Procs
<1>1. CASE ~KeyAcceptable
  <2>1. SameBooks /\ Leave("server")
    BY <1>1 DEF InitializeKey, SameBooks, Begun, Running
  <2> QED BY <1>0, <2>1, LeavesTrue
<1>2. CASE KeyAcceptable
  <2>1. /\ root' = [root EXCEPT !.headless = key] /\ journal' = journal
        /\ lease = "server" /\ \E s : Go("server", s)
        /\ pc'["server"] = IF root.state = NoState THEN "state" ELSE "open"
        /\ \A q \in Procs : q # "server" => plan'[q] = plan[q]
    BY <1>0, <1>2 DEF InitializeKey, Inv, TypeOK, LeaseOK, BooksOK, Go, Outside
  <2>2. RootOK /\ Keys /\ Journals /\ RecordIsTrue /\ Holds("server", "key")
    BY <1>0 DEF Inv, TypeOK, KeyInv, InitializeKey
  <2>3. Copied => root.headless # "none"
    BY <1>2 DEF KeyAcceptable, Copied
  <2>4. /\ root'.dir = root.dir /\ root'.manifest = root.manifest /\ root'.data = root.data
        /\ root'.dirty = root.dirty /\ root'.receipt = root.receipt /\ root'.record = root.record
        /\ root'.state = root.state /\ root'.safe = root.safe /\ root'.archive = root.archive
        /\ Copied => root'.headless = root.headless
    BY <2>1, <2>2, <2>3 DEF RootOK
  <2>5. Keys' /\ Journals'
    BY <1>0, <2>1, <2>2, <2>4 DEF Keys, Journals, Copied, Begun, Running, PromotionPlanned, Inv, Holds,
       ServerAt
  <2>6. RecordIsTrue'
    BY <2>1, <2>2, <2>4 DEF RecordIsTrue, OverInterrupted, Told, Keys
  <2>7. Has("server")'
    BY <1>0, <1>2, <2>1, <2>4 DEF Has, ServerHas, KeyAcceptable
  <2> QED BY <1>0, <2>1, <2>5, <2>6, <2>7, GoesOn DEF KeyInv
<1> QED BY <1>1, <1>2

LEMMA OldReleaseTrue == ASSUME KeyInv, OldReleaseRuns \/ UNCHANGED vars PROVE KeyInv'
<1>1. SameBooks /\ UNCHANGED <<pc, plan>>
  BY DEF OldReleaseRuns, vars, SameBooks, Begun, Running
<1> QED BY <1>1, SameBooksTrue DEF KeyInv

LEMMA KeysStep == ASSUME Inv, Inv', KeyInv, [Next]_vars PROVE KeyInv'
<1>1. ASSUME NEW p \in Procs,
             \/ MakeRootDirectory(p) \/ WriteEmptyManifest(p) \/ WriteCredentialState(p)
             \/ FlipManifest(p) \/ ArchiveReceipt(p) \/ WriteActivationRecord(p) \/ Complete(p)
             \/ OpenRoot(p) \/ Quit(p) \/ Dies(p) \/ CustodyFails(p)
             \/ (p \in Clis /\ (MakeArchive(p) \/ ArchiveKey(p))) \/ WriteKey(p)
      PROVE  KeyInv'
  BY <1>1, MakeRootDirectoryTrue, WriteEmptyManifestTrue, WriteCredentialStateTrue,
     FlipManifestTrue, ArchiveReceiptTrue, WriteActivationRecordTrue, CompleteTrue,
     OpenRootTrue, QuitTrue, CustodyFailsTrue, MakeArchiveTrue, ArchiveKeyTrue, WriteKeyTrue
<1>2. ASSUME NEW c \in Clis,
             \/ Inspect(c) \/ TakeLease(c) \/ GiveUp(c) \/ SupersedeActivation(c)
             \/ BeginActivation(c) \/ Resume(c)
      PROVE  KeyInv'
  BY <1>2, InspectTrue, TakeLeaseTrue, GiveUpTrue, SupersedeActivationTrue,
     BeginActivationTrue, ResumeTrue
<1>3. CASE Next
  BY <1>1, <1>2, <1>3, Steps, LaunchTrue, StageOwnNamespaceTrue, SupersedePromotionTrue,
     BeginPromotionTrue, FinalizePromotionTrue, StartServerTrue, InitializeKeyTrue,
     StageBackupTrue, OldReleaseTrue
<1> QED BY <1>3, OldReleaseTrue

\* The activation record, once written, describes the keys on disk, however
\* many commands, deaths and failed writes it took to write it, except where a
\* promotion settled a root in the middle of an activation
\* (completeDesktopPromotionCustody, activateStagedHostRoot).
THEOREM RecordsAreTrue == Spec => []RecordIsTrue
<1>1. KeyInv => RecordIsTrue
  BY DEF KeyInv
<1> QED BY <1>1, KeysInit, KeysStep, InvAlways, PTL DEF Spec

=============================================================================

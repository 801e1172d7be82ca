--------------------------- MODULE RootPromotion ----------------------------
(***************************************************************************)
(* The owned data root of a profile, and how it comes to be: promoted by a *)
(* desktop launch from the plain profile directory                         *)
(* (backend/ownership/promoteDesktopRoot.ts), staged from an offline       *)
(* backup and activated by `poracode-server activate`                      *)
(* (activationHostRoot.ts, stageHostImport.ts), or created empty by the    *)
(* first desktop or server (hostRootManifest.ts, ownedSecretKey.ts).       *)
(*                                                                         *)
(* Every change on disk is one atomic rename, and a process may die        *)
(* between any two of them; the next one finds only the files. Whoever     *)
(* changes the root holds the owner lease (HostOwnership), but an          *)
(* activation inspects the root before it has the lease.                   *)
(*                                                                         *)
(* Key material is "old" (the key the copied data is sealed with), "new"   *)
(* (generated since) or "none"; a fingerprint is the key it was taken of.  *)
(***************************************************************************)
EXTENDS Naturals

CONSTANTS
    Clis,        \* activation commands that can be under way at once
    MaxCrashes,  \* bound: deaths of a process that holds the lease
    MaxFaults    \* bound: failed writes that the code catches

\* A process is named once, and "none" is the free lease.
ASSUME ClisAssumption == Clis \cap {"desktop", "server", "none"} = {}

VARIABLES
    world,    \* the plain profile directory and the offline backup
    root,     \* the owned root's files
    journal,  \* host-operations.json
    lease,    \* the process that holds the owner lease
    pc,       \* where each process is
    plan,     \* the custody plan it follows
    desk,     \* the desktop launch: OS key storage healthy? custody inside its try block?
    stale,    \* the interrupted attempt an activation will supersede
    crashes, faults

vars == <<world, root, journal, lease, pc, plan, desk, stale, crashes, faults>>
bounds == <<crashes, faults>>

Procs == {"desktop", "server"} \cup Clis
NoState == [mode |-> "none", print |-> "none"]
NoRecord == [by |-> "none", outcome |-> "none"]
NoPlan == [outcome |-> "none", key |-> "none"]
NoOperation == [phase |-> "none", plan |-> NoPlan]
Idle == [healthy |-> FALSE, tried |-> FALSE]

NoRoot == [dir |-> FALSE, manifest |-> "none", data |-> "none", dirty |-> FALSE,
           receipt |-> "none", record |-> NoRecord, state |-> NoState,
           safe |-> "none", headless |-> "none", archive |-> "none"]

\* A complete staged root, renamed into place.
Staged(source, key) ==
    [NoRoot EXCEPT !.dir = TRUE, !.manifest = "required", !.data = source, !.receipt = "staged",
                   !.safe = IF key = "safe" THEN "old" ELSE "none",
                   !.headless = IF key = "headless" THEN "old" ELSE "none"]

Init ==
    /\ world \in [plain : BOOLEAN, key : {"none", "safe", "headless"}, backup : {"safe", "headless"}]
    /\ root = NoRoot
    /\ journal = [promotion |-> NoOperation, activation |-> NoOperation]
    /\ lease = "none"
    /\ pc = [p \in Procs |-> "off"]
    /\ plan = [p \in Procs |-> NoPlan]
    /\ desk = Idle
    /\ stale = [c \in Clis |-> FALSE]
    /\ crashes = 0 /\ faults = 0

(***************************************************************************)
(* What a process reads off the disk.                                      *)
(***************************************************************************)

Running(operation) == journal[operation].phase = "running"
Pending == root.manifest = "required" /\ root.receipt = "staged"
Activated == root.manifest \in {"empty", "ready"}
StagedKey == IF root.data = "plain" THEN world.key ELSE world.backup

\* The inventory and the database are still those of the receipt.
Evidence ==
    LET copy == Staged(root.data, StagedKey)
    IN /\ ~root.dirty
       /\ root.archive = "none" /\ root.state = NoState /\ root.record = NoRecord
       /\ root.safe = copy.safe /\ root.headless = copy.headless

\* Faulty neighbours of Decision, for the mutant runs: any activated root is
\* ready; a root staged from a backup is ready; an activated root is judged by
\* its record alone.
DecisionTrusting ==
    IF root.manifest = "none"
    THEN IF world.plain THEN "required" ELSE "fresh"
    ELSE IF root.manifest = "required"
    THEN IF Pending /\ root.data = "plain" THEN "resumable" ELSE "refuse"
    ELSE IF Running("promotion") THEN "resumable" ELSE "ready"
DecisionOfForeignStaging ==
    IF root.manifest = "none"
    THEN IF world.plain THEN "required" ELSE "fresh"
    ELSE IF Pending /\ root.data = "plain" THEN "resumable" ELSE "ready"
DecisionWithoutJournal ==
    IF root.manifest = "none"
    THEN IF world.plain THEN "required" ELSE "fresh"
    ELSE IF root.manifest = "required"
    THEN IF Pending /\ root.data = "plain" THEN "resumable" ELSE "refuse"
    ELSE IF ~world.plain \/ (root.record # NoRecord /\ root.data = "plain") THEN "ready"
    ELSE "refuse"

\* No launch changes anything on the strength of this alone.
Decision ==
    IF root.manifest = "none"
    THEN IF world.plain THEN "required" ELSE "fresh"
    ELSE IF root.manifest = "required"
    THEN IF Pending /\ root.data = "plain" THEN "resumable" ELSE "refuse"
    ELSE IF Running("promotion") THEN "resumable"
    ELSE IF ~world.plain \/ (root.record # NoRecord /\ root.data = "plain") THEN "ready"
    ELSE "refuse"

\* The credential state a custody outcome leaves.
ModeOf(outcome) ==
    CASE outcome = "sealed" -> "os-sealed"
      [] outcome = "session" -> "session-only"
      [] outcome \in {"existing", "adopted", "signin"} -> "headless-file"
      [] OTHER -> "none"
StateOf(p) == [mode |-> ModeOf(p.outcome), print |-> p.key]

\* The desktop keeps its key where it is.
PromotionPlan(healthy) ==
    IF root.headless # "none" THEN [outcome |-> "existing", key |-> root.headless]
    ELSE IF root.safe = "none" THEN [outcome |-> "fresh", key |-> "none"]
    ELSE IF healthy THEN [outcome |-> "sealed", key |-> root.safe]
    ELSE [outcome |-> "session", key |-> "none"]

\* An activation ends with a plain key file: the one it finds, the unsealed
\* one, or, if the user signs in again, a new one.
ActivationPlans ==
    IF root.headless # "none" THEN {[outcome |-> "existing", key |-> root.headless]}
    ELSE {[outcome |-> "adopted", key |-> root.safe], [outcome |-> "signin", key |-> "new"]}
Archives(p) == p.outcome \in {"adopted", "signin"}

(***************************************************************************)
(* Steps every process takes.                                              *)
(***************************************************************************)
Go(p, step) == pc' = [pc EXCEPT ![p] = step]

\* The process ends or gives up; its lease is free again.
Leave(p) ==
    /\ lease' = IF lease = p THEN "none" ELSE lease
    /\ pc' = [pc EXCEPT ![p] = "off"]
    /\ plan' = [plan EXCEPT ![p] = NoPlan]
    /\ desk' = IF p = "desktop" THEN Idle ELSE desk
    /\ stale' = [c \in Clis |-> c # p /\ stale[c]]

Mark(operation, phase) == journal' = [journal EXCEPT ![operation].phase = phase]
Claim(operation, p) == journal' = [journal EXCEPT ![operation] = [phase |-> "running", plan |-> p]]

\* A desktop promotes; an activation command activates.
OperationOf(p) == IF p = "desktop" THEN "promotion" ELSE "activation"

MakeRootDirectory(p) ==
    /\ pc[p] = "mkdir"
    /\ root' = [root EXCEPT !.dir = TRUE]
    /\ Go(p, "manifest")
    /\ UNCHANGED <<world, journal, lease, plan, desk, stale, bounds>>

WriteEmptyManifest(p) ==
    /\ pc[p] = "manifest"
    /\ root' = [root EXCEPT !.manifest = "empty"]
    /\ Go(p, IF p = "desktop" THEN "open" ELSE "key")
    /\ UNCHANGED <<world, journal, lease, plan, desk, stale, bounds>>

\* For the mutant runs: a state an earlier attempt left is kept.
WriteCredentialStateOnce(p) ==
    /\ pc[p] = "state"
    /\ root' = [root EXCEPT !.state = IF plan[p].outcome = "fresh" \/ @ # NoState THEN @ ELSE StateOf(plan[p])]
    /\ Go(p, IF p = "server" THEN "open" ELSE "flip")
    /\ UNCHANGED <<world, journal, lease, plan, desk, stale, bounds>>

WriteCredentialState(p) ==
    /\ pc[p] = "state"
    /\ root' = [root EXCEPT !.state = IF plan[p].outcome = "fresh" THEN @ ELSE StateOf(plan[p])]
    /\ Go(p, IF p = "server" THEN "open" ELSE "flip")
    /\ UNCHANGED <<world, journal, lease, plan, desk, stale, bounds>>

FlipManifest(p) ==
    /\ pc[p] = "flip"
    /\ root' = [root EXCEPT !.manifest = "ready"]
    /\ Go(p, "receipt")
    /\ UNCHANGED <<world, journal, lease, plan, desk, stale, bounds>>

ArchiveReceipt(p) ==
    /\ pc[p] = "receipt"
    /\ root' = [root EXCEPT !.receipt = "archived",
                            !.archive = IF @ = "none" THEN "dir" ELSE @]
    /\ Go(p, "record")
    /\ UNCHANGED <<world, journal, lease, plan, desk, stale, bounds>>

WriteActivationRecord(p) ==
    /\ pc[p] = "record"
    /\ root' = [root EXCEPT !.record = [by |-> OperationOf(p), outcome |-> plan[p].outcome]]
    /\ Go(p, "complete")
    /\ UNCHANGED <<world, journal, lease, plan, desk, stale, bounds>>

\* The last step of an operation: a desktop goes on to open the root, an
\* activation command is done.
Complete(p) ==
    /\ pc[p] = "complete"
    /\ Mark(OperationOf(p), "completed")
    /\ IF p = "desktop"
       THEN Go(p, "open") /\ plan' = [plan EXCEPT ![p] = NoPlan] /\ UNCHANGED <<lease, desk, stale>>
       ELSE Leave(p)
    /\ UNCHANGED <<world, root, bounds>>

\* The database is opened and written. A desktop with OS key storage makes
\* itself a sealed key if it finds none.
OpenRoot(p) ==
    /\ pc[p] = "open"
    /\ root' = [root EXCEPT !.dirty = TRUE,
                            !.data = IF @ = "none" THEN "fresh" ELSE @,
                            !.safe = IF p = "desktop" /\ desk.healthy /\ @ = "none" THEN "new" ELSE @]
    /\ Go(p, "serving")
    /\ UNCHANGED <<world, journal, lease, plan, desk, stale, bounds>>

Quit(p) ==
    /\ pc[p] = "serving"
    /\ Leave(p)
    /\ UNCHANGED <<world, root, journal, bounds>>

\* A kill, or an error that nothing catches.
Dies(p) ==
    /\ lease = p /\ crashes < MaxCrashes
    /\ crashes' = crashes + 1
    /\ Leave(p)
    /\ UNCHANGED <<world, root, journal, faults>>

\* A write inside the journaled window fails, and the attempt is recorded as failed.
CustodyFails(p) ==
    /\ pc[p] \in {"archivedir", "archive", "key", "state", "flip", "receipt", "record", "complete"}
    /\ p # "server" /\ (p = "desktop" => desk.tried)
    /\ faults < MaxFaults /\ faults' = faults + 1
    /\ Mark(OperationOf(p), "failed")
    /\ Leave(p)
    /\ UNCHANGED <<world, root, crashes>>

(***************************************************************************)
(* A desktop launch, under the owner lease (ensureDesktopOwnedRoot).       *)
(***************************************************************************)
Launch(healthy) ==
    /\ pc["desktop"] = "off" /\ lease = "none" /\ Decision # "refuse"
    /\ lease' = "desktop"
    /\ desk' = [Idle EXCEPT !.healthy = healthy]
    /\ Go("desktop", CASE Decision = "fresh" -> "mkdir"
                       [] Decision = "ready" -> "open"
                       [] Decision = "required" -> "stage"
                       [] OTHER -> IF Activated THEN "finalize" ELSE "settle")
    /\ UNCHANGED <<world, root, journal, plan, stale, bounds>>

\* A bare directory in the way is refused.
StageOwnNamespace ==
    /\ pc["desktop"] = "stage"
    /\ \/ /\ ~root.dir
          /\ root' = Staged("plain", world.key)
          /\ Go("desktop", "settle")
          /\ UNCHANGED <<lease, plan, desk, stale>>
       \/ /\ root.dir
          /\ Leave("desktop") /\ UNCHANGED root
    /\ UNCHANGED <<world, journal, bounds>>

\* An interrupted attempt that left no credential state is redone from what
\* was staged, and only if that is unchanged.
SupersedePromotion ==
    /\ pc["desktop"] = "settle" /\ Running("promotion")
    /\ \/ /\ root.state # NoState \/ Evidence
          /\ Mark("promotion", "failed")
          /\ UNCHANGED <<lease, pc, plan, desk, stale>>
       \/ /\ root.state = NoState /\ ~Evidence
          /\ Leave("desktop") /\ UNCHANGED journal
    /\ UNCHANGED <<world, root, bounds>>

BeginPromotion ==
    /\ pc["desktop"] = "settle" /\ ~Running("promotion")
    /\ LET p == PromotionPlan(desk.healthy)
       IN Claim("promotion", p) /\ plan' = [plan EXCEPT !["desktop"] = p]
    /\ desk' = [desk EXCEPT !.tried = TRUE]
    /\ Go("desktop", "state")
    /\ UNCHANGED <<world, root, lease, stale, bounds>>

\* A promotion whose manifest was flipped is finished from its journal, if
\* the credential state is the one planned and the record can still be written.
CustodyMatchesPlan ==
    LET p == journal.promotion.plan
    IN IF p.outcome = "fresh" THEN root.state = NoState
       ELSE /\ root.state.mode = ModeOf(p.outcome)
            /\ p.outcome = "session" \/ root.state.print = p.key

FinalizePromotion ==
    /\ pc["desktop"] = "finalize"
    /\ \/ /\ CustodyMatchesPlan
          /\ root.record # NoRecord \/ root.receipt = "staged"
          /\ plan' = [plan EXCEPT !["desktop"] = journal.promotion.plan]
          /\ Go("desktop", IF root.record = NoRecord THEN "receipt" ELSE "complete")
          /\ UNCHANGED <<lease, desk, stale>>
       \/ /\ \/ ~CustodyMatchesPlan
             \/ root.record = NoRecord /\ root.receipt # "staged"
          /\ Leave("desktop")
    /\ UNCHANGED <<world, root, journal, bounds>>

(***************************************************************************)
(* `poracode-server activate` (activateStagedHostRoot).                    *)
(***************************************************************************)

\* Without the lease: an interrupted attempt is classified, the staged
\* evidence checked and the key unsealed by a cooperating desktop.
\* "stale": nothing of the attempt landed; "applied": its key did.
Interrupted ==
    IF ~Running("activation") THEN "no"
    ELSE IF root.headless # "none"
    THEN IF Archives(journal.activation.plan) /\ root.safe # "none" THEN "refuse" ELSE "applied"
    ELSE IF Archives(journal.activation.plan) /\ root.safe = "none" THEN "refuse" ELSE "stale"

Inspect(c) ==
    /\ pc[c] = "off"
    /\ \/ /\ Interrupted = "applied"
          /\ Go(c, "resuming")
          /\ plan' = [plan EXCEPT ![c] = journal.activation.plan]
          /\ UNCHANGED stale
       \/ /\ Interrupted \in {"no", "stale"}
          /\ Pending /\ Evidence
          /\ (root.safe # "none") # (root.headless # "none")
          /\ Go(c, "waiting")
          /\ \E p \in ActivationPlans : plan' = [plan EXCEPT ![c] = p]
          /\ stale' = [stale EXCEPT ![c] = Interrupted = "stale"]
    /\ UNCHANGED <<world, root, journal, lease, desk, bounds>>

\* With the lease everything is checked again.
StillStaged(c) ==
    /\ Pending /\ Evidence
    /\ IF Archives(plan[c]) THEN root.safe = "old" ELSE root.headless = plan[c].key

TakeLease(c) ==
    /\ pc[c] = "waiting" /\ lease = "none"
    /\ IF StillStaged(c)
       THEN lease' = c /\ Go(c, "begin") /\ UNCHANGED <<plan, desk, stale>>
       ELSE Leave(c)
    /\ UNCHANGED <<world, root, journal, bounds>>

\* The operator does not quit the desktop in time.
GiveUp(c) ==
    /\ pc[c] \in {"waiting", "resuming"} /\ lease # "none"
    /\ Leave(c)
    /\ UNCHANGED <<world, root, journal, bounds>>

SupersedeActivation(c) ==
    /\ pc[c] = "begin" /\ stale[c]
    /\ IF Running("activation")
       THEN /\ Mark("activation", "failed")
            /\ stale' = [stale EXCEPT ![c] = FALSE]
            /\ UNCHANGED <<lease, pc, plan, desk>>
       ELSE Leave(c) /\ UNCHANGED journal
    /\ UNCHANGED <<world, root, bounds>>

BeginActivation(c) ==
    /\ pc[c] = "begin" /\ ~stale[c]
    /\ IF Running("activation")
       THEN Leave(c) /\ UNCHANGED journal
       ELSE /\ Claim("activation", plan[c])
            /\ Go(c, IF Archives(plan[c]) THEN "archivedir" ELSE "key")
            /\ UNCHANGED <<lease, plan, desk, stale>>
    /\ UNCHANGED <<world, root, bounds>>

MakeArchive(c) ==
    /\ pc[c] = "archivedir"
    /\ root' = [root EXCEPT !.archive = IF @ = "none" THEN "dir" ELSE @]
    /\ Go(c, "archive")
    /\ UNCHANGED <<world, journal, lease, plan, desk, stale, bounds>>

ArchiveKey(c) ==
    /\ pc[c] = "archive"
    /\ root' = [root EXCEPT !.archive = root.safe, !.safe = "none"]
    /\ Go(c, "key")
    /\ UNCHANGED <<world, journal, lease, plan, desk, stale, bounds>>

\* An activation writes the key it planned, a server the one it generates.
WriteKey(p) ==
    /\ pc[p] = "key" /\ p \in Clis
    /\ root' = [root EXCEPT !.headless = plan[p].key]
    /\ Go(p, "state")
    /\ UNCHANGED <<world, journal, lease, plan, desk, stale, bounds>>

\* An attempt whose key landed is completed, unless it or the root changed.
Resumable(c) ==
    /\ Running("activation")
    /\ root.receipt = "staged" /\ ~root.dirty
    /\ root.headless # "none" /\ root.headless = plan[c].key

Resume(c) ==
    /\ pc[c] = "resuming" /\ lease = "none"
    /\ IF Resumable(c)
       THEN lease' = c /\ Go(c, "state") /\ UNCHANGED <<plan, desk, stale>>
       ELSE Leave(c)
    /\ UNCHANGED <<world, root, journal, bounds>>

(***************************************************************************)
(* A headless server (prepareOwnedHostRoot, initializeKey).                *)
(***************************************************************************)
StartServer ==
    /\ pc["server"] = "off" /\ lease = "none"
    /\ \/ Activated /\ Go("server", "key")
       \/ /\ root.manifest = "none" /\ ~world.plain /\ world.key = "none"
          /\ Go("server", "mkdir")
    /\ lease' = "server"
    /\ UNCHANGED <<world, root, journal, plan, desk, stale, bounds>>

\* For the mutant runs: a root without credential state counts as new.
KeyAcceptableBesideData ==
    /\ root.safe = "none"
    /\ root.state # NoState =>
            /\ root.state.mode = "headless-file"
            /\ root.headless # "none" /\ root.headless = root.state.print

\* Which key files and credential state a server accepts.
KeyAcceptable ==
    /\ root.safe = "none"
    /\ IF root.state = NoState THEN root.data = "none"
       ELSE /\ root.state.mode = "headless-file"
            /\ root.headless # "none" /\ root.headless = root.state.print

InitializeKey ==
    /\ pc["server"] = "key"
    /\ IF KeyAcceptable
       THEN LET key == IF root.headless = "none" THEN "new" ELSE root.headless
            IN /\ root' = [root EXCEPT !.headless = key]
               /\ plan' = [plan EXCEPT !["server"] = [outcome |-> "existing", key |-> key]]
               /\ Go("server", IF root.state = NoState THEN "state" ELSE "open")
               /\ UNCHANGED <<lease, desk, stale>>
       ELSE Leave("server") /\ UNCHANGED root
    /\ UNCHANGED <<world, journal, bounds>>

(***************************************************************************)
(* What others do to the profile.                                          *)
(***************************************************************************)

\* An offline backup is staged on purpose (HostOwnerController.stageImport).
StageBackup ==
    /\ lease = "none" /\ ~root.dir
    /\ root' = Staged("backup", world.backup)
    /\ UNCHANGED <<world, journal, lease, pc, plan, desk, stale, bounds>>

\* A release from before the owned root runs: the plain directory gets a database.
OldReleaseRuns ==
    /\ lease = "none" /\ ~world.plain
    /\ world' = [world EXCEPT !.plain = TRUE, !.key = "safe"]
    /\ UNCHANGED <<root, journal, lease, pc, plan, desk, stale, bounds>>

(***************************************************************************)
CustodyStep(p) ==
    \/ MakeRootDirectory(p) \/ WriteEmptyManifest(p) \/ WriteCredentialState(p) \/ FlipManifest(p)
    \/ ArchiveReceipt(p) \/ WriteActivationRecord(p) \/ Complete(p) \/ OpenRoot(p) \/ Quit(p)
DesktopStep == StageOwnNamespace \/ SupersedePromotion \/ BeginPromotion \/ FinalizePromotion
CliStep(c) ==
    \/ TakeLease(c) \/ GiveUp(c) \/ SupersedeActivation(c) \/ BeginActivation(c)
    \/ MakeArchive(c) \/ ArchiveKey(c) \/ WriteKey(c) \/ Resume(c)
Launches == \E healthy \in BOOLEAN : Launch(healthy)

Next ==
    \/ Launches \/ DesktopStep \/ StartServer \/ InitializeKey \/ StageBackup \/ OldReleaseRuns
    \/ \E p \in Procs : CustodyStep(p) \/ Dies(p) \/ CustodyFails(p)
    \/ \E c \in Clis : Inspect(c) \/ CliStep(c)

Spec == Init /\ [][Next]_vars

\* A process that has the lease goes on until it is done, an owner that serves
\* is stopped at some time, and the user keeps launching the desktop.
FairSpec ==
    /\ Spec
    /\ \A p \in Procs : WF_vars(CustodyStep(p))
    /\ WF_vars(DesktopStep) /\ WF_vars(InitializeKey)
    /\ \A c \in Clis : WF_vars(CliStep(c))
    /\ SF_vars(Launches)

(***************************************************************************)
(* Properties.                                                             *)
(***************************************************************************)
Fingerprints == {"none", "old", "new"}
Outcomes == {"none", "sealed", "session", "existing", "adopted", "signin", "fresh"}
Plans == [outcome : Outcomes, key : Fingerprints]
Operations == [phase : {"none", "running", "failed", "completed"}, plan : Plans]

\* Where a process is without the lease, and with it.
Outside == {"off", "waiting", "resuming"}
Custody == {"state", "flip", "receipt", "record", "complete"}
Inside == Custody \cup {"mkdir", "manifest", "open", "serving", "stage", "settle", "finalize",
                        "begin", "archivedir", "archive", "key"}

WorldOK == world \in [plain : BOOLEAN, key : {"none", "safe", "headless"}, backup : {"safe", "headless"}]
RootOK ==
    root \in [dir : BOOLEAN, manifest : {"none", "empty", "required", "ready"},
              data : {"none", "fresh", "plain", "backup"}, dirty : BOOLEAN,
              receipt : {"none", "staged", "archived"},
              record : [by : {"none", "promotion", "activation"}, outcome : Outcomes],
              state : [mode : {"none", "os-sealed", "session-only", "headless-file"}, print : Fingerprints],
              safe : Fingerprints, headless : Fingerprints, archive : {"none", "dir", "old", "new"}]
LeaseOK ==
    /\ lease \in Procs \cup {"none"}
    /\ pc \in [Procs -> Outside \cup Inside]
    /\ \A p \in Procs : pc[p] \notin Outside <=> lease = p

BooksOK ==
    /\ journal \in [promotion : Operations, activation : Operations]
    /\ plan \in [Procs -> Plans]
    /\ desk \in [healthy : BOOLEAN, tried : BOOLEAN]
    /\ stale \in [Clis -> BOOLEAN]

\* Shapes of the variables, and that only the holder of the lease is past its
\* lease-free steps.
TypeOK == WorldOK /\ RootOK /\ LeaseOK /\ BooksOK

\* A desktop that finds a database in the plain profile directory serves that
\* data and never an empty root or another lineage beside it
\* (inspectDesktopRootPromotion: "two independent data roots exist").
ServesThePromotion ==
    pc["desktop"] = "serving" /\ world.plain => root.data = "plain" /\ root.record # NoRecord

\* The activation record, once written, describes the keys on disk: a
\* credential state of the recorded outcome, taken of the key that is there,
\* and "existing" or "adopted" means the key the data is sealed with. The one
\* exception is a promotion that settled a root in the middle of an activation.
OverInterrupted == root.record.by = "promotion" /\ journal.activation.phase # "none"
RecordIsTrue ==
    root.record # NoRecord /\ ~OverInterrupted =>
        /\ root.state.mode = ModeOf(root.record.outcome)
        /\ root.record.outcome \in {"existing", "adopted"} => root.headless = "old" /\ root.state.print = "old"
        /\ root.record.outcome = "signin" => root.headless = "new" /\ root.state.print = "new" /\ root.archive = "old"
        /\ root.record.outcome = "sealed" => root.safe = "old" /\ root.state.print = "old"

\* Once services have written to the root, no promotion and no activation
\* touches its keys or its credential state again.
ServedKeepsCustody ==
    [][root.dirty => root'.state = root.state /\ root'.headless = root.headless
                     /\ root'.archive \in {root.archive, "dir"}]_root

\* The owned root gets its data once, from one source, and is served only
\* after it was activated.
Serving == \E p \in Procs : pc[p] = "serving"
Promise == INSTANCE OneRoot WITH lineage <- root.data, active <- Activated, serving <- Serving
ImplementsOneRoot == Promise!Spec

\* What may keep a promotion from being finished: a directory without a
\* manifest is in the way; the receipt was archived and the record not
\* written; a write failed after the manifest was activated; or `activate` was
\* run on the staged copy.
BareDirectory == root.manifest = "none" /\ root.dir /\ world.plain
RecordLost == Activated /\ Running("promotion") /\ root.record = NoRecord /\ root.receipt = "archived"
PromotionGivenUp == Activated /\ journal.promotion.phase = "failed" /\ root.record = NoRecord
TakenByActivation == journal.activation.phase # "none"

\* A promotion that is due or was interrupted is finished by a later launch,
\* which serves its data, except in the four states above or when a backup was
\* staged before the copy began.
PromotionFinishes ==
    Decision \in {"required", "resumable"} ~>
        \/ pc["desktop"] = "serving" /\ root.data = "plain"
        \/ root.data = "backup"
        \/ BareDirectory \/ RecordLost \/ PromotionGivenUp \/ TakenByActivation
=============================================================================

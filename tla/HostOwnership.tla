--------------------------- MODULE HostOwnership ---------------------------
(***************************************************************************)
(* Who may write one Poracode profile.  Two kernel locks decide:           *)
(*                                                                         *)
(*   - the owner lease (backend/ownership/hostOwnerLease.ts) is held by    *)
(*     the owner PROCESS: a desktop main process or a headless server;     *)
(*   - the data fence (backend/ownership/hostDataFence.ts) is held by the  *)
(*     forked backend CHILD of a desktop for as long as its SQLite handle  *)
(*     is open.  Owners only probe it (take it and give it straight back); *)
(*     a headless server opens the database in process, without the fence. *)
(*                                                                         *)
(* A process can be killed at any step; its locks are released then, its   *)
(* children live on until they notice the closed IPC channel.              *)
(***************************************************************************)
EXTENDS Naturals, FiniteSets

CONSTANTS
    Desktops,       \* desktop main processes (each slot is reused by later launches)
    Servers,        \* headless server processes
    Children,       \* slots for forked backend children
    NoProc,         \* no process
    MaxEpoch,       \* bound: number of owner generations explored
    ParentPidTracked, \* TRUE on POSIX: process.ppid of an orphan is no longer its parent
    GrantAtomic     \* TRUE: nobody runs between a child's grant check and its fence lock

Mains == Desktops \cup Servers

ASSUME ProcessAssumption ==
    /\ Desktops \cap Servers = {}
    /\ Children \cap Mains = {}
    /\ NoProc \notin Mains \cup Children
ASSUME BoundAssumption == MaxEpoch \in Nat
ASSUME FlagAssumption == ParentPidTracked \in BOOLEAN /\ GrantAtomic \in BOOLEAN

VARIABLES
    lease,      \* process holding the exclusive lock of host-owner.sqlite
    fence,      \* process holding the exclusive lock of host-data.sqlite
    epoch,      \* owner generations handed out so far (a generation is a fresh UUID)
    record,     \* owner.json, the unlocked description of the owner
    main,       \* the owner processes
    backend,    \* the backend children
    lastGen     \* history: generation of the process that opened the database last

vars == <<lease, fence, epoch, record, main, backend, lastGen>>

(* "off" no process; "locked" lease committed, record not written; "owned"  *)
(* record written; "probing" holds the fence as a probe; "admitted" probe   *)
(* released; "writing" a server's database is open; "disposing" a desktop   *)
(* retires its child, a server closed its database; "stopping" record says  *)
(* stopped; "released" lease given back, process still alive.               *)
MainPC == {"off", "locked", "owned", "probing", "admitted", "writing",
           "disposing", "stopping", "released"}

(* "forked" initialize not run yet; "granted" delegation validated; "fenced" *)
(* holds the fence; "writing" database open; "draining" shutting down with   *)
(* the database open; "closed" database closed, fence held; "ended" fence    *)
(* released; "refused" initialization failed.                                *)
ChildPC == {"free", "forked", "granted", "fenced", "writing", "draining",
            "closed", "ended", "refused"}

FreeChild == [pc |-> "free", gen |-> 0, parent |-> NoProc, signal |-> "none"]

Init ==
    /\ lease = NoProc
    /\ fence = NoProc
    /\ epoch = 0
    /\ record = [gen |-> 0, phase |-> "stopped"]
    /\ main = [m \in Mains |-> [pc |-> "off", gen |-> 0]]
    /\ backend = [c \in Children |-> FreeChild]
    /\ lastGen = 0

-----------------------------------------------------------------------------
(* The owner lease.                                                        *)

\* BEGIN EXCLUSIVE .. COMMIT: a busy lock is HostRootInUseError and changes nothing.
AcquireLease(m) ==
    /\ main[m].pc = "off"
    /\ lease = NoProc
    /\ epoch < MaxEpoch
    /\ lease' = m
    /\ epoch' = epoch + 1
    /\ main' = [main EXCEPT ![m] = [pc |-> "locked", gen |-> epoch + 1]]
    /\ UNCHANGED <<fence, record, backend, lastGen>>

\* The discovery record follows the commit.
WriteRecord(m) ==
    /\ main[m].pc = "locked"
    /\ record' = [gen |-> main[m].gen, phase |-> "running"]
    /\ main' = [main EXCEPT ![m].pc = "owned"]
    /\ UNCHANGED <<lease, fence, epoch, backend, lastGen>>

\* writeRecord threw: acquire closes the database and rethrows.
WriteRecordFails(m) ==
    /\ main[m].pc = "locked"
    /\ lease' = NoProc
    /\ main' = [main EXCEPT ![m].pc = "off"]
    /\ UNCHANGED <<fence, epoch, record, backend, lastGen>>

\* release(): the record is marked stopped before the lock goes; a failed
\* write of it is swallowed.
StopRecord(m) ==
    /\ \/ record' = [gen |-> main[m].gen, phase |-> "stopped"]
       \/ UNCHANGED record
    /\ main' = [main EXCEPT ![m].pc = "stopping"]
    /\ UNCHANGED <<lease, fence, epoch, backend, lastGen>>

ReleaseLease(m) ==
    /\ main[m].pc = "stopping"
    /\ lease' = NoProc
    /\ main' = [main EXCEPT ![m].pc = "released"]
    /\ UNCHANGED <<fence, epoch, record, backend, lastGen>>

\* The process is gone and its IPC channel with it.
ExitMain(m) ==
    /\ main[m].pc = "released"
    /\ main' = [main EXCEPT ![m].pc = "off"]
    /\ UNCHANGED <<lease, fence, epoch, record, backend, lastGen>>

\* A kill at any step: the kernel drops the locks, the record stays.
CrashMain(m) ==
    /\ main[m].pc # "off"
    /\ main' = [main EXCEPT ![m].pc = "off"]
    /\ lease' = IF lease = m THEN NoProc ELSE lease
    /\ fence' = IF fence = m THEN NoProc ELSE fence
    /\ UNCHANGED <<epoch, record, backend, lastGen>>

-----------------------------------------------------------------------------
(* Admission: prove that nobody holds the fence, then give it back.        *)

ProbeFence(m) ==
    /\ main[m].pc = "owned"
    /\ fence = NoProc
    /\ fence' = m
    /\ main' = [main EXCEPT ![m].pc = "probing"]
    /\ UNCHANGED <<lease, epoch, record, backend, lastGen>>

\* Fault: the fence is taken for good before the probe is given back.
ReleaseProbeAfterRetake(m) ==
    /\ main[m].pc = "probing"
    /\ fence = NoProc
    /\ main' = [main EXCEPT ![m].pc = "admitted"]
    /\ UNCHANGED <<lease, fence, epoch, record, backend, lastGen>>

ReleaseProbe(m) ==
    /\ main[m].pc = "probing"
    /\ fence' = NoProc
    /\ main' = [main EXCEPT ![m].pc = "admitted"]
    /\ UNCHANGED <<lease, epoch, record, backend, lastGen>>

\* The fence stayed busy through every attempt: the lease is released again.
AdmissionRefused(m) ==
    /\ main[m].pc = "owned"
    /\ fence # NoProc
    /\ StopRecord(m)

-----------------------------------------------------------------------------
(* A headless server opens the database in its own process.                *)

OpenServerDatabase(m) ==
    /\ m \in Servers
    /\ main[m].pc = "admitted"
    /\ main' = [main EXCEPT ![m].pc = "writing"]
    /\ lastGen' = main[m].gen
    /\ UNCHANGED <<lease, fence, epoch, record, backend>>

\* A refused close keeps the state (and the lease), so it is no step.
CloseServerDatabase(m) ==
    /\ m \in Servers
    /\ main[m].pc = "writing"
    /\ main' = [main EXCEPT ![m].pc = "disposing"]
    /\ UNCHANGED <<lease, fence, epoch, record, backend, lastGen>>

\* dispose() after the close, or an aborted start before the open.
StopServer(m) ==
    /\ m \in Servers
    /\ main[m].pc \in {"admitted", "disposing"}
    /\ StopRecord(m)

-----------------------------------------------------------------------------
(* A desktop main process forks, retires and joins its backend child.      *)

Live(c) == backend[c].pc # "free"
OwnChild(m, c) == Live(c) /\ backend[c].parent = m /\ backend[c].gen = main[m].gen

\* The IPC channel of c is open: the very process that forked it still runs.
Connected(c) ==
    LET p == backend[c].parent IN
    p \in Mains /\ main[p].pc # "off" /\ main[p].gen = backend[c].gen

\* spawn(): never beside a live or unconfirmed predecessor.
Spawn(m, c) ==
    /\ m \in Desktops
    /\ main[m].pc = "admitted"
    /\ \A d \in Children : ~OwnChild(m, d)
    /\ ~Live(c)
    /\ backend' = [backend EXCEPT ![c] = [pc |-> "forked", gen |-> main[m].gen,
                                      parent |-> m, signal |-> "none"]]
    /\ UNCHANGED <<lease, fence, epoch, record, main, lastGen>>

\* retireChild(): failed initialization or a dead channel; SIGTERM is sent.
Retire(m, c) ==
    /\ main[m].pc = "admitted"
    /\ OwnChild(m, c)
    /\ backend[c].signal = "none"
    /\ backend' = [backend EXCEPT ![c].signal = "term"]
    /\ UNCHANGED <<lease, fence, epoch, record, main, lastGen>>

\* performDisposal(): no spawn from here on; the child is retired.
DisposeBackend(m) ==
    /\ m \in Desktops
    /\ main[m].pc = "admitted"
    /\ main' = [main EXCEPT ![m].pc = "disposing"]
    /\ backend' = [c \in Children |->
                    IF OwnChild(m, c) THEN [backend[c] EXCEPT !.signal = "term"] ELSE backend[c]]
    /\ UNCHANGED <<lease, fence, epoch, record, lastGen>>

\* will-quit releases the lease whether or not the bounded join confirmed the exit.
StopDesktop(m) ==
    /\ m \in Desktops
    /\ main[m].pc = "disposing"
    /\ StopRecord(m)

-----------------------------------------------------------------------------
(* The backend child.                                                      *)

\* Fault: the generation in owner.json is not compared with the grant's.
GrantValidAnyGeneration(c) ==
    /\ record.phase # "stopped"
    /\ ParentPidTracked => Connected(c)

\* assertParentRecord(): owner.json still names this grant and this parent.
GrantValid(c) ==
    /\ record.gen = backend[c].gen
    /\ record.phase # "stopped"
    /\ ParentPidTracked => Connected(c)

CheckGrant(c) ==
    /\ backend[c].pc = "forked"
    /\ backend' = [backend EXCEPT ![c].pc = IF GrantValid(c) THEN "granted" ELSE "refused"]
    /\ UNCHANGED <<lease, fence, epoch, record, main, lastGen>>

\* Fault: the lock is not exclusive.
TakeFenceShared(c) ==
    /\ backend[c].pc = "granted"
    /\ GrantAtomic => GrantValid(c)
    /\ fence' = c
    /\ backend' = [backend EXCEPT ![c].pc = "fenced"]
    /\ UNCHANGED <<lease, epoch, record, main, lastGen>>

TakeFence(c) ==
    /\ backend[c].pc = "granted"
    /\ GrantAtomic => GrantValid(c)
    /\ fence = NoProc
    /\ fence' = c
    /\ backend' = [backend EXCEPT ![c].pc = "fenced"]
    /\ UNCHANGED <<lease, epoch, record, main, lastGen>>

\* HostDataFenceInUseError: initialize is answered with the failure.
FenceBusy(c) ==
    /\ backend[c].pc = "granted"
    /\ fence # NoProc \/ (GrantAtomic /\ ~GrantValid(c))
    /\ backend' = [backend EXCEPT ![c].pc = "refused"]
    /\ UNCHANGED <<lease, fence, epoch, record, main, lastGen>>

OpenDatabase(c) ==
    /\ backend[c].pc = "fenced"
    /\ backend' = [backend EXCEPT ![c].pc = "writing"]
    /\ lastGen' = backend[c].gen
    /\ UNCHANGED <<lease, fence, epoch, record, main>>

\* The constructor failed and its cleanup close succeeded: the fence goes too.
OpenFails(c) ==
    /\ backend[c].pc = "fenced"
    /\ fence' = NoProc
    /\ backend' = [backend EXCEPT ![c].pc = "refused"]
    /\ UNCHANGED <<lease, epoch, record, main, lastGen>>

Dismissed(c) == backend[c].signal = "term" \/ ~Connected(c)

\* Fault: the closed IPC channel goes unnoticed.
BeginShutdownOnSignalOnly(c) ==
    /\ backend[c].pc = "writing"
    /\ backend[c].signal = "term"
    /\ backend' = [backend EXCEPT ![c].pc = "draining"]
    /\ UNCHANGED <<lease, fence, epoch, record, main, lastGen>>

\* SIGTERM, the dispose request or the disconnect event.
BeginShutdown(c) ==
    /\ backend[c].pc = "writing"
    /\ Dismissed(c)
    /\ backend' = [backend EXCEPT ![c].pc = "draining"]
    /\ UNCHANGED <<lease, fence, epoch, record, main, lastGen>>

\* Fault: custody ends before the database is closed.
CloseDatabaseAfterFence(c) ==
    /\ backend[c].pc = "draining"
    /\ fence' = NoProc
    /\ UNCHANGED <<lease, epoch, record, main, backend, lastGen>>

CloseDatabase(c) ==
    /\ backend[c].pc = "draining"
    /\ backend' = [backend EXCEPT ![c].pc = "closed"]
    /\ UNCHANGED <<lease, fence, epoch, record, main, lastGen>>

ReleaseFence(c) ==
    /\ backend[c].pc = "closed"
    /\ fence' = NoProc
    /\ backend' = [backend EXCEPT ![c].pc = "ended"]
    /\ UNCHANGED <<lease, epoch, record, main, lastGen>>

ExitChild(c) ==
    /\ backend[c].pc \in {"forked", "refused", "ended"}
    /\ Dismissed(c)
    /\ backend' = [backend EXCEPT ![c] = FreeChild]
    /\ UNCHANGED <<lease, fence, epoch, record, main, lastGen>>

\* A crash, the SIGKILL of a bounded join, or an exit whose close was refused.
CrashChild(c) ==
    /\ Live(c)
    /\ fence' = IF fence = c THEN NoProc ELSE fence
    /\ backend' = [backend EXCEPT ![c] = FreeChild]
    /\ UNCHANGED <<lease, epoch, record, main, lastGen>>

-----------------------------------------------------------------------------
MainStep(m) ==
    \/ AcquireLease(m) \/ WriteRecord(m) \/ WriteRecordFails(m)
    \/ ReleaseLease(m) \/ ExitMain(m) \/ CrashMain(m)
    \/ ProbeFence(m) \/ ReleaseProbe(m) \/ AdmissionRefused(m)
    \/ OpenServerDatabase(m) \/ CloseServerDatabase(m) \/ StopServer(m)
    \/ DisposeBackend(m) \/ StopDesktop(m)

ChildStep(c) ==
    \/ CheckGrant(c) \/ TakeFence(c) \/ FenceBusy(c)
    \/ OpenDatabase(c) \/ OpenFails(c)
    \/ BeginShutdown(c) \/ CloseDatabase(c) \/ ReleaseFence(c)
    \/ ExitChild(c) \/ CrashChild(c)

Next ==
    \/ \E m \in Mains : MainStep(m)
    \/ \E m \in Mains, c \in Children : Spawn(m, c) \/ Retire(m, c)
    \/ \E c \in Children : ChildStep(c)

Spec == Init /\ [][Next]_vars

\* The event loop of a live process runs: a child works off its initialize
\* request and its shutdown, an admitted owner finishes its probe.
Fairness ==
    /\ \A c \in Children :
        WF_vars(\/ CheckGrant(c) \/ TakeFence(c) \/ FenceBusy(c) \/ OpenDatabase(c)
                \/ OpenFails(c) \/ BeginShutdown(c) \/ CloseDatabase(c)
                \/ ReleaseFence(c) \/ ExitChild(c))
    /\ \A m \in Mains :
        WF_vars(\/ WriteRecord(m) \/ WriteRecordFails(m) \/ ProbeFence(m)
                \/ ReleaseProbe(m) \/ AdmissionRefused(m) \/ ReleaseLease(m))

FairSpec == Spec /\ Fairness

-----------------------------------------------------------------------------
TypeOK ==
    /\ lease \in Mains \cup {NoProc}
    /\ fence \in Mains \cup Children \cup {NoProc}
    /\ epoch \in 0..MaxEpoch
    /\ lastGen \in 0..MaxEpoch
    /\ record \in [gen : 0..MaxEpoch, phase : {"running", "stopped"}]
    /\ main \in [Mains -> [pc : MainPC, gen : 0..MaxEpoch]]
    /\ backend \in [Children -> [pc : ChildPC, gen : 0..MaxEpoch,
                               parent : Mains \cup {NoProc}, signal : {"none", "term"}]]

\* Processes whose SQLite handle on the profile database is open.
ChildWriters == {c \in Children : backend[c].pc \in {"writing", "draining"}}
ServerWriters == {m \in Servers : main[m].pc = "writing"}
Writers == ChildWriters \cup ServerWriters

(* At most one process has the profile database open, whatever is killed and *)
(* whoever is launched next: what the lease and the fence exist for.         *)
SingleWriter == \A p, q \in Writers : p = q

(* Two backend children never write together, and neither do two servers:   *)
(* an overlap of writers, if any, pairs the server that owns the lease with  *)
(* a child of an EARLIER generation whose owner is gone.                     *)
OverlapOnlyAcrossGenerations ==
    \A p, q \in Writers : p # q =>
        \E s \in ServerWriters, c \in ChildWriters :
            /\ {p, q} = {s, c}
            /\ lease = s
            /\ backend[c].gen < main[s].gen

(* Custody outlives the database handle: a child releases the fence only     *)
(* after its database is closed, also when its start fails half way.         *)
WriterHoldsFence == \A c \in ChildWriters : fence = c

(* Once its owner has published itself, owner.json names the holder of the   *)
(* lease: an owner that stops late never overwrites its successor's record.  *)
RecordNamesOwner ==
    \A m \in Mains : lease = m /\ main[m].pc # "locked" => record.gen = main[m].gen

(* Host ownership implements the custody promise: the mapping names the      *)
(* process whose database is open and the last generation that opened it.    *)
writer == IF Writers = {} THEN NoProc ELSE CHOOSE p \in Writers : TRUE
Custody == INSTANCE ProfileCustody
           WITH Procs <- Mains \cup Children, generation <- lastGen
ImplementsCustody == Custody!Spec

(* An orphaned child does not keep the profile locked for ever: once its     *)
(* owner is gone it closes the database and gives the fence back.            *)
OrphanGivesFenceBack ==
    \A c \in Children : (fence = c /\ ~Connected(c)) ~> fence # c

(* Admission always settles: an owner that took the lease is admitted or     *)
(* gives the lease up again.                                                 *)
AdmissionSettles ==
    \A m \in Mains :
        main[m].pc \in {"locked", "owned", "probing"} ~> main[m].pc \in {"admitted", "off", "released"}
=============================================================================

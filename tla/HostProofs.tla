----------------------------- MODULE HostProofs -----------------------------
(***************************************************************************)
(* Proofs about a backend process and the work it starts by itself.        *)
(* HostOwnership: the lease, the fence and the processes that hold them,   *)
(* for every set of processes, every number of generations and both        *)
(* platforms. BackendHostClient: the desktop that forks, retires and       *)
(* disposes of it, for every number of callers, process names and allowed  *)
(* failures. ScheduleRuns: the scheduled work of a host, for every set of  *)
(* schedules, editions and run names, and every number of attempts and of  *)
(* failing writes. The three share no state.                               *)
(***************************************************************************)
EXTENDS HostOwnership, BackendHostClient, ScheduleRuns, FiniteSetTheorems, TLAPS

Holding == {"fenced", "writing", "draining", "closed"}
Leasing == MainPC \ {"off", "released"}
Passed == {"probing", "admitted", "writing", "disposing"}

(* The lease holder is the only process past "off" that has not released, and *)
(* it carries the newest generation; generations are never shared.            *)
LeaseInv ==
    /\ \A m \in Mains : main[m].pc \in Leasing => lease = m
    /\ \A m \in Mains : lease = m => main[m].gen = epoch /\ main[m].gen # 0
    /\ \A m \in Mains : main[m].gen <= epoch
    /\ \A m, n \in Mains : main[m].gen = main[n].gen /\ main[m].gen # 0 => m = n

(* owner.json names the published owner and never runs ahead of the epoch.    *)
RecordInv ==
    /\ RecordNamesOwner
    /\ record.gen <= epoch
    /\ lastGen <= record.gen

(* A child belongs to the desktop that forked it, and to no later owner.      *)
ChildInv ==
    \A c \in Children : Live(c) =>
        /\ backend[c].parent \in Desktops
        /\ backend[c].gen # 0
        /\ backend[c].gen <= record.gen
        /\ \A m \in Mains : main[m].gen = backend[c].gen => m = backend[c].parent

(* The fence is held by whoever believes to hold it.                          *)
FenceInv ==
    /\ \A c \in Children : backend[c].pc \in Holding => fence = c
    /\ \A m \in Mains : main[m].pc = "probing" => fence = m

Inv == TypeOK /\ LeaseInv /\ RecordInv /\ ChildInv /\ FenceInv

(* With the grant check and the fence lock in one piece, a child with custody *)
(* belongs to the owner past its probe, and is not older than the last writer. *)
GrantInv ==
    /\ \A c \in Children, m \in Mains :
        backend[c].pc \in Holding /\ main[m].pc \in Passed => main[m].gen = backend[c].gen
    /\ \A c \in Children : backend[c].pc = "fenced" => lastGen <= backend[c].gen

(* With no process running the invariant holds.                               *)
LEMMA InvInit == Init => Inv
  BY ProcessAssumption, BoundAssumption DEF Init, Inv, FreeChild, Passed, TypeOK, LeaseInv, RecordInv, RecordNamesOwner, ChildInv, FenceInv, Leasing, Holding, MainPC, ChildPC, Mains, Live

(* Every step keeps the invariant. *)
LEMMA InvStep == Inv /\ [Next]_vars => Inv'
<1> SUFFICES ASSUME Inv, [Next]_vars PROVE Inv'
    OBVIOUS
<1> USE ProcessAssumption, BoundAssumption DEF Inv, TypeOK, LeaseInv, RecordInv, RecordNamesOwner, ChildInv, FenceInv, Leasing, Holding, MainPC, ChildPC, Mains, Live
<1>1. ASSUME NEW m \in Mains, AcquireLease(m) PROVE Inv'
    BY <1>1 DEF AcquireLease
<1>2. ASSUME NEW m \in Mains, WriteRecord(m) PROVE Inv'
    BY <1>2 DEF WriteRecord
<1>3. ASSUME NEW m \in Mains, WriteRecordFails(m) PROVE Inv'
    BY <1>3 DEF WriteRecordFails
<1>4. ASSUME NEW m \in Mains, ReleaseLease(m) PROVE Inv'
    BY <1>4 DEF ReleaseLease
<1>5. ASSUME NEW m \in Mains, ExitMain(m) PROVE Inv'
    BY <1>5 DEF ExitMain
<1>6. ASSUME NEW m \in Mains, CrashMain(m) PROVE Inv'
    BY <1>6 DEF CrashMain
<1>7. ASSUME NEW m \in Mains, ProbeFence(m) PROVE Inv'
    BY <1>7 DEF ProbeFence
<1>8. ASSUME NEW m \in Mains, ReleaseProbe(m) PROVE Inv'
    BY <1>8 DEF ReleaseProbe
<1>9. ASSUME NEW m \in Mains, AdmissionRefused(m) PROVE Inv'
    BY <1>9 DEF AdmissionRefused, StopRecord
<1>10. ASSUME NEW m \in Mains, OpenServerDatabase(m) PROVE Inv'
    BY <1>10 DEF OpenServerDatabase
<1>11. ASSUME NEW m \in Mains, CloseServerDatabase(m) PROVE Inv'
    BY <1>11 DEF CloseServerDatabase
<1>12. ASSUME NEW m \in Mains, StopServer(m) PROVE Inv'
    BY <1>12 DEF StopServer, StopRecord
<1>13. ASSUME NEW m \in Mains, DisposeBackend(m) PROVE Inv'
    BY <1>13 DEF DisposeBackend
<1>14. ASSUME NEW m \in Mains, StopDesktop(m) PROVE Inv'
    BY <1>14 DEF StopDesktop, StopRecord
<1>15. ASSUME NEW m \in Mains, NEW c \in Children, Spawn(m, c) PROVE Inv'
    BY <1>15 DEF Spawn, OwnChild, Live, FreeChild
<1>16. ASSUME NEW m \in Mains, NEW c \in Children, Retire(m, c) PROVE Inv'
    BY <1>16 DEF Retire, OwnChild, Live, FreeChild
<1>17. ASSUME NEW c \in Children, CheckGrant(c) PROVE Inv'
    BY <1>17 DEF CheckGrant, Live, FreeChild
<1>18. ASSUME NEW c \in Children, TakeFence(c) PROVE Inv'
    BY <1>18 DEF TakeFence, Live, FreeChild
<1>19. ASSUME NEW c \in Children, FenceBusy(c) PROVE Inv'
    BY <1>19 DEF FenceBusy, Live, FreeChild
<1>20. ASSUME NEW c \in Children, OpenDatabase(c) PROVE Inv'
    BY <1>20 DEF OpenDatabase, Live, FreeChild
<1>21. ASSUME NEW c \in Children, OpenFails(c) PROVE Inv'
    BY <1>21 DEF OpenFails, Live, FreeChild
<1>22. ASSUME NEW c \in Children, BeginShutdown(c) PROVE Inv'
    BY <1>22 DEF BeginShutdown, Live, FreeChild
<1>23. ASSUME NEW c \in Children, CloseDatabase(c) PROVE Inv'
    BY <1>23 DEF CloseDatabase, Live, FreeChild
<1>24. ASSUME NEW c \in Children, ReleaseFence(c) PROVE Inv'
    BY <1>24 DEF ReleaseFence, Live, FreeChild
<1>25. ASSUME NEW c \in Children, ExitChild(c) PROVE Inv'
    BY <1>25 DEF ExitChild, Live, FreeChild
<1>26. ASSUME NEW c \in Children, CrashChild(c) PROVE Inv'
    BY <1>26 DEF CrashChild, Live, FreeChild
<1>27. CASE UNCHANGED vars
    BY <1>27 DEF vars
<1> QED
    BY <1>1, <1>2, <1>3, <1>4, <1>5, <1>6, <1>7, <1>8, <1>9, <1>10, <1>11, <1>12, <1>13, <1>14, <1>15, <1>16, <1>17, <1>18, <1>19, <1>20, <1>21, <1>22, <1>23, <1>24, <1>25, <1>26, <1>27 DEF Next, MainStep, ChildStep

(* The invariant of the lease, the record, the children and the fence holds   *)
(* in every reachable state, whatever is killed and whatever is launched.     *)
THEOREM Invariance == Spec => []Inv
  BY InvInit, InvStep, PTL DEF Spec

(* The variables keep their types. *)
THEOREM TypeCorrect == Spec => []TypeOK
  BY Invariance, PTL DEF Inv

(* owner.json names the owner that published it last (hostOwnerLease.ts): the *)
(* record is marked stopped while the lock is still held.                     *)
THEOREM OwnerRecord == Spec => []RecordNamesOwner
  BY Invariance, PTL DEF Inv, RecordInv

(* A backend child with the database open holds the data fence                *)
(* (hostDataFence.ts): it takes the fence first and gives it back last.       *)
THEOREM ChildWritesFenced == Spec => []WriterHoldsFence
<1>1. Inv => WriterHoldsFence
    BY DEF Inv, FenceInv, Holding, WriterHoldsFence, ChildWriters
<1> QED BY <1>1, Invariance, PTL

(* The invariant leaves two writers no other room than a server that owns the *)
(* lease and a child of an earlier generation.                                *)
LEMMA OverlapFollows == Inv => OverlapOnlyAcrossGenerations
<1> SUFFICES ASSUME Inv, NEW p \in Writers, NEW q \in Writers, p # q
             PROVE  \E s \in ServerWriters, c \in ChildWriters :
                        {p, q} = {s, c} /\ lease = s /\ backend[c].gen < main[s].gen
    BY DEF OverlapOnlyAcrossGenerations
<1> USE ProcessAssumption, BoundAssumption
    DEF Inv, TypeOK, LeaseInv, RecordInv, ChildInv, FenceInv, Leasing, Holding, MainPC, ChildPC, Mains, Live
<1>1. \A c, d \in ChildWriters : c = d
    BY DEF ChildWriters
<1>2. \A s, t \in ServerWriters : s = t
    BY DEF ServerWriters
<1>3. ASSUME NEW s \in ServerWriters, NEW c \in ChildWriters
      PROVE  lease = s /\ backend[c].gen < main[s].gen
  <2>1. main[s].pc = "writing" /\ s \in Mains /\ c \in Children /\ Live(c)
    BY DEF ServerWriters, ChildWriters
  <2>2. lease = s /\ main[s].gen = epoch
    BY <2>1
  <2>3. backend[c].gen <= epoch
    BY <2>1
  <2>4. backend[c].parent \in Desktops /\ (main[s].gen = backend[c].gen => s = backend[c].parent)
    BY <2>1
  <2>5. s \notin Desktops
    BY <2>1 DEF ServerWriters
  <2>6. epoch \in Nat /\ backend[c].gen \in Nat
    BY <2>1
  <2>7. backend[c].gen # main[s].gen
    BY <2>4, <2>5
  <2> HIDE DEF Inv
  <2> QED BY <2>2, <2>3, <2>6, <2>7
<1>4. CASE p \in ServerWriters /\ q \in ChildWriters
    BY <1>3, <1>4
<1>5. CASE q \in ServerWriters /\ p \in ChildWriters
  <2>1. {p, q} = {q, p}
    OBVIOUS
  <2> QED BY <1>3, <1>5, <2>1
<1> QED BY <1>1, <1>2, <1>4, <1>5 DEF Writers

(* In every reachable state two writers are a server that owns the lease and  *)
(* a child of an earlier generation (hostOwnerLease.ts, hostDataFence.ts).    *)
THEOREM NoOverlapWithinGeneration == Spec => []OverlapOnlyAcrossGenerations
  BY Invariance, OverlapFollows, PTL

-----------------------------------------------------------------------------
(* With an atomic grant every step keeps custody with the admitted owner. *)
LEMMA GrantStep == GrantAtomic /\ Inv /\ GrantInv /\ [Next]_vars => GrantInv'
<1> SUFFICES ASSUME GrantAtomic, Inv, GrantInv, [Next]_vars PROVE GrantInv'
    OBVIOUS
<1> USE ProcessAssumption, BoundAssumption DEF Inv, GrantInv, Passed, GrantValid, TypeOK, LeaseInv, RecordInv, RecordNamesOwner, ChildInv, FenceInv, Leasing, Holding, MainPC, ChildPC, Mains, Live
<1>1. ASSUME NEW m \in Mains, AcquireLease(m) PROVE GrantInv'
    BY <1>1 DEF AcquireLease
<1>2. ASSUME NEW m \in Mains, WriteRecord(m) PROVE GrantInv'
    BY <1>2 DEF WriteRecord
<1>3. ASSUME NEW m \in Mains, WriteRecordFails(m) PROVE GrantInv'
    BY <1>3 DEF WriteRecordFails
<1>4. ASSUME NEW m \in Mains, ReleaseLease(m) PROVE GrantInv'
    BY <1>4 DEF ReleaseLease
<1>5. ASSUME NEW m \in Mains, ExitMain(m) PROVE GrantInv'
    BY <1>5 DEF ExitMain
<1>6. ASSUME NEW m \in Mains, CrashMain(m) PROVE GrantInv'
    BY <1>6 DEF CrashMain
<1>7. ASSUME NEW m \in Mains, ProbeFence(m) PROVE GrantInv'
    BY <1>7 DEF ProbeFence
<1>8. ASSUME NEW m \in Mains, ReleaseProbe(m) PROVE GrantInv'
    BY <1>8 DEF ReleaseProbe
<1>9. ASSUME NEW m \in Mains, AdmissionRefused(m) PROVE GrantInv'
    BY <1>9 DEF AdmissionRefused, StopRecord
<1>10. ASSUME NEW m \in Mains, OpenServerDatabase(m) PROVE GrantInv'
    BY <1>10 DEF OpenServerDatabase
<1>11. ASSUME NEW m \in Mains, CloseServerDatabase(m) PROVE GrantInv'
    BY <1>11 DEF CloseServerDatabase
<1>12. ASSUME NEW m \in Mains, StopServer(m) PROVE GrantInv'
    BY <1>12 DEF StopServer, StopRecord
<1>13. ASSUME NEW m \in Mains, DisposeBackend(m) PROVE GrantInv'
    BY <1>13 DEF DisposeBackend
<1>14. ASSUME NEW m \in Mains, StopDesktop(m) PROVE GrantInv'
    BY <1>14 DEF StopDesktop, StopRecord
<1>15. ASSUME NEW m \in Mains, NEW c \in Children, Spawn(m, c) PROVE GrantInv'
    BY <1>15 DEF Spawn, OwnChild, Live, FreeChild
<1>16. ASSUME NEW m \in Mains, NEW c \in Children, Retire(m, c) PROVE GrantInv'
    BY <1>16 DEF Retire, OwnChild, Live, FreeChild
<1>17. ASSUME NEW c \in Children, CheckGrant(c) PROVE GrantInv'
    BY <1>17 DEF CheckGrant, Live, FreeChild
<1>18. ASSUME NEW c \in Children, TakeFence(c) PROVE GrantInv'
  <2>1. record.gen = backend[c].gen /\ fence = NoProc
    BY <1>18 DEF TakeFence
  <2>2. \A d \in Children : backend[d].pc \notin Holding
    BY <2>1
  <2>3. \A m \in Mains : main[m].pc \in Passed => main[m].gen = backend[c].gen
    BY <2>1
  <2>4. main' = main /\ lastGen' = lastGen /\ backend' = [backend EXCEPT ![c].pc = "fenced"]
    BY <1>18 DEF TakeFence
  <2>5. \A d \in Children : backend'[d].gen = backend[d].gen /\ (d # c => backend'[d].pc = backend[d].pc)
    BY <2>4
  <2>6. \A d \in Children, m \in Mains :
            backend'[d].pc \in Holding /\ main'[m].pc \in Passed => main'[m].gen = backend'[d].gen
    BY <2>2, <2>3, <2>4, <2>5
  <2>7. \A d \in Children : backend'[d].pc = "fenced" => lastGen' <= backend'[d].gen
    BY <2>1, <2>2, <2>4, <2>5
  <2> QED BY <2>6, <2>7
<1>19. ASSUME NEW c \in Children, FenceBusy(c) PROVE GrantInv'
    BY <1>19 DEF FenceBusy, Live, FreeChild
<1>20. ASSUME NEW c \in Children, OpenDatabase(c) PROVE GrantInv'
    BY <1>20 DEF OpenDatabase, Live, FreeChild
<1>21. ASSUME NEW c \in Children, OpenFails(c) PROVE GrantInv'
    BY <1>21 DEF OpenFails, Live, FreeChild
<1>22. ASSUME NEW c \in Children, BeginShutdown(c) PROVE GrantInv'
    BY <1>22 DEF BeginShutdown, Live, FreeChild
<1>23. ASSUME NEW c \in Children, CloseDatabase(c) PROVE GrantInv'
    BY <1>23 DEF CloseDatabase, Live, FreeChild
<1>24. ASSUME NEW c \in Children, ReleaseFence(c) PROVE GrantInv'
    BY <1>24 DEF ReleaseFence, Live, FreeChild
<1>25. ASSUME NEW c \in Children, ExitChild(c) PROVE GrantInv'
    BY <1>25 DEF ExitChild, Live, FreeChild
<1>26. ASSUME NEW c \in Children, CrashChild(c) PROVE GrantInv'
    BY <1>26 DEF CrashChild, Live, FreeChild
<1>27. CASE UNCHANGED vars
    BY <1>27 DEF vars
<1> QED
    BY <1>1, <1>2, <1>3, <1>4, <1>5, <1>6, <1>7, <1>8, <1>9, <1>10, <1>11, <1>12, <1>13, <1>14, <1>15, <1>16, <1>17, <1>18, <1>19, <1>20, <1>21, <1>22, <1>23, <1>24, <1>25, <1>26, <1>27 DEF Next, MainStep, ChildStep

(* With an atomic grant custody stays with the admitted owner's child.        *)
THEOREM GrantInvariance == ASSUME GrantAtomic PROVE Spec => [](Inv /\ GrantInv)
<1>1. Init => Inv /\ GrantInv
    BY InvInit DEF Init, GrantInv, Holding, FreeChild
<1>2. Inv /\ GrantInv /\ [Next]_vars => (Inv /\ GrantInv)'
    BY GrantAtomic, InvStep, GrantStep
<1> QED BY <1>1, <1>2, PTL DEF Spec

(* Custody with the admitted owner leaves room for one writer.                *)
LEMMA SingleFollows == Inv /\ GrantInv => SingleWriter
<1> SUFFICES ASSUME Inv, GrantInv, NEW p \in Writers, NEW q \in Writers, p # q
             PROVE  FALSE
    BY DEF SingleWriter
<1>1. PICK s \in ServerWriters, c \in ChildWriters : backend[c].gen < main[s].gen
    BY OverlapFollows DEF OverlapOnlyAcrossGenerations
<1>2. main[s].gen = backend[c].gen
    BY DEF GrantInv, ServerWriters, ChildWriters, Holding, Passed, Mains
<1> QED BY <1>1, <1>2 DEF Inv, TypeOK, ServerWriters, ChildWriters, Mains

(* One process has the profile database open, if the child's grant check and  *)
(* its fence lock are one step (delegatedHostControl.ts, hostDataFence.ts).    *)
THEOREM AtomicSingleWriter == ASSUME GrantAtomic PROVE Spec => []SingleWriter
  BY GrantAtomic, GrantInvariance, SingleFollows, PTL

-----------------------------------------------------------------------------
(* Refinement: every step opens or closes the one writer, or stutters.        *)

(* The abstract writer is the process whose database is open.                 *)
WriterNamed ==
    /\ \A p \in Writers : writer = p
    /\ Writers = {} => writer = NoProc

(* The one writer is the one the mapping names.                               *)
LEMMA WriterIs == Inv /\ GrantInv => WriterNamed
  BY SingleFollows DEF writer, SingleWriter, WriterNamed

(* The same of the next state.                                                *)
LEMMA WriterIsNext == (Inv /\ GrantInv)' => WriterNamed'
  BY WriterIs, PTL

(* "Nobody" is not a writer.                                                  *)
LEMMA WriterIsProc == ASSUME Inv PROVE NoProc \notin Writers
  BY ProcessAssumption DEF Writers, ChildWriters, ServerWriters, Mains


(* Steps that open no database leave the set of writers or take one away.     *)
LEMMA ClosingStep ==
    ASSUME Inv, GrantInv, Inv', GrantInv', Writers' \subseteq Writers, lastGen' = lastGen
    PROVE  [Custody!Next]_<<writer, lastGen>>
<1> USE WriterIs, WriterIsNext DEF WriterNamed
<1>1. CASE Writers = {}
    BY <1>1
<1>2. CASE Writers' = {} /\ Writers # {}
  <2>1. writer' = NoProc /\ writer # NoProc
    BY <1>2, WriterIsProc
  <2> QED BY <2>1 DEF Custody!Next, Custody!Close
<1>3. CASE Writers' # {}
  <2>1. PICK p \in Writers' : p \in Writers
    BY <1>3
  <2>2. writer = p
    OBVIOUS
  <2>3. writer' = p
    OBVIOUS
  <2> QED BY <2>2, <2>3
<1> QED BY <1>1, <1>2, <1>3

(* A step that adds a writer opens the abstract database: nobody has it, and  *)
(* the generation does not go back.                                           *)
LEMMA OpeningStep ==
    ASSUME Inv, GrantInv, Inv', GrantInv',
           NEW p \in Mains \cup Children, p \in Writers', Writers = {},
           lastGen' >= lastGen
    PROVE  [Custody!Next]_<<writer, lastGen>>
<1>1. writer = NoProc
    BY WriterIs DEF WriterNamed
<1>2. writer' = p
    BY WriterIsNext DEF WriterNamed
<1>3. lastGen' \in Nat
    BY BoundAssumption DEF Inv, TypeOK
<1> QED BY <1>1, <1>2, <1>3 DEF Custody!Next, Custody!Open

(* Every step of host ownership is a step of custody, or stutters.            *)
LEMMA RefinementStep ==
    ASSUME GrantAtomic, Inv, GrantInv, [Next]_vars
    PROVE  [Custody!Next]_<<writer, lastGen>>
<1>1. Inv' /\ GrantInv'
    BY InvStep, GrantStep
<1> DEFINE Goal == [Custody!Next]_<<writer, lastGen>>
           Closes == Writers' \subseteq Writers /\ lastGen' = lastGen
<1> USE ProcessAssumption, BoundAssumption
    DEF Inv, TypeOK, Writers, ChildWriters, ServerWriters, Mains, ChildPC, MainPC
<1>2. ASSUME NEW m \in Mains, AcquireLease(m) PROVE Closes
    BY <1>2 DEF AcquireLease
<1>3. ASSUME NEW m \in Mains, WriteRecord(m) PROVE Closes
    BY <1>3 DEF WriteRecord
<1>4. ASSUME NEW m \in Mains, WriteRecordFails(m) PROVE Closes
    BY <1>4 DEF WriteRecordFails
<1>5. ASSUME NEW m \in Mains, ReleaseLease(m) PROVE Closes
    BY <1>5 DEF ReleaseLease
<1>6. ASSUME NEW m \in Mains, ExitMain(m) PROVE Closes
    BY <1>6 DEF ExitMain
<1>7. ASSUME NEW m \in Mains, CrashMain(m) PROVE Closes
    BY <1>7 DEF CrashMain
<1>8. ASSUME NEW m \in Mains, ProbeFence(m) PROVE Closes
    BY <1>8 DEF ProbeFence
<1>9. ASSUME NEW m \in Mains, ReleaseProbe(m) PROVE Closes
    BY <1>9 DEF ReleaseProbe
<1>10. ASSUME NEW m \in Mains, AdmissionRefused(m) PROVE Closes
    BY <1>10 DEF AdmissionRefused, StopRecord
<1>11. ASSUME NEW m \in Mains, CloseServerDatabase(m) PROVE Closes
    BY <1>11 DEF CloseServerDatabase
<1>12. ASSUME NEW m \in Mains, StopServer(m) PROVE Closes
    BY <1>12 DEF StopServer, StopRecord
<1>13. ASSUME NEW m \in Mains, DisposeBackend(m) PROVE Closes
    BY <1>13 DEF DisposeBackend
<1>14. ASSUME NEW m \in Mains, StopDesktop(m) PROVE Closes
    BY <1>14 DEF StopDesktop, StopRecord
<1>15. ASSUME NEW m \in Mains, NEW c \in Children, Spawn(m, c) PROVE Closes
    BY <1>15 DEF Spawn, OwnChild, Live, FreeChild
<1>16. ASSUME NEW m \in Mains, NEW c \in Children, Retire(m, c) PROVE Closes
    BY <1>16 DEF Retire, OwnChild, Live, FreeChild
<1>17. ASSUME NEW c \in Children, CheckGrant(c) PROVE Closes
    BY <1>17 DEF CheckGrant, Live, FreeChild
<1>18. ASSUME NEW c \in Children, TakeFence(c) PROVE Closes
    BY <1>18 DEF TakeFence, Live, FreeChild
<1>19. ASSUME NEW c \in Children, FenceBusy(c) PROVE Closes
    BY <1>19 DEF FenceBusy, Live, FreeChild
<1>20. ASSUME NEW c \in Children, OpenFails(c) PROVE Closes
    BY <1>20 DEF OpenFails, Live, FreeChild
<1>21. ASSUME NEW c \in Children, BeginShutdown(c) PROVE Closes
    BY <1>21 DEF BeginShutdown, Live, FreeChild
<1>22. ASSUME NEW c \in Children, CloseDatabase(c) PROVE Closes
    BY <1>22 DEF CloseDatabase, Live, FreeChild
<1>23. ASSUME NEW c \in Children, ReleaseFence(c) PROVE Closes
    BY <1>23 DEF ReleaseFence, Live, FreeChild
<1>24. ASSUME NEW c \in Children, ExitChild(c) PROVE Closes
    BY <1>24 DEF ExitChild, Live, FreeChild
<1>25. ASSUME NEW c \in Children, CrashChild(c) PROVE Closes
    BY <1>25 DEF CrashChild, Live, FreeChild
<1>26. ASSUME UNCHANGED vars PROVE Closes
  <2>1. main' = main /\ backend' = backend /\ lastGen' = lastGen
    BY <1>26 DEF vars
  <2> QED BY <2>1
<1>27. ASSUME NEW m \in Mains, OpenServerDatabase(m) PROVE Goal
  <2>1. m \in Writers' /\ main[m].pc = "admitted" /\ lastGen' = main[m].gen
    BY <1>27 DEF OpenServerDatabase
  <2>2. lastGen' >= lastGen
    BY <1>27, <2>1 DEF LeaseInv, RecordInv, Leasing
  <2>3. Writers = {}
    BY <1>27, <2>1 DEF OpenServerDatabase, LeaseInv, ChildInv, GrantInv, Holding, Passed, Leasing, Live
  <2> QED BY <1>1, <2>1, <2>2, <2>3, OpeningStep
<1>28. ASSUME NEW c \in Children, OpenDatabase(c) PROVE Goal
  <2>1. c \in Writers' /\ backend[c].pc = "fenced" /\ lastGen' = backend[c].gen
    BY <1>28 DEF OpenDatabase
  <2>2. lastGen' >= lastGen
    BY <2>1 DEF GrantInv
  <2>3. Writers = {}
    BY <2>1 DEF FenceInv, LeaseInv, ChildInv, GrantInv, Holding, Passed, Leasing, Live
  <2> QED BY <1>1, <2>1, <2>2, <2>3, OpeningStep
<1>29. ASSUME Closes PROVE Goal
    BY <1>1, <1>29, ClosingStep
<1> QED
    BY <1>2, <1>3, <1>4, <1>5, <1>6, <1>7, <1>8, <1>9, <1>10, <1>11, <1>12, <1>13, <1>14, <1>15, <1>16, <1>17, <1>18, <1>19, <1>20, <1>21, <1>22, <1>23, <1>24, <1>25, <1>26, <1>27, <1>28, <1>29 DEF Next, MainStep, ChildStep

(* Host ownership implements the custody promise of docs/HOST_OWNERSHIP.md,   *)
(* if the child's grant check and its fence lock are one step.                *)
THEOREM AtomicImplementsCustody == ASSUME GrantAtomic PROVE Spec => ImplementsCustody
<1>1. Init => Custody!Init
    BY DEF Init, Custody!Init, writer, Writers, ChildWriters, ServerWriters, FreeChild, Mains
<1>2. Inv /\ GrantInv /\ [Next]_vars => [Custody!Next]_<<writer, lastGen>>
    BY GrantAtomic, RefinementStep
<1> QED BY <1>1, <1>2, GrantInvariance, PTL DEF Spec, ImplementsCustody, Custody!Spec

-----------------------------------------------------------------------------
(* The backend client.                                                     *)

(* The handles: a retiring child is the current one, unless disposal has     *)
(* detached it, and together they reach every live process.                  *)
HandlesInv ==
    /\ proc \in [Slots -> {"free", "alive", "failed"}]
    /\ child \in Handle /\ retiring \in Handle
    /\ retiring # None /\ child # None => child = retiring
    /\ \A c \in Slots : Alive(c) => c = child \/ c = retiring

(* Every step keeps the handles of the live processes.                        *)
LEMMA HandlesStep ==
    ASSUME HandlesInv, [ClientNext]_clientVars
    PROVE  HandlesInv'
<1> USE SlotAssumption DEF HandlesInv, Alive, Handle, Disposed
<1>1. CASE TimerFires
  BY <1>1 DEF TimerFires, Forked, ForkThrows, CountFailure, MayRespawn, UnusedName, SettleWaiters, handles, recovery, supervisor
<1>2. CASE JoinFails
  BY <1>2 DEF JoinFails, handles, recovery, supervisor
<1>3. CASE StartFails
  BY <1>3 DEF StartFails, handles, recovery, supervisor
<1>4. CASE BeginDispose
  BY <1>4 DEF BeginDispose, SettleWaiters, handles, recovery, supervisor
<1>5. CASE DrainEnds
  BY <1>5 DEF DrainEnds, BeginRetire, handles, recovery, supervisor
<1>6. CASE DisposeSettles
  BY <1>6 DEF DisposeSettles, handles, recovery, supervisor
<1>7. CASE DisposeAgain
  BY <1>7 DEF DisposeAgain, handles, recovery, supervisor
<1>8. ASSUME NEW c \in Slots, InitializeSucceeds(c) PROVE HandlesInv'
  BY <1>8 DEF InitializeSucceeds, SettleWaiters, handles, recovery, supervisor
<1>9. ASSUME NEW c \in Slots, InitializeFails(c) PROVE HandlesInv'
  BY <1>9 DEF InitializeFails, BeginRetire, CountFailure, MayRespawn, SettleWaiters, handles, recovery, supervisor
<1>10. ASSUME NEW c \in Slots, ChannelFails(c) PROVE HandlesInv'
  BY <1>10 DEF ChannelFails, BeginRetire, CountFailure, MayRespawn, SettleWaiters, handles, recovery, supervisor
<1>11. ASSUME NEW c \in Slots, ProcessExits(c) PROVE HandlesInv'
  BY <1>11 DEF ProcessExits, CurrentExits, DetachedExits, CountFailure, MayRespawn, SettleWaiters, handles, recovery, supervisor
<1>12. ASSUME NEW r \in Callers, Request(r) PROVE HandlesInv'
  BY <1>12 DEF Request, handles, recovery, supervisor
<1>13. ASSUME NEW r \in Callers, CallerLeaves(r) PROVE HandlesInv'
  BY <1>13 DEF CallerLeaves, handles, recovery, supervisor
<1>14. ASSUME NEW r \in Callers \cup {None}, Resume(r) PROVE HandlesInv'
  BY <1>14 DEF Resume, EnsureStart, handles, recovery, supervisor
<1>15. CASE UNCHANGED clientVars
  BY <1>15 DEF clientVars, handles, recovery, supervisor
<1> QED  BY <1>1, <1>2, <1>3, <1>4, <1>5, <1>6, <1>7, <1>8, <1>9, <1>10, <1>11, <1>12, <1>13, <1>14, <1>15 DEF ClientNext

(* The last handle to a live backend process is never dropped.                *)
THEOREM BackendNeverLost == ClientSpec => []NoBackendLost
<1>1. ClientInit => HandlesInv
  BY SlotAssumption DEF ClientInit, HandlesInv, Alive, Handle
<1>2. HandlesInv /\ [ClientNext]_clientVars => HandlesInv'
  BY HandlesStep
<1>3. HandlesInv => NoBackendLost
  BY DEF HandlesInv, NoBackendLost
<1> QED  BY <1>1, <1>2, <1>3, PTL DEF ClientSpec

(* Two backend processes of one desktop never live side by side: a successor  *)
(* is forked only after its predecessor's exit was seen.                      *)
THEOREM OneBackend == ClientSpec => []OneBackendAlive
<1>1. ClientInit => HandlesInv
  BY SlotAssumption DEF ClientInit, HandlesInv, Alive, Handle
<1>2. HandlesInv /\ [ClientNext]_clientVars => HandlesInv'
  BY HandlesStep
<1>3. HandlesInv => OneBackendAlive
  BY SlotAssumption DEF HandlesInv, OneBackendAlive, Alive
<1> QED  BY <1>1, <1>2, <1>3, PTL DEF ClientSpec

(* Giving up and disposing are final: the timer is not armed, and no attempt  *)
(* is left that could count another failure or arm it.                        *)
EndInv ==
    /\ child \in Handle /\ attempt \in [Slots -> {"none", "pending", "done"}]
    /\ timer \in BOOLEAN /\ fatal \in BOOLEAN
    /\ fatal = TRUE => timer = FALSE /\ (child # None => attempt[child] # "pending")
    /\ Disposed => timer = FALSE

(* Every step keeps recovery within its bound.                                *)
LEMMA EndStep ==
    ASSUME EndInv, [ClientNext]_clientVars
    PROVE  EndInv'
<1> USE SlotAssumption DEF EndInv, Alive, Handle, Disposed
<1>1. CASE TimerFires
  BY <1>1 DEF TimerFires, Forked, ForkThrows, CountFailure, MayRespawn, UnusedName, SettleWaiters, handles, recovery, supervisor
<1>2. CASE JoinFails
  BY <1>2 DEF JoinFails, handles, recovery, supervisor
<1>3. CASE StartFails
  BY <1>3 DEF StartFails, handles, recovery, supervisor
<1>4. CASE BeginDispose
  BY <1>4 DEF BeginDispose, SettleWaiters, handles, recovery, supervisor
<1>5. CASE DrainEnds
  BY <1>5 DEF DrainEnds, BeginRetire, handles, recovery, supervisor
<1>6. CASE DisposeSettles
  BY <1>6 DEF DisposeSettles, handles, recovery, supervisor
<1>7. CASE DisposeAgain
  BY <1>7 DEF DisposeAgain, handles, recovery, supervisor
<1>8. ASSUME NEW c \in Slots, InitializeSucceeds(c) PROVE EndInv'
  BY <1>8 DEF InitializeSucceeds, SettleWaiters, handles, recovery, supervisor
<1>9. ASSUME NEW c \in Slots, InitializeFails(c) PROVE EndInv'
  BY <1>9 DEF InitializeFails, BeginRetire, CountFailure, MayRespawn, SettleWaiters, handles, recovery, supervisor
<1>10. ASSUME NEW c \in Slots, ChannelFails(c) PROVE EndInv'
  BY <1>10 DEF ChannelFails, BeginRetire, CountFailure, MayRespawn, SettleWaiters, handles, recovery, supervisor
<1>11. ASSUME NEW c \in Slots, ProcessExits(c) PROVE EndInv'
  BY <1>11 DEF ProcessExits, CurrentExits, DetachedExits, CountFailure, MayRespawn, SettleWaiters, handles, recovery, supervisor
<1>12. ASSUME NEW r \in Callers, Request(r) PROVE EndInv'
  BY <1>12 DEF Request, handles, recovery, supervisor
<1>13. ASSUME NEW r \in Callers, CallerLeaves(r) PROVE EndInv'
  BY <1>13 DEF CallerLeaves, handles, recovery, supervisor
<1>14. ASSUME NEW r \in Callers \cup {None}, Resume(r) PROVE EndInv'
  BY <1>14 DEF Resume, EnsureStart, handles, recovery, supervisor
<1>15. CASE UNCHANGED clientVars
  BY <1>15 DEF clientVars, handles, recovery, supervisor
<1> QED  BY <1>1, <1>2, <1>3, <1>4, <1>5, <1>6, <1>7, <1>8, <1>9, <1>10, <1>11, <1>12, <1>13, <1>14, <1>15 DEF ClientNext

(* After the fatal error, and after disposal, no child is forked.             *)
THEOREM NoForkAfterTheEnd == ClientSpec => NoForkAfterEnd
<1>1. ClientInit => EndInv
  BY SlotAssumption DEF ClientInit, EndInv, Handle, Disposed
<1>2. EndInv /\ [ClientNext]_clientVars => EndInv'
  BY EndStep
<1>3. EndInv /\ [ClientNext]_clientVars => [fatal \/ Disposed => child' \in {child, None}]_clientVars
  <2> SUFFICES ASSUME EndInv, ClientNext, fatal \/ Disposed PROVE child' \in {child, None}
    OBVIOUS
  <2> USE DEF EndInv, handles
  <2>1. CASE \E c \in Slots : ProcessExits(c)
    BY <2>1 DEF ProcessExits, CurrentExits, DetachedExits
  <2>2. CASE DrainEnds
    BY <2>2 DEF DrainEnds
  <2>3. CASE TimerFires
    BY <2>3 DEF TimerFires
  <2>4. CASE UNCHANGED child
    BY <2>4
  <2> QED
    BY <2>1, <2>2, <2>3, <2>4 DEF ClientNext, JoinFails, StartFails, BeginDispose, DisposeSettles,
       DisposeAgain, InitializeSucceeds, InitializeFails, ChannelFails, Request, CallerLeaves, Resume
<1> QED  BY <1>1, <1>2, <1>3, PTL DEF ClientSpec, NoForkAfterEnd

(* A start is in flight for the current child exactly when it was asked once. *)
StartInv ==
    /\ child \in Handle /\ retiring \in Handle /\ dismissed \in Handle /\ flight \in Handle
    /\ starts \in [Slots -> Nat]
    /\ \A c \in Slots : starts[c] <= 1
    /\ child # None => (starts[child] = 1 <=> flight = child)

(* Every step keeps the accounting of supervisor starts.                      *)
LEMMA StartStep ==
    ASSUME StartInv, [ClientNext]_clientVars
    PROVE  StartInv'
<1> USE SlotAssumption DEF StartInv, Handle, Disposed
<1>1. CASE TimerFires
  BY <1>1 DEF TimerFires, Forked, ForkThrows, UnusedName, handles, recovery, supervisor
<1>2. CASE JoinFails
  BY <1>2 DEF JoinFails, handles, recovery, supervisor
<1>3. CASE StartFails
  BY <1>3 DEF StartFails, handles, recovery, supervisor
<1>4. CASE BeginDispose
  BY <1>4 DEF BeginDispose, handles, recovery, supervisor
<1>5. CASE DrainEnds
  BY <1>5 DEF DrainEnds, BeginRetire, handles, recovery, supervisor
<1>6. CASE DisposeSettles
  BY <1>6 DEF DisposeSettles, handles, recovery, supervisor
<1>7. CASE DisposeAgain
  BY <1>7 DEF DisposeAgain, handles, recovery, supervisor
<1>8. ASSUME NEW c \in Slots, InitializeSucceeds(c) PROVE StartInv'
  BY <1>8 DEF InitializeSucceeds, handles, recovery, supervisor
<1>9. ASSUME NEW c \in Slots, InitializeFails(c) PROVE StartInv'
  BY <1>9 DEF InitializeFails, BeginRetire, handles, recovery, supervisor
<1>10. ASSUME NEW c \in Slots, ChannelFails(c) PROVE StartInv'
  BY <1>10 DEF ChannelFails, BeginRetire, handles, recovery, supervisor
<1>11. ASSUME NEW c \in Slots, ProcessExits(c) PROVE StartInv'
  BY <1>11 DEF ProcessExits, CurrentExits, DetachedExits, handles, recovery, supervisor
<1>12. ASSUME NEW r \in Callers, Request(r) PROVE StartInv'
  BY <1>12 DEF Request, handles, recovery, supervisor
<1>13. ASSUME NEW r \in Callers, CallerLeaves(r) PROVE StartInv'
  BY <1>13 DEF CallerLeaves, handles, recovery, supervisor
<1>14. ASSUME NEW r \in Callers \cup {None}, Resume(r) PROVE StartInv'
  BY <1>14 DEF Resume, EnsureStart, handles, recovery, supervisor
<1>15. CASE UNCHANGED clientVars
  BY <1>15 DEF clientVars, handles, recovery, supervisor
<1> QED  BY <1>1, <1>2, <1>3, <1>4, <1>5, <1>6, <1>7, <1>8, <1>9, <1>10, <1>11, <1>12, <1>13, <1>14, <1>15 DEF ClientNext

(* However many callers and respawn hooks ask, a generation gets one start.   *)
THEOREM OneStart == ClientSpec => []StartedOnce
<1>1. ClientInit => StartInv
  BY SlotAssumption DEF ClientInit, StartInv, Handle
<1>2. StartInv /\ [ClientNext]_clientVars => StartInv'
  BY StartStep
<1>3. StartInv => StartedOnce
  BY DEF StartInv, StartedOnce
<1> QED  BY <1>1, <1>2, <1>3, PTL DEF ClientSpec

(* When fork reports every failure by throwing, a child is a live process,    *)
(* and without one the timer is armed until recovery ends.                    *)
RecoveryInv ==
    /\ HandlesInv
    /\ timer \in BOOLEAN /\ fatal \in BOOLEAN
    /\ Disposed => timer = FALSE
    /\ child # None => proc[child] = "alive"
    /\ ~Disposed /\ retiring # None => child = retiring
    /\ ~Disposed /\ fatal = FALSE /\ child = None => timer = TRUE

(* Every step keeps a recovery under way.                                     *)
LEMMA RecoveryStep ==
    ASSUME ~AsyncForkErrors, RecoveryInv, [ClientNext]_clientVars
    PROVE  RecoveryInv'
<1> USE SlotAssumption DEF RecoveryInv, HandlesInv, Alive, Handle, Disposed
<1>1. CASE TimerFires
  BY <1>1 DEF TimerFires, Forked, ForkThrows, CountFailure, MayRespawn, UnusedName, handles, recovery, supervisor
<1>2. CASE JoinFails
  BY <1>2 DEF JoinFails, handles, recovery, supervisor
<1>3. CASE StartFails
  BY <1>3 DEF StartFails, handles, recovery, supervisor
<1>4. CASE BeginDispose
  BY <1>4 DEF BeginDispose, handles, recovery, supervisor
<1>5. CASE DrainEnds
  BY <1>5 DEF DrainEnds, BeginRetire, handles, recovery, supervisor
<1>6. CASE DisposeSettles
  BY <1>6 DEF DisposeSettles, handles, recovery, supervisor
<1>7. CASE DisposeAgain
  BY <1>7 DEF DisposeAgain, handles, recovery, supervisor
<1>8. ASSUME NEW c \in Slots, InitializeSucceeds(c) PROVE RecoveryInv'
  BY <1>8 DEF InitializeSucceeds, handles, recovery, supervisor
<1>9. ASSUME NEW c \in Slots, InitializeFails(c) PROVE RecoveryInv'
  BY <1>9 DEF InitializeFails, BeginRetire, CountFailure, MayRespawn, handles, recovery, supervisor
<1>10. ASSUME NEW c \in Slots, ChannelFails(c) PROVE RecoveryInv'
  BY <1>10 DEF ChannelFails, BeginRetire, CountFailure, MayRespawn, handles, recovery, supervisor
<1>11. ASSUME NEW c \in Slots, ProcessExits(c) PROVE RecoveryInv'
  BY <1>11 DEF ProcessExits, CurrentExits, DetachedExits, CountFailure, MayRespawn, handles, recovery, supervisor
<1>12. ASSUME NEW r \in Callers, Request(r) PROVE RecoveryInv'
  BY <1>12 DEF Request, handles, recovery, supervisor
<1>13. ASSUME NEW r \in Callers, CallerLeaves(r) PROVE RecoveryInv'
  BY <1>13 DEF CallerLeaves, handles, recovery, supervisor
<1>14. ASSUME NEW r \in Callers \cup {None}, Resume(r) PROVE RecoveryInv'
  BY <1>14 DEF Resume, EnsureStart, handles, recovery, supervisor
<1>15. CASE UNCHANGED clientVars
  BY <1>15 DEF clientVars, handles, recovery, supervisor
<1> QED  BY <1>1, <1>2, <1>3, <1>4, <1>5, <1>6, <1>7, <1>8, <1>9, <1>10, <1>11, <1>12, <1>13, <1>14, <1>15 DEF ClientNext

(* If fork reports its failures by throwing, recovery never stalls.           *)
THEOREM FailuresAreRetried ==
    ASSUME ~AsyncForkErrors
    PROVE  ClientSpec => []FailureIsRetried
<1>1. ClientInit => RecoveryInv
  <2> SUFFICES ASSUME ClientInit PROVE RecoveryInv
    OBVIOUS
  <2>1. HandlesInv
    BY SlotAssumption DEF ClientInit, HandlesInv, Alive, Handle
  <2>2. child # None /\ proc[child] = "alive"
    BY SlotAssumption DEF ClientInit
  <2>3. timer = FALSE /\ fatal = FALSE /\ retiring = None
    BY DEF ClientInit
  <2> QED  BY <2>1, <2>2, <2>3 DEF RecoveryInv
<1>2. RecoveryInv /\ [ClientNext]_clientVars => RecoveryInv'
  BY RecoveryStep
<1>3. RecoveryInv => FailureIsRetried
  BY DEF RecoveryInv, FailureIsRetried, Recovering, Alive
<1> QED  BY <1>1, <1>2, <1>3, PTL DEF ClientSpec

(* The failures counted stay within MAX_INITIALIZATION_FAILURES: the last one *)
(* is fatal, and nothing is counted after it.                                 *)
CountInv ==
    /\ failures \in 0 .. MaxFailures
    /\ fatal = FALSE => failures < MaxFailures
    /\ joining \in BOOLEAN /\ ready \in BOOLEAN /\ wanted \in BOOLEAN
    /\ disposal \in {"no", "draining", "joining", "open", "done"}

(* Counting one failure, while recovery goes on.                              *)
LEMMA CountOne ==
    ASSUME NEW a, NEW b, CountFailure(a, b), failures \in 0 .. MaxFailures, failures < MaxFailures,
           fatal = FALSE
    PROVE  failures' \in 0 .. MaxFailures /\ (fatal' = FALSE => failures' < MaxFailures)
<1>1. failures' = failures + 1 /\ failures \in Nat /\ MaxFailures \in Nat
  BY FailureAssumption DEF CountFailure
<1>2. CASE LastAttempt
  <2>1. fatal' = TRUE
    BY <1>2 DEF CountFailure
  <2> QED
    BY <1>1, <2>1
<1>3. CASE ~LastAttempt
  BY <1>1, <1>3 DEF LastAttempt
<1> QED
  BY <1>2, <1>3

(* A failure is counted only while recovery goes on.                          *)
LEMMA CountStep ==
    ASSUME EndInv, CountInv, [ClientNext]_clientVars
    PROVE  CountInv'
<1> USE SlotAssumption, FailureAssumption DEF CountInv, EndInv, Alive, Handle, Disposed
<1>1. CASE TimerFires
  <2>1. fatal = FALSE /\ joining' = joining /\ ready' = ready /\ wanted' = wanted /\ disposal' = disposal
    BY <1>1 DEF TimerFires
  <2>2. UNCHANGED <<failures, fatal>> \/ CountFailure(None, retiring)
    BY <1>1 DEF TimerFires, Forked, ForkThrows
  <2> QED
    BY <2>1, <2>2, CountOne
<1>2. CASE JoinFails
  BY <1>2 DEF JoinFails, handles, recovery, supervisor
<1>3. CASE StartFails
  BY <1>3 DEF StartFails, handles, recovery, supervisor
<1>4. CASE BeginDispose
  BY <1>4 DEF BeginDispose, SettleWaiters, handles, recovery, supervisor
<1>5. CASE DrainEnds
  BY <1>5 DEF DrainEnds, BeginRetire, handles, recovery, supervisor
<1>6. CASE DisposeSettles
  BY <1>6 DEF DisposeSettles, handles, recovery, supervisor
<1>7. CASE DisposeAgain
  BY <1>7 DEF DisposeAgain, handles, recovery, supervisor
<1>8. ASSUME NEW c \in Slots, InitializeSucceeds(c) PROVE CountInv'
  BY <1>8 DEF InitializeSucceeds, SettleWaiters, handles, recovery, supervisor
<1>9. ASSUME NEW c \in Slots, InitializeFails(c) PROVE CountInv'
  <2>1. fatal = FALSE /\ CountFailure(c, retiring)
    BY <1>9 DEF InitializeFails
  <2>2. ready' = ready /\ wanted' = wanted /\ disposal' = disposal /\ joining' \in BOOLEAN
    BY <1>9 DEF InitializeFails, BeginRetire, supervisor
  <2> QED
    BY <2>1, <2>2, CountOne
<1>10. ASSUME NEW c \in Slots, ChannelFails(c) PROVE CountInv'
  <2>1. \/ failures' = failures /\ fatal' = fatal
        \/ fatal = FALSE /\ CountFailure(c, retiring)
    <3>1. CASE attempt[c] = "pending"
      <4>1. CountFailure(c, retiring)
        BY <1>10, <3>1 DEF ChannelFails
      <4>2. fatal = FALSE
        BY <1>10, <3>1 DEF ChannelFails
      <4> QED
        BY <4>1, <4>2
    <3>2. CASE attempt[c] # "pending"
      <4>1. failures' = failures /\ fatal' = fatal
        BY <1>10, <3>2 DEF ChannelFails
      <4> QED
        BY <4>1
    <3> QED
      BY <3>1, <3>2
  <2>2. ready' = ready /\ wanted' = wanted /\ disposal' = disposal /\ joining' \in BOOLEAN
    BY <1>10 DEF ChannelFails, BeginRetire, supervisor
  <2> QED
    BY <2>1, <2>2, CountOne
<1>11. ASSUME NEW c \in Slots, ProcessExits(c) PROVE CountInv'
  <2>1. \/ failures' = failures /\ fatal' = fatal
        \/ fatal = FALSE /\ CountFailure(None, None)
    <3>1. CASE child = c /\ attempt[c] = "pending" /\ ~Disposed
      <4>1. CountFailure(None, None)
        BY <1>11, <3>1 DEF ProcessExits, CurrentExits, DetachedExits
      <4>2. fatal = FALSE
        BY <3>1
      <4> QED
        BY <4>1, <4>2
    <3>2. CASE ~(child = c /\ attempt[c] = "pending" /\ ~Disposed)
      <4>1. failures' = failures /\ fatal' = fatal
        BY <1>11, <3>2 DEF ProcessExits, CurrentExits, DetachedExits, recovery
      <4> QED
        BY <4>1
    <3> QED
      BY <3>1, <3>2
  <2>2. ready' \in BOOLEAN /\ wanted' = wanted /\ disposal' = disposal /\ joining' \in BOOLEAN
    BY <1>11 DEF ProcessExits, CurrentExits, DetachedExits, recovery
  <2> QED
    BY <2>1, <2>2, CountOne
<1>12. ASSUME NEW r \in Callers, Request(r) PROVE CountInv'
  BY <1>12 DEF Request, handles, recovery, supervisor
<1>13. ASSUME NEW r \in Callers, CallerLeaves(r) PROVE CountInv'
  BY <1>13 DEF CallerLeaves, handles, recovery, supervisor
<1>14. ASSUME NEW r \in Callers \cup {None}, Resume(r) PROVE CountInv'
  BY <1>14 DEF Resume, EnsureStart, handles, recovery, supervisor
<1>15. CASE UNCHANGED clientVars
  BY <1>15 DEF clientVars, handles, recovery, supervisor
<1> QED  BY <1>1, <1>2, <1>3, <1>4, <1>5, <1>6, <1>7, <1>8, <1>9, <1>10, <1>11, <1>12, <1>13, <1>14, <1>15 DEF ClientNext

(* The callers, and those whose continuation is due.                          *)
CallersInv ==
    /\ caller \in [Callers -> [op : {"start", "restart", "call"},
                               at : {"idle", "parked", "resumed", "served", "refused"}]]
    /\ resumed \subseteq Callers \cup {None}

(* Answering the parked callers, and counting a failure, keep their types.    *)
LEMMA CallersKept ==
    ASSUME CallersInv, NEW a, NEW b,
           \/ UNCHANGED caller
           \/ SettleWaiters("parked", "refused")
           \/ SettleWaiters("parked", "resumed")
           \/ CountFailure(a, b)
    PROVE  caller' \in [Callers -> [op : {"start", "restart", "call"},
                                    at : {"idle", "parked", "resumed", "served", "refused"}]]
<1>1. UNCHANGED caller \/ SettleWaiters("parked", "refused") \/ SettleWaiters("parked", "resumed")
  BY DEF CountFailure
<1> QED
  BY <1>1 DEF CallersInv, SettleWaiters

(* Every step keeps them.                                                     *)
LEMMA CallersStep ==
    ASSUME CallersInv, [ClientNext]_clientVars
    PROVE  CallersInv'
<1> USE DEF CallersInv
<1>1. CASE TimerFires
  <2>1. (UNCHANGED caller \/ CountFailure(None, retiring)) /\ resumed' = resumed
    BY <1>1 DEF TimerFires, Forked, ForkThrows
  <2> QED
    BY <2>1, CallersKept
<1>2. CASE JoinFails
  BY <1>2 DEF JoinFails, handles, recovery, supervisor
<1>3. CASE StartFails
  BY <1>3 DEF StartFails, handles, recovery, supervisor
<1>4. CASE BeginDispose
  BY <1>4 DEF BeginDispose, SettleWaiters, handles, recovery, supervisor
<1>5. CASE DrainEnds
  BY <1>5 DEF DrainEnds, BeginRetire, handles, recovery, supervisor
<1>6. CASE DisposeSettles
  BY <1>6 DEF DisposeSettles, handles, recovery, supervisor
<1>7. CASE DisposeAgain
  BY <1>7 DEF DisposeAgain, handles, recovery, supervisor
<1>8. ASSUME NEW c \in Slots, InitializeSucceeds(c) PROVE CallersInv'
  BY <1>8 DEF InitializeSucceeds, SettleWaiters, handles, recovery, supervisor
<1>9. ASSUME NEW c \in Slots, InitializeFails(c) PROVE CallersInv'
  <2>1. (UNCHANGED caller \/ CountFailure(c, retiring)) /\ resumed' = resumed
    BY <1>9 DEF InitializeFails
  <2> QED
    BY <2>1, CallersKept
<1>10. ASSUME NEW c \in Slots, ChannelFails(c) PROVE CallersInv'
  <2>1. (UNCHANGED caller \/ CountFailure(c, retiring)) /\ resumed' = resumed
    BY <1>10 DEF ChannelFails
  <2> QED
    BY <2>1, CallersKept
<1>11. ASSUME NEW c \in Slots, ProcessExits(c) PROVE CallersInv'
  <2>1. (UNCHANGED caller \/ CountFailure(None, None)) /\ resumed' = resumed
    BY <1>11 DEF ProcessExits, CurrentExits, DetachedExits
  <2> QED
    BY <2>1, CallersKept
<1>12. ASSUME NEW r \in Callers, Request(r) PROVE CallersInv'
  BY <1>12 DEF Request, handles, recovery, supervisor
<1>13. ASSUME NEW r \in Callers, CallerLeaves(r) PROVE CallersInv'
  BY <1>13 DEF CallerLeaves, handles, recovery, supervisor
<1>14. ASSUME NEW r \in Callers \cup {None}, Resume(r) PROVE CallersInv'
  BY <1>14 DEF Resume, EnsureStart, handles, recovery, supervisor
<1>15. CASE UNCHANGED clientVars
  BY <1>15 DEF clientVars, handles, recovery, supervisor
<1> QED  BY <1>1, <1>2, <1>3, <1>4, <1>5, <1>6, <1>7, <1>8, <1>9, <1>10, <1>11, <1>12, <1>13, <1>14, <1>15 DEF ClientNext

(* The types of the client: with them, that recovery counts no failure beyond *)
(* its limit and that no start is taken back that was not made.               *)
THEOREM ClientTypes == ClientSpec => []ClientTypeOK
<1> DEFINE I == HandlesInv /\ EndInv /\ StartInv /\ CountInv /\ CallersInv
<1>1. ClientInit => I
  <2> SUFFICES ASSUME ClientInit PROVE I
    OBVIOUS
  <2>1. HandlesInv /\ EndInv /\ StartInv
    <3>1. HandlesInv
      BY SlotAssumption DEF ClientInit, HandlesInv, Alive, Handle
    <3>2. EndInv
      BY SlotAssumption DEF ClientInit, EndInv, Handle, Disposed
    <3>3. StartInv
      BY SlotAssumption DEF ClientInit, StartInv, Handle
    <3> QED
      BY <3>1, <3>2, <3>3
  <2>2. CountInv
    <3>1. failures = 0 /\ joining = FALSE /\ ready = FALSE /\ wanted = FALSE /\ disposal = "no"
      BY DEF ClientInit
    <3>2. 0 \in 0 .. MaxFailures /\ 0 < MaxFailures
      BY FailureAssumption
    <3> QED
      BY <3>1, <3>2 DEF CountInv
  <2>3. CallersInv
    BY DEF ClientInit, CallersInv
  <2> QED
    BY <2>1, <2>2, <2>3
<1>2. I /\ [ClientNext]_clientVars => I'
  BY HandlesStep, EndStep, StartStep, CountStep, CallersStep
<1>3. I => ClientTypeOK
  BY DEF HandlesInv, EndInv, StartInv, CountInv, CallersInv, ClientTypeOK
<1> QED
  BY <1>1, <1>2, <1>3, PTL DEF ClientSpec

(***************************************************************************)
(* Scheduled runs: the invariant.                                          *)
(***************************************************************************)

\* The types of a row of scheduled_tasks, of an occurrence and of an attempt.
Tasks == [here : BOOLEAN, edition : Editions \cup {"none"}, status : {"running", "succeeded", "other"}]
Occs == [pc : {"off", "try", "wait"}, attempt : 0..MaxAttempts, run : Runs \cup {"none"},
         edited : BOOLEAN, stopped : BOOLEAN]
Attempts == [sched : Schedules \cup {"none"}, edition : Editions \cup {"none"},
             phase : Phases, launch : Awaits \cup {"none", "stale"},
             active : BOOLEAN, verdict : Verdicts \cup {"none"}, row : Rows]

\* The attempt is not over; its row tells of a retry; it holds the conversation.
Busy(x) == x.phase \notin {"none", "kept"}
Waits(x) == x.phase = "none" /\ x.row = "retrying"
Beats(x) == x.phase # "none" /\ x.edition \in Heartbeats

\* What an attempt can look like: where its launch awaits in each phase, and
\* what its row may say.
Shape(x) ==
    /\ x.phase = "preparing" => x.launch \in {"config", "cursor"}
    /\ x.phase = "resuming" => x.launch \in {"revive", "none"}
    /\ x.phase = "dispatching" => x.launch \in {"start", "send", "resend", "none"}
    /\ x.phase \notin Unsettled => x.launch \in {"none", "stale"}
    /\ x.phase = "none" => x.row # "open"
    /\ x.phase # "none" => x.sched \in Schedules /\ x.edition \in Editions /\ x.row \in {"open", "none"}
    /\ x.row = "retrying" => x.sched \in Schedules

\* An attempt and the occurrence it belongs to agree.
RunOK(O, x, r) ==
    /\ Shape(x)
    /\ Busy(x) => O[x.sched].pc = "try"
    /\ Waits(x) => O[x.sched].pc = "wait" /\ O[x.sched].run = r
    /\ x.phase = "resuming" /\ x.launch = "none" => O[x.sched].edited

\* No attempt is unsettled in a host that closes, and none is prepared for an
\* edition that is overtaken. An edit and the shutdown break this and restore it.
Timely(h, O, x) ==
    /\ x.phase \in Unsettled => h = "up"
    /\ x.phase = "preparing" => ~O[x.sched].edited

\* A schedule and its occurrence agree.
TaskOK(t, o) ==
    /\ ~t.here => t.status = "other"
    /\ t.here => t.edition \in Editions
    /\ o.pc # "off" => t.status # "succeeded" /\ (o.edited \/ t.here)
\* An occurrence and the attempts agree: it has one while it tries, its wait
\* points at the row that tells of it, and a cancelled one is collecting a stop.
OccOK(h, R, o, s) ==
    /\ o.pc = "off" => o = NoOcc
    /\ o.pc # "wait" => o.run = "none"
    /\ o.pc = "wait" => /\ h = "up" /\ ~o.edited /\ ~o.stopped /\ o.attempt < MaxAttempts
                        /\ o.run # "none" => Waits(R[o.run]) /\ R[o.run].sched = s
    /\ o.pc = "try" => \E r \in Runs : Busy(R[r]) /\ R[r].sched = s
    /\ o.stopped => \A r \in Runs : Busy(R[r]) /\ R[r].sched = s
                                      => R[r].phase = "collecting" /\ R[r].verdict = "stopped"
\* No two attempts of one schedule, and no two that hold the conversation.
OnlyOne(R) ==
    \A r, q \in Runs : \/ Busy(R[r]) /\ Busy(R[q]) /\ R[r].sched = R[q].sched
                       \/ Beats(R[r]) /\ Beats(R[q])
                       => r = q

\* What holds while the host is up or closing, also in the middle of a step;
\* in E are the attempts for which Timely is yet to be restored.
Core(h, T, O, R) ==
    /\ h \in {"up", "closing"}
    /\ T \in [Schedules -> Tasks] /\ O \in [Schedules -> Occs] /\ R \in [Runs -> Attempts]
    /\ \A r \in Runs : RunOK(O, R[r], r)
    /\ \A s \in Schedules : TaskOK(T[s], O[s]) /\ OccOK(h, R, O[s], s)
    /\ OnlyOne(R)
Late(h, T, O, R, E) == Core(h, T, O, R) /\ \A r \in Runs \ E : Timely(h, O, R[r])
Good(h, T, O, R) == Late(h, T, O, R, {})

\* What holds while there is no process.
Ended ==
    /\ host \in {"closed", "down"}
    /\ task \in [Schedules -> Tasks] /\ occ \in [Schedules -> Occs] /\ run \in [Runs -> Attempts]
    /\ \A s \in Schedules : occ[s] = NoOcc /\ TaskOK(task[s], occ[s])
    /\ \A r \in Runs : run[r].phase = "none" /\ run[r].launch = "none"
    /\ host = "closed" => \A r \in Runs : run[r].row \in {"none", "lost"}
\* The inductive invariant.
IInv == /\ faults \in 0 .. MaxFaults /\ target \in BOOLEAN
        /\ IF host \in {"up", "closing"} THEN Good(host, task, occ, run) ELSE Ended

\* The part of the state that Now collects, as a set of records.
Hosts == {"up", "closing", "closed", "down"}
Worlds == [host : Hosts, task : [Schedules -> Tasks], occ : [Schedules -> Occs], run : [Runs -> Attempts]]

\* A run that changes is of schedule s, or of nobody.
MineBefore(x, s) == Busy(x) \/ Waits(x) => x.sched = s

\* A change that concerns one schedule and its attempts keeps Core, whatever
\* the others do.
LEMMA Local ==
    ASSUME NEW h, NEW T, NEW O, NEW R, NEW E, NEW T2, NEW O2, NEW R2, NEW F, NEW s \in Schedules,
           Late(h, T, O, R, E),
           T2 \in [Schedules -> Tasks], O2 \in [Schedules -> Occs], R2 \in [Runs -> Attempts],
           \A q \in Schedules \ {s} : T2[q] = T[q] /\ O2[q] = O[q],
           \A x \in Runs : R2[x] # R[x] => MineBefore(R[x], s) /\ MineBefore(R2[x], s) /\ Shape(R2[x]),
           \A x \in Runs : MineBefore(R2[x], s) => RunOK(O2, R2[x], x),
           \A x \in Runs \ F : R2[x].sched = s \/ x \in E => Timely(h, O2, R2[x]),
           TaskOK(T2[s], O2[s]), OccOK(h, R2, O2[s], s),
           OnlyOne(R2)
    PROVE  Late(h, T2, O2, R2, F)
<1>1. Core(h, T, O, R)
  BY DEF Late
<1>2. \A x \in Runs : RunOK(O2, R2[x], x)
  <2> SUFFICES ASSUME NEW x \in Runs, ~MineBefore(R2[x], s)
               PROVE  RunOK(O2, R2[x], x)
    OBVIOUS
  <2>1. R2[x] = R[x]
    OBVIOUS
  <2>2. RunOK(O, R[x], x)
    BY <1>1 DEF Core
  <2>3. R[x].sched \in Schedules \ {s}
    BY <2>1, <2>2 DEF MineBefore, RunOK, Shape, Busy, Waits
  <2>4. O2[R[x].sched] = O[R[x].sched]
    BY <2>3
  <2> QED
    BY <2>1, <2>2, <2>4 DEF RunOK
<1>3. \A q \in Schedules : TaskOK(T2[q], O2[q]) /\ OccOK(h, R2, O2[q], q)
  <2> SUFFICES ASSUME NEW q \in Schedules, q # s
               PROVE  TaskOK(T2[q], O2[q]) /\ OccOK(h, R2, O2[q], q)
    OBVIOUS
  <2>1. TaskOK(T[q], O[q]) /\ OccOK(h, R, O[q], q) /\ T2[q] = T[q] /\ O2[q] = O[q] /\ O[q] \in Occs
    BY <1>1 DEF Core
  <2>2. \A x \in Runs : (Busy(R[x]) \/ Waits(R[x])) /\ R[x].sched = q => R2[x] = R[x]
    BY DEF MineBefore
  <2>3. \A x \in Runs : (Busy(R2[x]) \/ Waits(R2[x])) /\ R2[x].sched = q => R2[x] = R[x]
    BY DEF MineBefore
  <2>4. O[q].run \in Runs \cup {"none"}
    BY <2>1 DEF Occs
  <2>5. OccOK(h, R2, O[q], q)
    BY <2>1, <2>2, <2>3, <2>4 DEF OccOK
  <2> QED
    BY <2>1, <2>5
<1>4. \A x \in Runs \ F : Timely(h, O2, R2[x])
  <2> SUFFICES ASSUME NEW x \in Runs \ F, ~(R2[x].sched = s \/ x \in E)
               PROVE  Timely(h, O2, R2[x])
    OBVIOUS
  <2>1. Timely(h, O, R[x])
    BY DEF Late
  <2>2. CASE R2[x] = R[x]
    <3>1. CASE R2[x].sched \in Schedules
      BY <2>1, <2>2, <3>1 DEF Timely
    <3>2. CASE R2[x].sched \notin Schedules
      <4>1. Shape(R[x])
        BY <1>1 DEF Core, RunOK
      <4> QED
        BY <4>1, <3>2, <2>2 DEF Timely, Shape, Unsettled
    <3> QED
      BY <3>1, <3>2
  <2>3. CASE R2[x] # R[x]
    BY <2>3 DEF MineBefore, Timely, Busy, Unsettled
  <2> QED
    BY <2>2, <2>3
<1> QED
  BY <1>1, <1>2, <1>3, <1>4 DEF Late, Core

\* The invariant of a record of state; and the same with the occurrence of s over.
Fine(w) == Good(w.host, w.task, w.occ, w.run)
Without(O, s) == [O EXCEPT ![s] = NoOcc]
Clear(w, s) == Good(w.host, w.task, Without(w.occ, s), w.run)

\* The empty records are of their types.
LEMMA Typed ==
    /\ NoOcc \in Occs /\ NoRun \in Attempts /\ NoTask \in Tasks
    /\ \A l \in Awaits \cup {"none", "stale"} : [NoRun EXCEPT !.launch = l] \in Attempts
<1>1. NoOcc \in Occs
  BY AttemptsAssumption DEF NoOcc, Occs
<1>2. NoRun \in Attempts
  BY DEF NoRun, Attempts, Phases, Rows
<1>3. NoTask \in Tasks
  BY DEF NoTask, Tasks
<1>4. \A l \in Awaits \cup {"none", "stale"} : [NoRun EXCEPT !.launch = l] \in Attempts
  BY <1>2 DEF Attempts
<1> QED
  BY <1>1, <1>2, <1>3, <1>4

\* The parts of Late.
LEMMA TypesOfLate ==
    ASSUME NEW h, NEW T, NEW O, NEW R, NEW E, Late(h, T, O, R, E)
    PROVE  /\ h \in {"up", "closing"} /\ T \in [Schedules -> Tasks]
           /\ O \in [Schedules -> Occs] /\ R \in [Runs -> Attempts]
           /\ \A r \in Runs : RunOK(O, R[r], r)
           /\ \A s \in Schedules : TaskOK(T[s], O[s]) /\ OccOK(h, R, O[s], s)
           /\ OnlyOne(R)
BY DEF Late, Core

\* The row of the one attempt of s is changed; the attempt goes on.
LEMMA Touch ==
    ASSUME NEW h, NEW T, NEW O, NEW R, Good(h, T, O, R), NEW r \in Runs, NEW x \in Attempts,
           Busy(R[r]), Busy(x), x.sched = R[r].sched, x.edition = R[r].edition,
           Shape(x), x.phase = "resuming" /\ x.launch = "none" => O[x.sched].edited,
           Timely(h, O, x),
           O[x.sched].stopped => x.phase = "collecting" /\ x.verdict = "stopped"
    PROVE  Good(h, T, O, [R EXCEPT ![r] = x])
<1> DEFINE s == R[r].sched
           R2 == [R EXCEPT ![r] = x]
<1>1. /\ h \in {"up", "closing"} /\ T \in [Schedules -> Tasks]
      /\ O \in [Schedules -> Occs] /\ R \in [Runs -> Attempts]
      /\ \A q \in Runs : RunOK(O, R[q], q)
      /\ \A q \in Schedules : TaskOK(T[q], O[q]) /\ OccOK(h, R, O[q], q)
      /\ OnlyOne(R)
  BY TypesOfLate DEF Good
<1>2. s \in Schedules
  BY <1>1 DEF RunOK, Shape, Busy
<1>3. O[s].pc = "try"
  BY <1>1 DEF RunOK
<1>4. R2 \in [Runs -> Attempts] /\ R2[r] = x /\ \A q \in Runs \ {r} : R2[q] = R[q]
  BY <1>1
<1>5. ~Waits(x) /\ ~Waits(R[r])
  BY DEF Busy, Waits
<1>6. RunOK(O, x, r)
  BY <1>3, <1>5 DEF RunOK
<1>7. \A q \in Runs : RunOK(O, R2[q], q)
  BY <1>1, <1>4, <1>6
<1>8. \A q \in Runs : R2[q] # R[q] => MineBefore(R[q], s) /\ MineBefore(R2[q], s) /\ Shape(R2[q])
  BY <1>4 DEF MineBefore
<1>9. \A q \in Runs : Timely(h, O, R2[q])
  BY <1>4 DEF Good, Late
<1>10. OccOK(h, R2, O[s], s)
  BY <1>1, <1>2, <1>3, <1>4 DEF OccOK, OnlyOne
<1>11. OnlyOne(R2)
  <2>1. Beats(x) = Beats(R[r])
    BY DEF Beats, Busy
  <2> QED
    BY <1>1, <1>4, <2>1 DEF OnlyOne
<1>12. TaskOK(T[s], O[s])
  BY <1>1, <1>2
<1> HIDE DEF R2, s
<1>13. Late(h, T, O, R, {})
  BY DEF Good
<1> QED
  BY <1>1, <1>2, <1>4, <1>7, <1>8, <1>9, <1>10, <1>11, <1>12, <1>13, Local DEF R2, Good

\* The one attempt of s ends.
LEMMA Ending ==
    ASSUME NEW h, NEW T, NEW O, NEW R, Good(h, T, O, R), NEW r \in Runs, NEW x \in Attempts,
           Busy(R[r]), ~Busy(x), ~Waits(x), Shape(x), Beats(x) => Beats(R[r])
    PROVE  Good(h, T, Without(O, R[r].sched), [R EXCEPT ![r] = x])
<1> DEFINE s == R[r].sched
           R2 == [R EXCEPT ![r] = x]
           O2 == Without(O, s)
<1>1. /\ h \in {"up", "closing"} /\ T \in [Schedules -> Tasks]
      /\ O \in [Schedules -> Occs] /\ R \in [Runs -> Attempts]
      /\ \A q \in Runs : RunOK(O, R[q], q)
      /\ \A q \in Schedules : TaskOK(T[q], O[q]) /\ OccOK(h, R, O[q], q)
      /\ OnlyOne(R)
  BY TypesOfLate DEF Good
<1>2. s \in Schedules
  BY <1>1 DEF RunOK, Shape, Busy
<1>3. O[s].pc = "try"
  BY <1>1 DEF RunOK
<1>4. R2 \in [Runs -> Attempts] /\ R2[r] = x /\ \A q \in Runs \ {r} : R2[q] = R[q]
  BY <1>1
<1>5. O2 \in [Schedules -> Occs] /\ O2[s] = NoOcc /\ \A q \in Schedules \ {s} : O2[q] = O[q]
  BY <1>1, <1>2, Typed DEF Without
<1>6. \A q \in Runs : R2[q].sched = s => ~Busy(R2[q]) /\ ~Waits(R2[q])
  <2> SUFFICES ASSUME NEW q \in Runs, q # r, R[q].sched = s
               PROVE  ~Busy(R[q]) /\ ~Waits(R[q])
    BY <1>4
  <2> QED
    BY <1>1, <1>3 DEF OnlyOne, RunOK
<1>7. \A q \in Runs : MineBefore(R2[q], s) => RunOK(O2, R2[q], q)
  BY <1>1, <1>4, <1>6 DEF RunOK, MineBefore, Busy, Waits
<1>8. \A q \in Runs : R2[q] # R[q] => MineBefore(R[q], s) /\ MineBefore(R2[q], s) /\ Shape(R2[q])
  BY <1>4 DEF MineBefore, Waits, Busy
<1>9. \A q \in Runs : R2[q].sched = s \/ q \in {} => Timely(h, O2, R2[q])
  BY <1>6 DEF Timely, Busy, Unsettled
<1>10. OccOK(h, R2, O2[s], s) /\ TaskOK(T[s], O2[s])
  BY <1>1, <1>2, <1>5 DEF OccOK, TaskOK, NoOcc
<1>11. OnlyOne(R2)
  BY <1>1, <1>4 DEF OnlyOne
<1> HIDE DEF R2, s, O2
<1>13. Late(h, T, O, R, {})
  BY DEF Good
<1>14. Late(h, T, O2, R2, {})
  BY <1>1, <1>2, <1>4, <1>5, <1>7, <1>8, <1>9, <1>10, <1>11, <1>13, Local
<1> QED
  BY <1>14 DEF R2, Good, O2, s

(***************************************************************************)
(* Scheduled runs: the end of an occurrence, and the next attempt.         *)
(***************************************************************************)

\* What the end of an occurrence changes.
LEMMA SettleFields ==
    ASSUME NEW w \in Worlds, NEW s \in Schedules, NEW status
    PROVE  /\ Settle(w, s, status) \in Worlds
           /\ Settle(w, s, status).host = w.host
           /\ Settle(w, s, status).run = w.run
           /\ Settle(w, s, status).occ = Without(w.occ, s)
           /\ \A q \in Schedules \ {s} : Settle(w, s, status).task[q] = w.task[q]
           /\ Settle(w, s, status).task[s].here = w.task[s].here
           /\ Settle(w, s, status).task[s].edition = w.task[s].edition
           /\ Settle(w, s, status).task[s].status =
                IF ~w.task[s].here \/ w.host # "up" THEN w.task[s].status
                ELSE IF status = "succeeded" THEN status ELSE "other"
<1> DEFINE st == IF ~w.task[s].here \/ w.host # "up" THEN w.task[s].status
                 ELSE IF status = "succeeded" THEN status ELSE "other"
           T2 == [w.task EXCEPT ![s].status = st]
<1>1. /\ w.host \in Hosts /\ w.task \in [Schedules -> Tasks]
      /\ w.occ \in [Schedules -> Occs] /\ w.run \in [Runs -> Attempts]
  BY DEF Worlds
<1>2. Settle(w, s, status) = [w EXCEPT !.occ = Without(w.occ, s), !.task = T2]
  BY <1>1 DEF Settle, Without, Worlds
<1>3. /\ T2 \in [Schedules -> Tasks] /\ T2[s] = [w.task[s] EXCEPT !.status = st]
      /\ \A q \in Schedules \ {s} : T2[q] = w.task[q]
  <2>1. w.task[s] \in Tasks
    BY <1>1
  <2>2. st \in {"running", "succeeded", "other"}
    BY <2>1 DEF Tasks
  <2> HIDE DEF st
  <2>3. [w.task[s] EXCEPT !.status = st] \in Tasks
    BY <2>1, <2>2 DEF Tasks
  <2>4. T2 = [w.task EXCEPT ![s] = [w.task[s] EXCEPT !.status = st]]
    OBVIOUS
  <2> QED
    BY <1>1, <2>3, <2>4
<1>4. Without(w.occ, s) \in [Schedules -> Occs]
  BY <1>1, Typed DEF Without
<1> HIDE DEF T2
<1>5. /\ Settle(w, s, status) \in Worlds
      /\ Settle(w, s, status).host = w.host
      /\ Settle(w, s, status).run = w.run
      /\ Settle(w, s, status).occ = Without(w.occ, s)
      /\ Settle(w, s, status).task = T2
  BY <1>1, <1>2, <1>3, <1>4 DEF Worlds
<1>6. T2[s].here = w.task[s].here /\ T2[s].edition = w.task[s].edition /\ T2[s].status = st
  BY <1>1, <1>3 DEF Tasks
<1> QED
  BY <1>3, <1>5, <1>6

\* The row of a schedule without an occurrence is patched.
LEMMA PatchRow ==
    ASSUME NEW h, NEW T, NEW O, NEW R, NEW E, NEW s \in Schedules,
           Late(h, T, O, R, E), O[s] = NoOcc,
           NEW T2 \in [Schedules -> Tasks], \A q \in Schedules \ {s} : T2[q] = T[q],
           TaskOK(T2[s], NoOcc)
    PROVE  Late(h, T2, O, R, E)
BY TypesOfLate DEF Late, Core

\* An occurrence that has nothing left is settled.
LEMMA SettleGood ==
    ASSUME NEW w \in Worlds, NEW s \in Schedules, NEW status, Clear(w, s)
    PROVE  Fine(Settle(w, s, status))
<1> DEFINE v == Settle(w, s, status)
           O == Without(w.occ, s)
<1>1. Late(w.host, w.task, O, w.run, {})
  BY DEF Clear, Good
<1>2. w.task \in [Schedules -> Tasks] /\ O[s] = NoOcc
  BY Typed DEF Worlds, Without
<1>3. TaskOK(w.task[s], NoOcc)
  BY <1>1, <1>2, TypesOfLate
<1>4. /\ v \in Worlds /\ v.host = w.host /\ v.run = w.run /\ v.occ = O
      /\ \A q \in Schedules \ {s} : v.task[q] = w.task[q]
      /\ v.task[s].here = w.task[s].here
      /\ v.task[s].edition = w.task[s].edition
      /\ v.task[s].status = IF ~w.task[s].here \/ w.host # "up" THEN w.task[s].status
                            ELSE IF status = "succeeded" THEN status ELSE "other"
  BY SettleFields
<1> HIDE DEF v, O
<1>5. TaskOK(v.task[s], NoOcc)
  BY <1>3, <1>4 DEF TaskOK, NoOcc
<1>6. v.task \in [Schedules -> Tasks]
  BY <1>4 DEF Worlds
<1>7. Late(w.host, v.task, O, w.run, {})
  BY <1>1, <1>2, <1>4, <1>5, <1>6, PatchRow
<1> QED
  BY <1>4, <1>7 DEF Fine, Good, v

\* The next attempt is awaited; m is the failed one whose row says so.
LEMMA WaitGood ==
    ASSUME NEW h, NEW T, NEW O, NEW R, NEW s \in Schedules, h = "up",
           Good(h, T, Without(O, s), R), O \in [Schedules -> Occs],
           TaskOK(T[s], O[s]), O[s].pc = "try",
           NEW m \in Runs \cup {"none"}, NEW O2 \in [Schedules -> Occs],
           \A q \in Schedules \ {s} : O2[q] = O[q],
           O2[s].pc = "wait", O2[s].run = m, O2[s].attempt = O[s].attempt,
           O2[s].edited = O[s].edited, O2[s].stopped = O[s].stopped,
           ~O[s].edited, ~O[s].stopped, O[s].attempt < MaxAttempts,
           NEW R2 \in [Runs -> Attempts],
           \A q \in Runs \ {m} : R2[q] = R[q],
           m # "none" => /\ R[m].phase = "none"
                         /\ ~Waits(R[m])
                         /\ R2[m].phase = "none" /\ R2[m].row = "retrying" /\ R2[m].sched = s
                         /\ R2[m].launch = R[m].launch
    PROVE  Good(h, T, O2, R2)
<1> DEFINE O1 == Without(O, s)
<1>1. Late(h, T, O1, R, {})
  BY DEF Good
<1>2. O1[s] = NoOcc /\ \A q \in Schedules \ {s} : O1[q] = O[q]
  BY DEF Without
<1>3. /\ T \in [Schedules -> Tasks] /\ R \in [Runs -> Attempts]
      /\ \A r \in Runs : RunOK(O1, R[r], r)
      /\ \A q \in Schedules : TaskOK(T[q], O1[q]) /\ OccOK(h, R, O1[q], q)
      /\ OnlyOne(R)
  BY <1>1, TypesOfLate
<1> HIDE DEF O1
<1>5. /\ \A q \in Schedules \ {s} : O2[q] = O1[q]
      /\ O2[s].pc = "wait" /\ O2[s].run = m /\ ~O2[s].edited /\ ~O2[s].stopped
  BY <1>2
<1>6. m # "none" => /\ R2[m].phase = "none" /\ R2[m].row = "retrying" /\ R2[m].sched = s
                    /\ R2[m].launch = R[m].launch
  OBVIOUS
<1>7. \A q \in Runs : (Busy(R[q]) \/ Waits(R[q])) => R[q].sched # s
  BY <1>2, <1>3 DEF RunOK, NoOcc
<1>8. m # "none" => Shape(R2[m]) /\ ~Busy(R2[m]) /\ Waits(R2[m]) /\ ~Busy(R[m])
  BY <1>3, <1>6, NamesAssumption DEF RunOK, Shape, Busy, Waits, Unsettled
<1>9. \A q \in Runs : q # m => R2[q] = R[q]
  OBVIOUS
<1>10. \A q \in Runs : MineBefore(R2[q], s) => RunOK(O2, R2[q], q)
  <2> SUFFICES ASSUME NEW q \in Runs, MineBefore(R2[q], s) PROVE RunOK(O2, R2[q], q)
    OBVIOUS
  <2>1. CASE q = m
    BY <2>1, <1>5, <1>6, <1>8, NamesAssumption DEF RunOK
  <2>2. CASE q # m
    <3>1. ~Busy(R2[q]) /\ ~Waits(R2[q])
      BY <2>2, <1>7, <1>9 DEF MineBefore
    <3>2. RunOK(O1, R2[q], q)
      BY <2>2, <1>3, <1>9
    <3> QED
      BY <3>1, <3>2 DEF RunOK, Busy
  <2> QED
    BY <2>1, <2>2
<1>11. \A q \in Runs : R2[q] # R[q] => MineBefore(R[q], s) /\ MineBefore(R2[q], s) /\ Shape(R2[q])
  BY <1>6, <1>8, <1>9, NamesAssumption DEF MineBefore, Waits
<1>12. \A q \in Runs : R2[q].sched = s \/ q \in {} => Timely(h, O2, R2[q])
  BY <1>5 DEF Timely
<1>13. OccOK(h, R2, O2[s], s)
  BY <1>5, <1>6, <1>8 DEF OccOK
<1>14. TaskOK(T[s], O2[s])
  BY <1>5 DEF TaskOK
<1>15. OnlyOne(R2)
  BY <1>3, <1>6, <1>8, <1>9, NamesAssumption DEF OnlyOne, Beats
<1>16. Late(h, T, O2, R2, {})
  BY <1>1, <1>3, <1>5, <1>10, <1>11, <1>12, <1>13, <1>14, <1>15, Local
<1> QED
  BY <1>16 DEF Good

\* An attempt of s that ended with status is followed by another one.
Retried(w, s, status) == status = "failed" /\ RetryIsCurrent(w, s) /\ w.occ[s].attempt < MaxAttempts

\* The states in which the next attempt is awaited.
WaitingOnly(w, s) == [w EXCEPT !.occ[s].pc = "wait"]
Waiting(w, s, m) ==
    [w EXCEPT !.occ[s].pc = "wait", !.occ[s].run = m, !.run[m].row = "retrying", !.run[m].sched = s]

\* What the start of a wait changes, without and with a row that tells of it.
LEMMA WaitingOnlyFields ==
    ASSUME NEW w \in Worlds, NEW s \in Schedules, NEW v, v = WaitingOnly(w, s)
    PROVE  /\ v \in Worlds /\ v.host = w.host /\ v.task = w.task /\ v.run = w.run
           /\ \A q \in Schedules \ {s} : v.occ[q] = w.occ[q]
           /\ v.occ[s].pc = "wait" /\ v.occ[s].run = w.occ[s].run /\ v.occ[s].attempt = w.occ[s].attempt
           /\ v.occ[s].edited = w.occ[s].edited /\ v.occ[s].stopped = w.occ[s].stopped
<1>1. w.occ \in [Schedules -> Occs]
  BY DEF Worlds
<1>2. w.occ[s] \in Occs
  BY <1>1
<1> DEFINE o == [w.occ[s] EXCEPT !.pc = "wait"]
           O2 == [w.occ EXCEPT ![s] = o]
<1>3. v = [w EXCEPT !.occ = O2]
  BY <1>1 DEF Worlds, WaitingOnly
<1>4. /\ o \in Occs /\ o.pc = "wait" /\ o.run = w.occ[s].run /\ o.attempt = w.occ[s].attempt
      /\ o.edited = w.occ[s].edited /\ o.stopped = w.occ[s].stopped
  BY <1>2 DEF Occs
<1> HIDE DEF o
<1>5. O2 \in [Schedules -> Occs] /\ O2[s] = o /\ \A q \in Schedules \ {s} : O2[q] = w.occ[q]
  BY <1>1, <1>4
<1> HIDE DEF O2
<1>6. v \in Worlds /\ v.host = w.host /\ v.task = w.task /\ v.run = w.run /\ v.occ = O2
  BY <1>3, <1>5 DEF Worlds
<1> QED
  BY <1>4, <1>5, <1>6

LEMMA WaitingFields ==
    ASSUME NEW w \in Worlds, NEW s \in Schedules, NEW m \in Runs, NEW v, v = Waiting(w, s, m)
    PROVE  /\ v \in Worlds /\ v.host = w.host /\ v.task = w.task
           /\ \A q \in Schedules \ {s} : v.occ[q] = w.occ[q]
           /\ v.occ[s].pc = "wait" /\ v.occ[s].run = m /\ v.occ[s].attempt = w.occ[s].attempt
           /\ v.occ[s].edited = w.occ[s].edited /\ v.occ[s].stopped = w.occ[s].stopped
           /\ \A q \in Runs \ {m} : v.run[q] = w.run[q]
           /\ v.run[m].phase = w.run[m].phase /\ v.run[m].launch = w.run[m].launch
           /\ v.run[m].row = "retrying" /\ v.run[m].sched = s
<1>1. w.occ \in [Schedules -> Occs] /\ w.run \in [Runs -> Attempts]
  BY DEF Worlds
<1>2. w.occ[s] \in Occs /\ w.run[m] \in Attempts
  BY <1>1
<1> DEFINE o == [w.occ[s] EXCEPT !.pc = "wait", !.run = m]
           x == [w.run[m] EXCEPT !.row = "retrying", !.sched = s]
           O2 == [w.occ EXCEPT ![s] = o]
           R2 == [w.run EXCEPT ![m] = x]
<1>3. v = [w EXCEPT !.occ = O2, !.run = R2]
  BY <1>1 DEF Worlds, Waiting
<1>4. /\ o \in Occs /\ o.pc = "wait" /\ o.run = m /\ o.attempt = w.occ[s].attempt
      /\ o.edited = w.occ[s].edited /\ o.stopped = w.occ[s].stopped
  BY <1>2 DEF Occs
<1>5. /\ x \in Attempts /\ x.phase = w.run[m].phase /\ x.launch = w.run[m].launch
      /\ x.row = "retrying" /\ x.sched = s
  BY <1>2 DEF Attempts, Rows
<1> HIDE DEF o, x
<1>6. /\ O2 \in [Schedules -> Occs] /\ O2[s] = o /\ \A q \in Schedules \ {s} : O2[q] = w.occ[q]
      /\ R2 \in [Runs -> Attempts] /\ R2[m] = x /\ \A q \in Runs \ {m} : R2[q] = w.run[q]
  BY <1>1, <1>4, <1>5
<1> HIDE DEF O2, R2
<1>7. v \in Worlds /\ v.host = w.host /\ v.task = w.task /\ v.run = R2 /\ v.occ = O2
  BY <1>3, <1>6 DEF Worlds
<1> QED
  BY <1>4, <1>5, <1>6, <1>7

\* What AfterAttempt leaves alone, and what it never does to a schedule that is
\* edited or stopped.
Continues(w, v, s, status) ==
    /\ v \in Worlds /\ v.host = w.host
    /\ \A q \in Schedules \ {s} : v.task[q] = w.task[q] /\ v.occ[q] = w.occ[q]
    /\ \A q \in Runs : v.run[q].launch = w.run[q].launch
    /\ w.occ[s].edited => v.occ[s] = NoOcc
    /\ w.occ[s].stopped /\ status # "succeeded" => v.occ[s] = NoOcc /\ v.task[s].status # "succeeded"

\* The step from an attempt that is over to the next one or to the end.
LEMMA AfterAttemptGood ==
    ASSUME NEW w \in Worlds, NEW s \in Schedules, Clear(w, s),
           TaskOK(w.task[s], w.occ[s]), w.occ[s].pc = "try", w.occ[s].run = "none",
           NEW m \in Runs \cup {"none"}, m # "none" => w.run[m].phase = "none" /\ ~Waits(w.run[m]),
           NEW status, status = "failed" => ~w.occ[s].stopped, NEW bad \in BOOLEAN
    PROVE  /\ Fine(AfterAttempt(w, s, m, status, bad))
           /\ Continues(w, AfterAttempt(w, s, m, status, bad), s, status)
<1> DEFINE v == AfterAttempt(w, s, m, status, bad)
<1>0. /\ w.host \in Hosts /\ w.task \in [Schedules -> Tasks]
      /\ w.occ \in [Schedules -> Occs] /\ w.run \in [Runs -> Attempts]
  BY DEF Worlds
<1>1. CASE ~Retried(w, s, status)
  <2>1. v = Settle(w, s, status)
    BY <1>1, Zenon DEF AfterAttempt, Retried
  <2> HIDE DEF v
  <2>2. Fine(v)
    BY <2>1, SettleGood
  <2>3. /\ v \in Worlds /\ v.host = w.host /\ v.run = w.run /\ v.occ = Without(w.occ, s)
        /\ \A q \in Schedules \ {s} : v.task[q] = w.task[q]
        /\ v.task[s].status = IF ~w.task[s].here \/ w.host # "up" THEN w.task[s].status
                              ELSE IF status = "succeeded" THEN status ELSE "other"
    BY <2>1, SettleFields
  <2>4. w.task[s].status # "succeeded"
    BY DEF TaskOK
  <2>5. Continues(w, v, s, status)
    BY <1>0, <2>3, <2>4 DEF Continues, Without
  <2> QED
    BY <2>2, <2>5 DEF v
<1>2. CASE Retried(w, s, status) /\ (m = "none" \/ bad)
  <2>1. v = WaitingOnly(w, s)
    BY <1>2, Zenon DEF AfterAttempt, Retried, WaitingOnly
  <2> HIDE DEF v
  <2>2. /\ v \in Worlds /\ v.host = w.host /\ v.task = w.task /\ v.run = w.run
        /\ \A q \in Schedules \ {s} : v.occ[q] = w.occ[q]
        /\ v.occ[s].pc = "wait" /\ v.occ[s].run = w.occ[s].run /\ v.occ[s].attempt = w.occ[s].attempt
        /\ v.occ[s].edited = w.occ[s].edited /\ v.occ[s].stopped = w.occ[s].stopped
    BY <2>1, WaitingOnlyFields
  <2>3. w.host = "up" /\ ~w.occ[s].edited /\ ~w.occ[s].stopped /\ w.occ[s].attempt < MaxAttempts
    BY <1>2 DEF Retried, RetryIsCurrent
  <2>4. Good(w.host, w.task, Without(w.occ, s), w.run)
    BY DEF Clear
  <2>5. v.occ \in [Schedules -> Occs]
    BY <2>2 DEF Worlds
  <2>6. Good(w.host, w.task, v.occ, w.run)
    BY <1>0, <2>2, <2>3, <2>4, <2>5, WaitGood, NamesAssumption
  <2>7. Fine(v)
    BY <2>2, <2>6 DEF Fine
  <2>8. Continues(w, v, s, status)
    BY <1>0, <2>2, <2>3 DEF Continues
  <2> QED
    BY <2>7, <2>8 DEF v
<1>3. CASE Retried(w, s, status) /\ ~(m = "none" \/ bad)
  <2>1. v = Waiting(w, s, m)
    BY <1>3, Zenon DEF AfterAttempt, Retried, Waiting
  <2>2. m \in Runs
    BY <1>3
  <2> HIDE DEF v
  <2>3. /\ v \in Worlds /\ v.host = w.host /\ v.task = w.task
        /\ \A q \in Schedules \ {s} : v.occ[q] = w.occ[q]
        /\ v.occ[s].pc = "wait" /\ v.occ[s].run = m /\ v.occ[s].attempt = w.occ[s].attempt
        /\ v.occ[s].edited = w.occ[s].edited /\ v.occ[s].stopped = w.occ[s].stopped
        /\ \A q \in Runs \ {m} : v.run[q] = w.run[q]
        /\ v.run[m].phase = w.run[m].phase /\ v.run[m].launch = w.run[m].launch
        /\ v.run[m].row = "retrying" /\ v.run[m].sched = s
    BY <2>1, <2>2, WaitingFields
  <2>4. w.host = "up" /\ ~w.occ[s].edited /\ ~w.occ[s].stopped /\ w.occ[s].attempt < MaxAttempts
    BY <1>3 DEF Retried, RetryIsCurrent
  <2>5. Good(w.host, w.task, Without(w.occ, s), w.run)
    BY DEF Clear
  <2>6. v.occ \in [Schedules -> Occs] /\ v.run \in [Runs -> Attempts]
    BY <2>3 DEF Worlds
  <2>7. w.run[m].phase = "none" /\ ~Waits(w.run[m])
    BY <2>2, NamesAssumption
  <2>8. Good(w.host, w.task, v.occ, v.run)
    BY <1>0, <2>3, <2>4, <2>5, <2>6, <2>7, WaitGood
  <2>9. Fine(v)
    BY <2>3, <2>8 DEF Fine
  <2>10. Continues(w, v, s, status)
    BY <1>0, <2>3, <2>4 DEF Continues
  <2> QED
    BY <2>9, <2>10 DEF v
<1> QED
  BY <1>1, <1>2, <1>3

\* One row of run is replaced; and the row that is left of a released attempt.
WithRun(w, r, x) == [w EXCEPT !.run[r] = x]
Rest(w, r) == [NoRun EXCEPT !.launch = Outlived(w, r)]

\* What these change.
LEMMA WithRunFields ==
    ASSUME NEW w \in Worlds, NEW r \in Runs, NEW x \in Attempts
    PROVE  /\ WithRun(w, r, x) \in Worlds
           /\ WithRun(w, r, x).host = w.host /\ WithRun(w, r, x).task = w.task
           /\ WithRun(w, r, x).occ = w.occ
           /\ WithRun(w, r, x).run[r] = x
           /\ \A q \in Runs \ {r} : WithRun(w, r, x).run[q] = w.run[q]
<1>1. w.run \in [Runs -> Attempts]
  BY DEF Worlds
<1> QED
  BY <1>1 DEF Worlds, WithRun

LEMMA WithRunRuns ==
    ASSUME NEW w \in Worlds, NEW r \in Runs, NEW x \in Attempts
    PROVE  WithRun(w, r, x).run = [w.run EXCEPT ![r] = x]
BY DEF Worlds, WithRun

LEMMA RestFields ==
    ASSUME NEW w \in Worlds, NEW r \in Runs
    PROVE  /\ Rest(w, r) \in Attempts /\ Rest(w, r).phase = "none" /\ Rest(w, r).row = "none"
           /\ Rest(w, r).launch = IF w.run[r].launch = "none" THEN "none" ELSE "stale"
           /\ Shape(Rest(w, r)) /\ ~Busy(Rest(w, r)) /\ ~Waits(Rest(w, r)) /\ ~Beats(Rest(w, r))
           /\ Rest(w, r).sched = "none"
           /\ Released(w, r) = WithRun(w, r, Rest(w, r))
<1>1. Outlived(w, r) \in {"none", "stale"}
  BY DEF Outlived
<1>2. /\ Rest(w, r) \in Attempts /\ Rest(w, r).phase = "none" /\ Rest(w, r).row = "none"
      /\ Rest(w, r).launch = Outlived(w, r) /\ Rest(w, r).sched = "none"
  <2> HIDE DEF Outlived
  <2> QED
    BY <1>1, Typed DEF Rest, NoRun, Attempts
<1>3. Released(w, r) = WithRun(w, r, Rest(w, r))
  BY Zenon DEF Released, WithRun, Rest
<1> QED
  BY <1>1, <1>2, <1>3 DEF Outlived, Shape, Busy, Waits, Beats, Unsettled

\* The parts of Fine.
LEMMA TypesOfFine ==
    ASSUME NEW w, Fine(w)
    PROVE  /\ w.host \in {"up", "closing"} /\ w.task \in [Schedules -> Tasks]
           /\ w.occ \in [Schedules -> Occs] /\ w.run \in [Runs -> Attempts]
           /\ \A r \in Runs : RunOK(w.occ, w.run[r], r) /\ Timely(w.host, w.occ, w.run[r])
           /\ \A s \in Schedules : TaskOK(w.task[s], w.occ[s]) /\ OccOK(w.host, w.run, w.occ[s], s)
           /\ OnlyOne(w.run)
BY DEF Fine, Good, Late, Core

\* An attempt that is not over: its occurrence tries, and is not waiting.
LEMMA LiveFacts ==
    ASSUME NEW w, Fine(w), NEW r \in Runs, Busy(w.run[r])
    PROVE  /\ w.run[r].sched \in Schedules /\ w.run[r] \in Attempts
           /\ w.occ[w.run[r].sched] \in Occs
           /\ w.occ[w.run[r].sched].pc = "try" /\ w.occ[w.run[r].sched].run = "none"
           /\ TaskOK(w.task[w.run[r].sched], w.occ[w.run[r].sched])
           /\ w.occ[w.run[r].sched].stopped => w.run[r].phase = "collecting" /\ w.run[r].verdict = "stopped"
<1>1. w.run[r].sched \in Schedules
  BY TypesOfFine DEF RunOK, Shape, Busy
<1> QED
  BY <1>1, TypesOfFine DEF RunOK, OccOK

\* The attempt is over, and its reservation gone or the result in custody.
LEMMA EndedClear ==
    ASSUME NEW w \in Worlds, Fine(w), NEW r \in Runs, Busy(w.run[r]),
           NEW x \in Attempts, ~Busy(x), ~Waits(x), Shape(x), Beats(x) => Beats(w.run[r])
    PROVE  Clear(WithRun(w, r, x), w.run[r].sched)
<1>1. Good(w.host, w.task, w.occ, w.run)
  BY DEF Fine
<1>2. Good(w.host, w.task, Without(w.occ, w.run[r].sched), [w.run EXCEPT ![r] = x])
  BY <1>1, Ending
<1>3. /\ WithRun(w, r, x).host = w.host /\ WithRun(w, r, x).task = w.task
      /\ WithRun(w, r, x).occ = w.occ /\ WithRun(w, r, x).run = [w.run EXCEPT ![r] = x]
  BY WithRunFields, WithRunRuns
<1> QED
  BY <1>2, <1>3 DEF Clear

\* From w to v the two action properties hold; no prompt is sent.
Kindly(w, v) ==
    /\ v \in Worlds
    /\ \A q \in Schedules :
         /\ w.occ[q].edited => v.occ[q].pc # "wait" /\ v.occ[q].attempt <= w.occ[q].attempt
         /\ w.occ[q].stopped => /\ v.occ[q].pc # "wait"
                                /\ v.occ[q].pc = "off" => v.task[q].status # "succeeded"
    /\ \A q \in Runs : v.run[q].launch \in {"start", "send", "resend"} => v.run[q].launch = w.run[q].launch

\* It is enough to look at the one schedule that changes.
LEMMA KindlyOfOne ==
    ASSUME NEW w \in Worlds, Fine(w), NEW s \in Schedules, NEW v \in Worlds,
           \A q \in Schedules \ {s} : v.task[q] = w.task[q] /\ v.occ[q] = w.occ[q],
           w.occ[s].edited => v.occ[s] = NoOcc \/ (v.occ[s].pc # "wait" /\ v.occ[s].attempt = w.occ[s].attempt),
           w.occ[s].stopped => (v.occ[s] = NoOcc /\ v.task[s].status # "succeeded")
                               \/ v.occ[s].pc = w.occ[s].pc,
           \A q \in Runs : v.run[q].launch \in {"start", "send", "resend"} => v.run[q].launch = w.run[q].launch
    PROVE  Kindly(w, v)
<1>1. /\ w.occ \in [Schedules -> Occs] /\ v.occ \in [Schedules -> Occs]
      /\ \A q \in Schedules : TaskOK(w.task[q], w.occ[q]) /\ OccOK(w.host, w.run, w.occ[q], q)
  BY TypesOfFine DEF Worlds
<1>2. \A q \in Schedules : w.occ[q].attempt \in Nat /\ v.occ[q].attempt \in Nat
  BY <1>1, AttemptsAssumption DEF Occs
<1>3. \A q \in Schedules : w.occ[q].edited \/ w.occ[q].stopped => w.occ[q].pc = "try"
  <2> SUFFICES ASSUME NEW q \in Schedules, w.occ[q].edited \/ w.occ[q].stopped PROVE w.occ[q].pc = "try"
    OBVIOUS
  <2>1. w.occ[q].pc \in {"off", "try", "wait"} /\ OccOK(w.host, w.run, w.occ[q], q)
    BY <1>1 DEF Occs
  <2> QED
    BY <2>1 DEF OccOK, NoOcc
<1>4. \A q \in Schedules : w.occ[q].edited => v.occ[q].pc # "wait" /\ v.occ[q].attempt <= w.occ[q].attempt
  <2> SUFFICES ASSUME NEW q \in Schedules, w.occ[q].edited
               PROVE  v.occ[q].pc # "wait" /\ v.occ[q].attempt <= w.occ[q].attempt
    OBVIOUS
  <2>1. CASE v.occ[q].pc # "wait" /\ v.occ[q].attempt = w.occ[q].attempt
    BY <1>2, <2>1
  <2>2. CASE v.occ[q] = NoOcc
    <3>1. v.occ[q].pc = "off" /\ v.occ[q].attempt = 0
      BY <2>2 DEF NoOcc
    <3> QED
      BY <1>2, <3>1
  <2>3. CASE q # s
    <3>1. v.occ[q] = w.occ[q]
      BY <2>3
    <3> QED
      BY <1>2, <1>3, <3>1
  <2> QED
    BY <2>1, <2>2, <2>3
<1>5. \A q \in Schedules : w.occ[q].stopped =>
         v.occ[q].pc # "wait" /\ (v.occ[q].pc = "off" => v.task[q].status # "succeeded")
  BY <1>3 DEF NoOcc
<1> QED
  BY <1>4, <1>5 DEF Kindly

\* The attempt r is over; runWithRetries goes on.
LEMMA EndedRetried ==
    ASSUME NEW w \in Worlds, Fine(w), NEW r \in Runs, Busy(w.run[r]),
           NEW x \in Attempts, x.phase = "none", ~Waits(x), Shape(x), x.launch \in {"none", "stale"},
           NEW m \in {r, "none"}, NEW status, NEW bad \in BOOLEAN,
           status = "failed" => ~w.occ[w.run[r].sched].stopped,
           status = "succeeded" => ~w.occ[w.run[r].sched].stopped,
           NEW v, v = AfterAttempt(WithRun(w, r, x), w.run[r].sched, m, status, bad)
    PROVE  Fine(v) /\ Kindly(w, v)
<1> DEFINE s == w.run[r].sched
<1>1. /\ s \in Schedules /\ w.occ[s].pc = "try" /\ w.occ[s].run = "none"
      /\ TaskOK(w.task[s], w.occ[s])
  BY LiveFacts
<1>2. ~Busy(x) /\ ~Beats(x)
  BY DEF Busy, Beats
<1> DEFINE u == WithRun(w, r, x)
<1>3. Clear(u, s)
  BY <1>2, EndedClear
<1>4. /\ u \in Worlds /\ u.host = w.host /\ u.task = w.task /\ u.occ = w.occ /\ u.run[r] = x
      /\ \A q \in Runs \ {r} : u.run[q] = w.run[q]
  <2>1. u = WithRun(w, r, x)
    OBVIOUS
  <2> HIDE DEF u, s
  <2> QED
    BY <1>2, <2>1, WithRunFields
<1> HIDE DEF s, u
<1>5. v = AfterAttempt(u, s, m, status, bad)
  BY DEF s, u
<1>6. Fine(v) /\ Continues(u, v, s, status)
  <2>1. m # "none" => u.run[m].phase = "none" /\ ~Waits(u.run[m])
    BY <1>2, <1>4
  <2>2. m \in Runs \cup {"none"}
    OBVIOUS
  <2>3. status = "failed" => ~u.occ[s].stopped
    BY <1>4 DEF s
  <2> QED
    BY <1>1, <1>3, <1>4, <1>5, <2>1, <2>2, <2>3, AfterAttemptGood
<1>7. /\ v \in Worlds
      /\ \A q \in Schedules \ {s} : v.task[q] = w.task[q] /\ v.occ[q] = w.occ[q]
      /\ w.occ[s].edited => v.occ[s] = NoOcc
      /\ w.occ[s].stopped => v.occ[s] = NoOcc /\ v.task[s].status # "succeeded"
  BY <1>4, <1>6 DEF Continues, s
<1>8. \A q \in Runs : v.run[q].launch \in {"start", "send", "resend"} => v.run[q].launch = w.run[q].launch
  BY <1>2, <1>4, <1>6 DEF Continues
<1>9. /\ w.occ[s].edited => v.occ[s] = NoOcc \/ (v.occ[s].pc # "wait" /\ v.occ[s].attempt = w.occ[s].attempt)
      /\ w.occ[s].stopped => (v.occ[s] = NoOcc /\ v.task[s].status # "succeeded") \/ v.occ[s].pc = w.occ[s].pc
  BY <1>7
<1>10. Kindly(w, v)
  BY <1>1, <1>7, <1>8, <1>9, KindlyOfOne
<1> QED
  BY <1>6, <1>10

\* The attempt r is over, its row is x, and the schedule is settled.
LEMMA EndedSettled ==
    ASSUME NEW w \in Worlds, Fine(w), NEW r \in Runs, Busy(w.run[r]),
           NEW x \in Attempts, ~Busy(x), ~Waits(x), Shape(x), Beats(x) => Beats(w.run[r]),
           x.launch \in {"none", "stale"},
           NEW status, status = "succeeded" => ~w.occ[w.run[r].sched].stopped,
           NEW v, v = Settle(WithRun(w, r, x), w.run[r].sched, status)
    PROVE  Fine(v) /\ Kindly(w, v)
<1> DEFINE s == w.run[r].sched
           u == WithRun(w, r, x)
<1>1. s \in Schedules /\ TaskOK(w.task[s], w.occ[s]) /\ w.occ[s].pc = "try"
  BY LiveFacts
<1>2. Clear(u, s)
  BY EndedClear
<1>3. /\ u \in Worlds /\ u.host = w.host /\ u.task = w.task /\ u.occ = w.occ /\ u.run[r] = x
      /\ \A q \in Runs \ {r} : u.run[q] = w.run[q]
  <2>1. u = WithRun(w, r, x)
    OBVIOUS
  <2> HIDE DEF u, s
  <2> QED
    BY <2>1, WithRunFields
<1> HIDE DEF s, u
<1>4. v = Settle(u, s, status)
  BY DEF s, u
<1>5. Fine(v)
  BY <1>1, <1>2, <1>3, <1>4, SettleGood
<1>6. /\ v \in Worlds /\ v.run = u.run /\ v.occ = Without(u.occ, s)
      /\ \A q \in Schedules \ {s} : v.task[q] = u.task[q]
      /\ v.task[s].status = IF ~u.task[s].here \/ u.host # "up" THEN u.task[s].status
                            ELSE IF status = "succeeded" THEN status ELSE "other"
  BY <1>1, <1>3, <1>4, SettleFields
<1>7. /\ \A q \in Schedules \ {s} : v.task[q] = w.task[q] /\ v.occ[q] = w.occ[q]
      /\ v.occ[s] = NoOcc
  BY <1>1, <1>3, <1>6 DEF Without, Worlds
<1>8. w.occ[s].stopped => v.task[s].status # "succeeded"
  BY <1>1, <1>3, <1>6 DEF TaskOK, s
<1>9. \A q \in Runs : v.run[q].launch \in {"start", "send", "resend"} => v.run[q].launch = w.run[q].launch
  BY <1>3, <1>6
<1>10. /\ w.occ[s].edited => v.occ[s] = NoOcc \/ (v.occ[s].pc # "wait" /\ v.occ[s].attempt = w.occ[s].attempt)
       /\ w.occ[s].stopped => (v.occ[s] = NoOcc /\ v.task[s].status # "succeeded") \/ v.occ[s].pc = w.occ[s].pc
  BY <1>7, <1>8
<1>11. Kindly(w, v)
  BY <1>1, <1>6, <1>7, <1>9, <1>10, KindlyOfOne
<1> QED
  BY <1>5, <1>11

\* The settlement of a collected or evaluated attempt.
LEMMA FinishGood ==
    ASSUME NEW w \in Worlds, Fine(w), NEW r \in Runs, w.run[r].phase \in {"collecting", "evaluating"},
           NEW status, NEW final \in BOOLEAN, NEW bad \in BOOLEAN,
           status = "failed" /\ ~final => ~w.occ[w.run[r].sched].stopped,
           status = "succeeded" => ~w.occ[w.run[r].sched].stopped
    PROVE  Fine(Finish(w, r, status, final, bad)) /\ Kindly(w, Finish(w, r, status, final, bad))
<1> DEFINE s == w.run[r].sched
           v == Finish(w, r, status, final, bad)
<1>0. Busy(w.run[r]) /\ w.run[r] \in Attempts /\ s \in Schedules
  BY LiveFacts DEF Busy
<1>1. CASE bad
  <2> DEFINE x == [w.run[r] EXCEPT !.phase = "kept"]
  <2>1. /\ x \in Attempts /\ x.phase = "kept" /\ x.launch = w.run[r].launch /\ x.row = w.run[r].row
        /\ x.edition = w.run[r].edition /\ x.sched = s
    BY <1>0 DEF Attempts, Phases
  <2>2. v = Settle(WithRun(w, r, x), s, "failed")
    BY <1>1, Zenon DEF Finish, WithRun
  <2> HIDE DEF x
  <2>3. Shape(w.run[r])
    BY TypesOfFine DEF RunOK
  <2>4. x.launch \in {"none", "stale"} /\ Shape(x) /\ ~Busy(x) /\ ~Waits(x) /\ (Beats(x) => Beats(w.run[r]))
    BY <1>0, <2>1, <2>3 DEF Shape, Unsettled, Busy, Waits, Beats
  <2> HIDE DEF v
  <2>5. Fine(v) /\ Kindly(w, v)
    BY <1>0, <2>1, <2>2, <2>4, EndedSettled
  <2> QED
    BY <2>5 DEF v
<1>2. CASE ~bad /\ final
  <2>1. v = Settle(WithRun(w, r, Rest(w, r)), s, status)
    <3>1. v = Settle(Released(w, r), s, status)
      BY <1>2, Zenon DEF Finish
    <3> QED
      BY <3>1, RestFields
  <2> HIDE DEF v
  <2>2. Fine(v) /\ Kindly(w, v)
    BY <1>0, <2>1, RestFields, EndedSettled
  <2> QED
    BY <2>2 DEF v
<1>3. CASE ~bad /\ ~final
  <2>1. v = AfterAttempt(WithRun(w, r, Rest(w, r)), s, r, status, bad)
    <3>1. v = AfterAttempt(Released(w, r), s, r, status, bad)
      BY <1>3, Zenon DEF Finish
    <3> QED
      BY <3>1, RestFields
  <2> HIDE DEF v
  <2>2. Fine(v) /\ Kindly(w, v)
    BY <1>0, <1>3, <2>1, RestFields, EndedRetried
  <2> QED
    BY <2>2 DEF v
<1> QED
  BY <1>1, <1>2, <1>3

\* An occurrence that was edited or cancelled is in an attempt.
LEMMA TriesOn ==
    ASSUME NEW w, Fine(w), NEW q \in Schedules
    PROVE  /\ w.occ[q] \in Occs /\ w.occ[q].attempt \in Nat
           /\ w.occ[q].edited \/ w.occ[q].stopped => w.occ[q].pc = "try"
<1>1. w.occ[q] \in Occs /\ OccOK(w.host, w.run, w.occ[q], q)
  BY TypesOfFine
<1>2. w.occ[q].pc \in {"off", "try", "wait"} /\ w.occ[q].attempt \in Nat
  BY <1>1, AttemptsAssumption DEF Occs
<1> QED
  BY <1>1, <1>2 DEF OccOK, NoOcc

\* Nothing changes.
LEMMA KindlyRefl ==
    ASSUME NEW w \in Worlds, Fine(w)
    PROVE  Kindly(w, w)
BY TriesOn DEF Kindly

\* A change of one attempt that goes on.
LEMMA TouchGood ==
    ASSUME NEW w \in Worlds, Fine(w), NEW r \in Runs, Busy(w.run[r]), NEW x \in Attempts,
           Busy(x), x.sched = w.run[r].sched, x.edition = w.run[r].edition,
           Shape(x), x.phase = "resuming" /\ x.launch = "none" => w.occ[x.sched].edited,
           Timely(w.host, w.occ, x),
           w.occ[x.sched].stopped => x.phase = "collecting" /\ x.verdict = "stopped",
           NEW v, v = WithRun(w, r, x)
    PROVE  /\ Fine(v)
           /\ (x.launch \in {"start", "send", "resend"} => x.launch = w.run[r].launch) => Kindly(w, v)
<1> DEFINE s == w.run[r].sched
<1>1. v \in Worlds /\ v.host = w.host /\ v.task = w.task /\ v.occ = w.occ
  BY WithRunFields
<1>2. Fine(v)
  <2>1. Good(w.host, w.task, w.occ, w.run)
    BY DEF Fine
  <2>2. Good(w.host, w.task, w.occ, [w.run EXCEPT ![r] = x])
    BY <2>1, Touch
  <2> QED
    BY <1>1, <2>2, WithRunRuns DEF Fine
<1>3. ASSUME x.launch \in {"start", "send", "resend"} => x.launch = w.run[r].launch
      PROVE  Kindly(w, v)
  <2>1. s \in Schedules /\ w.occ[s].pc = "try"
    BY LiveFacts
  <2>2. \A q \in Runs : v.run[q].launch \in {"start", "send", "resend"} => v.run[q].launch = w.run[q].launch
    BY <1>3, WithRunFields
  <2> HIDE DEF s
  <2>3. w.occ[s].edited => v.occ[s] = NoOcc \/ (v.occ[s].pc # "wait" /\ v.occ[s].attempt = w.occ[s].attempt)
    BY <1>1, <2>1
  <2>4. w.occ[s].stopped => (v.occ[s] = NoOcc /\ v.task[s].status # "succeeded") \/ v.occ[s].pc = w.occ[s].pc
    BY <1>1, <2>1
  <2>5. \A q \in Schedules \ {s} : v.task[q] = w.task[q] /\ v.occ[q] = w.occ[q]
    BY <1>1
  <2> QED
    BY <1>1, <2>1, <2>2, <2>3, <2>4, <2>5, KindlyOfOne
<1> QED
  BY <1>2, <1>3

\* An attempt whose turn has ended collects its result.
ToCollect(w, r, status, l) ==
    [w EXCEPT !.run[r].phase = "collecting", !.run[r].verdict = status,
              !.run[r].active = FALSE, !.run[r].launch = l]
LEMMA ToCollectIs ==
    ASSUME NEW w \in Worlds, NEW r \in Runs, NEW status \in Verdicts, NEW l \in {"none", "stale"}
    PROVE  \E x \in Attempts :
             /\ ToCollect(w, r, status, l) = WithRun(w, r, x)
             /\ x.phase = "collecting" /\ x.verdict = status /\ x.launch = l
             /\ x.sched = w.run[r].sched /\ x.edition = w.run[r].edition /\ x.row = w.run[r].row
<1> DEFINE y == [w.run[r] EXCEPT !.phase = "collecting"]
           z == [y EXCEPT !.verdict = status]
           a == [z EXCEPT !.active = FALSE]
           b == [a EXCEPT !.launch = l]
           w1 == [w EXCEPT !.run[r] = y]
           w2 == [w EXCEPT !.run[r] = z]
           w3 == [w EXCEPT !.run[r] = a]
<1>1. w.run \in [Runs -> Attempts] /\ w.run[r] \in Attempts
  BY DEF Worlds
<1>2. [w EXCEPT !.run[r].phase = "collecting"] = w1
  OBVIOUS
<1> HIDE DEF y
<1>3. [w1 EXCEPT !.run[r].verdict = status] = w2
  BY <1>1 DEF Worlds
<1> HIDE DEF z
<1>4. [w2 EXCEPT !.run[r].active = FALSE] = w3
  BY <1>1 DEF Worlds
<1> HIDE DEF a
<1>5. [w3 EXCEPT !.run[r].launch = l] = WithRun(w, r, b)
  BY <1>1 DEF Worlds, WithRun
<1>6. ToCollect(w, r, status, l) = [[[[w EXCEPT !.run[r].phase = "collecting"] EXCEPT !.run[r].verdict = status]
                                         EXCEPT !.run[r].active = FALSE] EXCEPT !.run[r].launch = l]
  BY Zenon DEF ToCollect
<1>7. ToCollect(w, r, status, l) = WithRun(w, r, b)
  BY <1>2, <1>3, <1>4, <1>5, <1>6, Zenon
<1>8. /\ b \in Attempts /\ b.phase = "collecting" /\ b.verdict = status /\ b.launch = l
      /\ b.sched = w.run[r].sched /\ b.edition = w.run[r].edition /\ b.row = w.run[r].row
  BY <1>1 DEF y, z, a, Attempts, Phases
<1> HIDE DEF b
<1> QED
  BY <1>7, <1>8

\* Every verdict on an attempt keeps the invariant, and honours what was cancelled.
LEMMA CompleteGood ==
    ASSUME NEW w \in Worlds, Fine(w), NEW r \in Runs, NEW status \in Verdicts, NEW bad \in BOOLEAN,
           NEW v, v = Complete(w, r, status, bad)
    PROVE  Fine(v) /\ Kindly(w, v)
<1> DEFINE s == w.run[r].sched
           phase == w.run[r].phase
<1>0. w.run[r] \in Attempts /\ RunOK(w.occ, w.run[r], r) /\ Timely(w.host, w.occ, w.run[r])
  BY TypesOfFine
<1>1. CASE phase = "preparing"
  <2>1. Busy(w.run[r]) /\ ~w.occ[s].stopped
    BY <1>1, LiveFacts DEF Busy
  <2>2. v = AfterAttempt(WithRun(w, r, Rest(w, r)), s, "none", status, bad)
    <3>1. v = AfterAttempt(Released(w, r), s, "none", status, bad)
      BY <1>1, Zenon DEF Complete
    <3> QED
      BY <3>1, RestFields
  <2> QED
    BY <2>1, <2>2, RestFields, EndedRetried
<1>2. CASE phase \in {"resuming", "dispatching"}
  <2>1. Busy(w.run[r]) /\ ~w.occ[s].stopped
    BY <1>2, LiveFacts DEF Busy
  <2>2. Outlived(w, r) \in {"none", "stale"}
    BY DEF Outlived
  <2>3. v = ToCollect(w, r, status, Outlived(w, r))
    BY <1>2, Zenon DEF Complete, ToCollect
  <2>4. PICK x \in Attempts :
           /\ v = WithRun(w, r, x)
           /\ x.phase = "collecting" /\ x.verdict = status /\ x.launch = Outlived(w, r)
           /\ x.sched = s /\ x.edition = w.run[r].edition /\ x.row = w.run[r].row
    BY <2>2, <2>3, ToCollectIs
  <2>5. Busy(x) /\ Shape(x) /\ Timely(w.host, w.occ, x)
    BY <1>0, <1>2, <2>2, <2>4 DEF Busy, Shape, RunOK, Timely, Unsettled
  <2> QED
    BY <2>1, <2>2, <2>4, <2>5, TouchGood
<1>3. CASE phase = "collecting" /\ status = "stopped"
  <2> DEFINE x == [w.run[r] EXCEPT !.verdict = status]
  <2>1. Busy(w.run[r])
    BY <1>3 DEF Busy
  <2>2. /\ x \in Attempts /\ x.phase = "collecting" /\ x.sched = s /\ x.edition = w.run[r].edition
        /\ x.launch = w.run[r].launch /\ x.row = w.run[r].row /\ x.verdict = "stopped"
    BY <1>0, <1>3 DEF Attempts
  <2>3. v = WithRun(w, r, x)
    BY <1>3, Zenon DEF WithRun, Complete
  <2> HIDE DEF x
  <2>4. Busy(x) /\ Shape(x) /\ Timely(w.host, w.occ, x)
    BY <1>0, <1>3, <2>2 DEF Busy, Shape, RunOK, Timely, Unsettled
  <2> QED
    BY <2>1, <2>2, <2>3, <2>4, TouchGood
<1>4. CASE phase = "evaluating" /\ status = "stopped"
  <2>1. v = Finish(w, r, status, FALSE, bad)
    BY <1>4, Zenon DEF Complete
  <2> QED
    BY <1>4, <2>1, FinishGood
<1>5. CASE phase \notin {"preparing", "resuming", "dispatching"} /\ ~(phase \in {"collecting", "evaluating"} /\ status = "stopped")
  <2>1. v = w
    BY <1>5 DEF Complete
  <2> QED
    BY <2>1, KindlyRefl
<1> QED
  BY <1>1, <1>2, <1>3, <1>4, <1>5

\* Runs that are nobody's change.
LEMMA IdleRuns ==
    ASSUME NEW h, NEW T, NEW O, NEW R, NEW E, Late(h, T, O, R, E), NEW R2 \in [Runs -> Attempts],
           \A q \in Runs : \/ R2[q] = R[q]
                           \/ /\ ~Busy(R[q]) /\ ~Waits(R[q]) /\ ~Busy(R2[q]) /\ ~Waits(R2[q])
                              /\ Shape(R2[q]) /\ (Beats(R2[q]) => Beats(R[q]))
    PROVE  Late(h, T, O, R2, E)
<1>1. /\ h \in {"up", "closing"} /\ T \in [Schedules -> Tasks]
      /\ O \in [Schedules -> Occs] /\ R \in [Runs -> Attempts]
      /\ \A r \in Runs : RunOK(O, R[r], r)
      /\ \A s \in Schedules : TaskOK(T[s], O[s]) /\ OccOK(h, R, O[s], s)
      /\ OnlyOne(R)
  BY TypesOfLate
<1>2. \A r \in Runs : RunOK(O, R2[r], r)
  BY <1>1 DEF RunOK, Busy
<1>3. \A s \in Schedules : OccOK(h, R2, O[s], s)
  <2> SUFFICES ASSUME NEW s \in Schedules PROVE OccOK(h, R2, O[s], s)
    OBVIOUS
  <2>1. OccOK(h, R, O[s], s) /\ O[s].run \in Runs \cup {"none"}
    BY <1>1 DEF Occs
  <2> QED
    BY <2>1 DEF OccOK
<1>4. OnlyOne(R2)
  BY <1>1 DEF OnlyOne
<1>5. \A r \in Runs \ E : Timely(h, O, R2[r])
  BY DEF Late, Timely, Busy, Unsettled
<1> QED
  BY <1>1, <1>2, <1>3, <1>4, <1>5 DEF Late, Core

\* What the write of results in custody changes.
LEMMA RecordedFields ==
    ASSUME NEW w \in Worlds
    PROVE  /\ Recorded(w) \in Worlds /\ Recorded(w).host = w.host
           /\ Recorded(w).task = w.task /\ Recorded(w).occ = w.occ
           /\ \A q \in Runs : Recorded(w).run[q] = IF w.run[q].phase = "kept" THEN Rest(w, q) ELSE w.run[q]
<1> DEFINE R2 == [r \in Runs |-> IF r \in Kept(w) THEN Released(w, r).run[r] ELSE w.run[r]]
<1>1. \A q \in Runs : q \in Kept(w) <=> w.run[q].phase = "kept"
  BY DEF Kept
<1>2. \A q \in Runs : Released(w, q).run[q] = Rest(w, q)
  <2> TAKE q \in Runs
  <2>1. Rest(w, q) \in Attempts /\ Released(w, q) = WithRun(w, q, Rest(w, q))
    BY RestFields
  <2>2. WithRun(w, q, Rest(w, q)).run[q] = Rest(w, q)
    BY <2>1, WithRunFields
  <2> QED
    BY <2>1, <2>2
<1>3. w.run \in [Runs -> Attempts]
  BY DEF Worlds
<1>4. /\ R2 \in [Runs -> Attempts]
      /\ \A q \in Runs : R2[q] = IF w.run[q].phase = "kept" THEN Rest(w, q) ELSE w.run[q]
  BY <1>1, <1>2, <1>3, RestFields
<1>5. Recorded(w) = [w EXCEPT !.run = R2]
  BY Zenon DEF Recorded
<1> HIDE DEF R2
<1> QED
  BY <1>4, <1>5 DEF Worlds

\* Results in custody may be written at any time.
LEMMA RecordedGood ==
    ASSUME NEW w \in Worlds, NEW T, NEW O, Good(w.host, T, O, w.run)
    PROVE  Good(w.host, T, O, Recorded(w).run)
<1> DEFINE R2 == Recorded(w).run
<1>1. Late(w.host, T, O, w.run, {})
  BY DEF Good
<1>2. R2 \in [Runs -> Attempts]
  BY RecordedFields DEF Worlds
<1>3. \A q \in Runs : \/ R2[q] = w.run[q]
                      \/ /\ ~Busy(w.run[q]) /\ ~Waits(w.run[q]) /\ ~Busy(R2[q]) /\ ~Waits(R2[q])
                         /\ Shape(R2[q]) /\ (Beats(R2[q]) => Beats(w.run[q]))
  BY RecordedFields, RestFields DEF Busy, Waits
<1> HIDE DEF R2
<1> QED
  BY <1>1, <1>2, <1>3, IdleRuns DEF Good, R2

\* s is being tried, for the moment without an attempt.
Trying(w, s) ==
    /\ w \in Worlds /\ Clear(w, s) /\ w.host = "up" /\ w.task[s].here
    /\ TaskOK(w.task[s], w.occ[s])
    /\ w.occ[s].pc = "try" /\ w.occ[s].run = "none" /\ ~w.occ[s].edited /\ ~w.occ[s].stopped

\* What happens to s alone; no prompt is sent by it.
Apart(w, v, s) ==
    /\ v \in Worlds
    /\ \A q \in Schedules \ {s} : v.task[q] = w.task[q] /\ v.occ[q] = w.occ[q]
    /\ \A q \in Runs : v.run[q].launch \in {"start", "send", "resend"} => v.run[q].launch = w.run[q].launch

\* A schedule whose occurrence is not in an attempt was neither edited nor cancelled.
LEMMA ApartKindly ==
    ASSUME NEW w \in Worlds, Fine(w), NEW s \in Schedules, w.occ[s].pc # "try", NEW v, Apart(w, v, s)
    PROVE  Kindly(w, v)
BY KindlyOfOne, TriesOn DEF Apart

\* An attempt is reserved for s.
LEMMA Reserve ==
    ASSUME NEW w, NEW s \in Schedules, Trying(w, s), NEW r \in Runs, NEW x \in Attempts,
           ~Busy(w.run[r]), ~Waits(w.run[r]),
           x.phase = "preparing", x.launch = "config", x.row = "none",
           x.sched = s, x.edition \in Editions,
           Beats(x) => \A q \in Runs : ~Beats(w.run[q]),
           NEW v, v = WithRun(w, r, x)
    PROVE  Fine(v) /\ Apart(w, v, s)
<1> DEFINE O1 == Without(w.occ, s)
           R2 == [w.run EXCEPT ![r] = x]
<1>0. w \in Worlds /\ Late(w.host, w.task, O1, w.run, {})
  BY DEF Trying, Clear, Good
<1>1. /\ v \in Worlds /\ v.host = w.host /\ v.task = w.task /\ v.occ = w.occ
      /\ \A q \in Runs \ {r} : v.run[q] = w.run[q]
      /\ v.run[r] = x
  BY <1>0, WithRunFields
<1>2. /\ O1[s] = NoOcc /\ \A q \in Schedules \ {s} : O1[q] = w.occ[q]
      /\ w.occ \in [Schedules -> Occs] /\ v.run \in [Runs -> Attempts] /\ w.task \in [Schedules -> Tasks]
  BY <1>0, <1>1 DEF Without, Worlds
<1> HIDE DEF O1
<1>3. /\ w.run \in [Runs -> Attempts]
      /\ \A q \in Runs : RunOK(O1, w.run[q], q)
      /\ OnlyOne(w.run)
  BY <1>0, TypesOfLate
<1>4. \A q \in Runs : (Busy(w.run[q]) \/ Waits(w.run[q])) => w.run[q].sched # s
  BY <1>2, <1>3 DEF RunOK, NoOcc
<1>5. Shape(x) /\ Busy(x) /\ ~Waits(x)
  BY DEF Shape, Busy, Waits, Unsettled
<1>6. \A q \in Runs : v.run[q] # w.run[q] =>
         MineBefore(w.run[q], s) /\ MineBefore(v.run[q], s) /\ Shape(v.run[q])
  BY <1>1, <1>5 DEF MineBefore
<1>7. \A q \in Runs : MineBefore(v.run[q], s) => RunOK(w.occ, v.run[q], q)
  <2> SUFFICES ASSUME NEW q \in Runs, MineBefore(v.run[q], s) PROVE RunOK(w.occ, v.run[q], q)
    OBVIOUS
  <2>1. CASE q = r
    BY <1>1, <1>5, <2>1 DEF RunOK, Trying
  <2>2. CASE q # r
    <3>1. v.run[q] = w.run[q] /\ RunOK(O1, w.run[q], q)
      BY <1>1, <1>3, <2>2
    <3>2. ~Busy(v.run[q]) /\ ~Waits(v.run[q])
      BY <1>4, <3>1 DEF MineBefore
    <3> QED
      BY <3>1, <3>2 DEF RunOK, Busy
  <2> QED
    BY <2>1, <2>2
<1>8. \A q \in Runs : v.run[q].sched = s \/ q \in {} => Timely(w.host, w.occ, v.run[q])
  BY DEF Trying, Timely
<1>9. TaskOK(w.task[s], w.occ[s]) /\ OccOK(w.host, v.run, w.occ[s], s)
  BY <1>1, <1>5 DEF Trying, OccOK
<1>10. OnlyOne(v.run)
  <2> SUFFICES ASSUME NEW p \in Runs, NEW q \in Runs, p # q,
                      \/ Busy(v.run[p]) /\ Busy(v.run[q]) /\ v.run[p].sched = v.run[q].sched
                      \/ Beats(v.run[p]) /\ Beats(v.run[q])
               PROVE  FALSE
    BY DEF OnlyOne
  <2>1. CASE p # r /\ q # r
    BY <1>1, <1>3, <2>1 DEF OnlyOne
  <2>2. CASE p = r
    BY <1>1, <1>4, <2>2
  <2>3. CASE q = r
    BY <1>1, <1>4, <2>3
  <2> QED
    BY <2>1, <2>2, <2>3
<1>11. Late(w.host, w.task, w.occ, v.run, {})
  BY <1>0, <1>2, <1>6, <1>7, <1>8, <1>9, <1>10, Local
<1>12. Fine(v)
  BY <1>1, <1>11 DEF Fine, Good
<1>13. Apart(w, v, s)
  BY <1>1 DEF Apart
<1> QED
  BY <1>12, <1>13

\* Every way an attempt can begin.
LEMMA AttemptedGood ==
    ASSUME NEW w, NEW s \in Schedules, Trying(w, s), NEW bad \in BOOLEAN, NEW v \in Attempted(w, s, bad)
    PROVE  Fine(v) /\ Apart(w, v, s)
<1> DEFINE e == w.task[s].edition
           u == Recorded(w)
           r == CHOOSE name \in Unused(u) : TRUE
           x == [NoRun EXCEPT !.sched = s, !.edition = e, !.phase = "preparing", !.launch = "config"]
           y == [NoRun EXCEPT !.sched = s, !.row = "lost"]
<1>0. w \in Worlds /\ Clear(w, s) /\ TaskOK(w.task[s], w.occ[s]) /\ ~w.occ[s].stopped
  BY DEF Trying
<1>1. CASE v = Settle(w, s, "failed")
  <2>1. Fine(v)
    BY <1>0, <1>1, SettleGood
  <2>2. /\ v \in Worlds /\ v.run = w.run /\ v.occ = Without(w.occ, s)
        /\ \A q \in Schedules \ {s} : v.task[q] = w.task[q]
    BY <1>0, <1>1, SettleFields
  <2>3. \A q \in Schedules \ {s} : v.occ[q] = w.occ[q]
    BY <1>0, <2>2 DEF Without, Worlds
  <2> QED
    BY <2>1, <2>2, <2>3 DEF Apart
<1>2. CASE /\ v # Settle(w, s, "failed")
  <2>1. Unused(u) # {}
    BY <1>2, Zenon DEF Attempted
  <2>2. r \in Unused(u)
    BY <2>1
  <2> HIDE DEF r
  <2>3. \/ v = WithRun(u, r, x) /\ (e \notin Heartbeats \/ (target /\ ~TargetTaken(u)))
        \/ v = AfterAttempt(u, s, r, "failed", bad)
        \/ v = AfterAttempt(u, s, "none", "failed", bad)
        \/ v = AfterAttempt(WithRun(u, r, y), s, "none", "failed", bad)
    BY <1>2, Zenon DEF Attempted, WithRun, r
  <2>4. /\ u \in Worlds /\ u.host = w.host /\ u.task = w.task /\ u.occ = w.occ
        /\ \A q \in Runs : u.run[q] = w.run[q] \/ u.run[q].launch \in {"none", "stale"}
    BY <1>0, RecordedFields, RestFields
  <2>5. Clear(u, s)
    BY <1>0, <2>4, RecordedGood DEF Clear
  <2>6. Trying(u, s)
    BY <2>4, <2>5 DEF Trying
  <2>7. r \in Runs /\ u.run[r].phase = "none" /\ u.run[r].row = "none"
    BY <2>2 DEF Unused
  <2>8. ~Busy(u.run[r]) /\ ~Waits(u.run[r])
    BY <2>7 DEF Busy, Waits
  <2>9. /\ x \in Attempts /\ x.phase = "preparing" /\ x.launch = "config" /\ x.row = "none"
        /\ x.sched = s /\ x.edition = e /\ e \in Editions
    <3>1. e \in Editions
      BY <1>0 DEF Trying, TaskOK
    <3>2. s \in Schedules \cup {"none"} /\ e \in Editions \cup {"none"}
      BY <3>1
    <3> HIDE DEF e
    <3> QED
      BY <3>1, <3>2 DEF Attempts, Phases, Unsettled, Awaits, NoRun, Rows
  <2>10. /\ y \in Attempts /\ y.phase = "none" /\ y.launch = "none" /\ y.row = "lost"
    BY Typed DEF Attempts, Rows, NoRun
  <2> HIDE DEF u, x, y
  <2>11. CASE v = WithRun(u, r, x) /\ (e \notin Heartbeats \/ (target /\ ~TargetTaken(u)))
    <3>1. Beats(x) => \A q \in Runs : ~Beats(u.run[q])
      BY <2>9, <2>11 DEF Beats, TargetTaken
    <3>2. Fine(v) /\ Apart(u, v, s)
      BY <2>6, <2>7, <2>8, <2>9, <2>11, <3>1, Reserve
    <3> QED
      BY <2>4, <3>2 DEF Apart
  <2>12. CASE v = AfterAttempt(u, s, r, "failed", bad) \/ v = AfterAttempt(u, s, "none", "failed", bad)
    <3>1. Fine(v) /\ Continues(u, v, s, "failed")
      BY <2>4, <2>6, <2>7, <2>8, <2>12, AfterAttemptGood DEF Trying
    <3> QED
      BY <2>4, <3>1 DEF Continues, Apart
  <2>13. CASE v = AfterAttempt(WithRun(u, r, y), s, "none", "failed", bad)
    <3> DEFINE z == WithRun(u, r, y)
    <3>1. /\ z \in Worlds /\ z.host = w.host /\ z.task = w.task /\ z.occ = w.occ
          /\ \A q \in Runs \ {r} : z.run[q] = u.run[q]
          /\ z.run[r] = y
      BY <2>4, <2>7, <2>10, WithRunFields
    <3>2. Clear(z, s)
      <4>1. Late(u.host, u.task, Without(u.occ, s), u.run, {})
        BY <2>5 DEF Clear, Good
      <4>2. z.run \in [Runs -> Attempts]
        BY <3>1 DEF Worlds
      <4>3. \A q \in Runs : \/ z.run[q] = u.run[q]
                            \/ /\ ~Busy(u.run[q]) /\ ~Waits(u.run[q]) /\ ~Busy(z.run[q]) /\ ~Waits(z.run[q])
                               /\ Shape(z.run[q]) /\ (Beats(z.run[q]) => Beats(u.run[q]))
        BY <2>8, <2>10, <3>1 DEF Busy, Waits, Shape, Beats, Unsettled
      <4> HIDE DEF z
      <4>4. Late(u.host, u.task, Without(u.occ, s), z.run, {})
        BY <4>1, <4>2, <4>3, IdleRuns
      <4> QED
        BY <2>4, <3>1, <4>4 DEF Clear, Good
    <3> HIDE DEF z
    <3>3. Fine(v) /\ Continues(z, v, s, "failed")
      <4>1. v = AfterAttempt(z, s, "none", "failed", bad)
        BY <2>13 DEF z
      <4> QED
        BY <2>4, <2>6, <3>1, <3>2, <4>1, AfterAttemptGood DEF Trying
    <3> QED
      BY <2>4, <2>10, <3>1, <3>3 DEF Continues, Apart
  <2> QED
    BY <2>3, <2>11, <2>12, <2>13
<1> QED
  BY <1>1, <1>2

\* There is a process.
Running == host \in {"up", "closing"}

\* What Now is made of.
LEMMA NowFields ==
    /\ Now.host = host /\ Now.task = task /\ Now.occ = occ /\ Now.run = run
    /\ IInv /\ Running => Now \in Worlds /\ Fine(Now)
<1>1. Now.host = host /\ Now.task = task /\ Now.occ = occ /\ Now.run = run
  BY DEF Now
<1>2. ASSUME IInv, Running PROVE Now \in Worlds /\ Fine(Now)
  <2>1. Good(host, task, occ, run)
    BY <1>2 DEF IInv, Running
  <2>2. /\ host \in Hosts /\ task \in [Schedules -> Tasks]
        /\ occ \in [Schedules -> Occs] /\ run \in [Runs -> Attempts]
    BY <2>1, TypesOfLate DEF Good, Hosts
  <2>3. Now \in Worlds
    BY <2>2 DEF Now, Worlds
  <2> QED
    BY <1>1, <2>1, <2>3 DEF Fine
<1> QED
  BY <1>1, <1>2

\* What the action properties say of a step.
Kind ==
    /\ \A q \in Schedules :
         /\ occ[q].edited => occ'[q].pc # "wait" /\ occ'[q].attempt <= occ[q].attempt
         /\ occ[q].stopped => occ'[q].pc # "wait" /\ (occ'[q].pc = "off" => task'[q].status # "succeeded")
    /\ \A q \in Runs : run'[q].launch \in {"start", "send", "resend"} /\ run[q].launch # run'[q].launch =>
         Admitted(q) /\ TargetUsable(q)

\* A step that leads to a good record of state, kindly.
LEMMA Becomes ==
    ASSUME NEW w, Fine(w), Kindly(Now, w), Become(w), faults' \in 0 .. MaxFaults, target' \in BOOLEAN
    PROVE  IInv' /\ Kind
<1>1. Good(host', task', occ', run')
  BY DEF Fine, Become
<1>2. host' \in {"up", "closing"}
  BY TypesOfFine DEF Become
<1>3. IInv'
  BY <1>1, <1>2 DEF IInv
<1>4. Kind
  BY NowFields DEF Kindly, Kind, Become
<1> QED
  BY <1>3, <1>4

\* A step fails only while failures are left.
LEMMA Spent ==
    ASSUME IInv, NEW bad \in Faults, Spend(bad)
    PROVE  bad \in BOOLEAN /\ faults' \in 0 .. MaxFaults
<1>1. faults \in 0 .. MaxFaults /\ MaxFaults \in Nat
  BY AttemptsAssumption DEF IInv
<1>2. bad \in BOOLEAN /\ (bad => faults < MaxFaults)
  BY DEF Faults
<1>3. CASE bad
  BY <1>1, <1>2, <1>3 DEF Spend
<1>4. CASE ~bad
  BY <1>1, <1>2, <1>4 DEF Spend
<1> QED
  BY <1>2, <1>3, <1>4

\* A wait of s is over; the row that told of it is released or lost.
LEMMA WaitOver ==
    ASSUME NEW h, NEW T, NEW O, NEW R, Good(h, T, O, R), NEW s \in Schedules, O[s].pc = "wait",
           NEW T2 \in [Schedules -> Tasks], \A q \in Schedules \ {s} : T2[q] = T[q], TaskOK(T2[s], NoOcc),
           NEW O2 \in [Schedules -> Occs], O2[s] = NoOcc, \A q \in Schedules \ {s} : O2[q] = O[q],
           NEW R2 \in [Runs -> Attempts],
           O[s].run # "none" => ~Waits(R2[O[s].run]),
           \A q \in Runs : \/ R2[q] = R[q]
                           \/ /\ ~Busy(R[q]) /\ (Waits(R[q]) => R[q].sched = s)
                              /\ ~Busy(R2[q]) /\ ~Waits(R2[q]) /\ Shape(R2[q])
                              /\ Beats(R2[q]) => Beats(R[q])
    PROVE  Good(h, T2, O2, R2)
<1>1. Late(h, T, O, R, {})
  BY DEF Good
<1>2. /\ R \in [Runs -> Attempts]
      /\ \A q \in Runs : RunOK(O, R[q], q)
      /\ OccOK(h, R, O[s], s)
      /\ OnlyOne(R)
  BY <1>1, TypesOfLate
<1>3. \A q \in Runs : (Busy(R2[q]) \/ Waits(R2[q])) => R2[q] = R[q] /\ R2[q].sched # s
  <2> SUFFICES ASSUME NEW q \in Runs, Busy(R2[q]) \/ Waits(R2[q]) PROVE R2[q] = R[q] /\ R2[q].sched # s
    OBVIOUS
  <2>1. R2[q] = R[q] /\ RunOK(O, R[q], q)
    BY <1>2
  <2>2. R2[q].sched # s
    BY <2>1, NamesAssumption DEF RunOK
  <2> QED
    BY <2>1, <2>2
<1>4. \A q \in Runs : R2[q] # R[q] => MineBefore(R[q], s) /\ MineBefore(R2[q], s) /\ Shape(R2[q])
  BY DEF MineBefore
<1>5. \A q \in Runs : MineBefore(R2[q], s) => RunOK(O2, R2[q], q)
  <2> SUFFICES ASSUME NEW q \in Runs, MineBefore(R2[q], s) PROVE RunOK(O2, R2[q], q)
    OBVIOUS
  <2>1. ~Busy(R2[q]) /\ ~Waits(R2[q])
    BY <1>3 DEF MineBefore
  <2>2. Shape(R2[q])
    BY <1>2 DEF RunOK
  <2> QED
    BY <2>1, <2>2 DEF RunOK, Busy
<1>6. \A q \in Runs : R2[q].sched = s \/ q \in {} => Timely(h, O2, R2[q])
  BY <1>3 DEF Timely, Busy, Unsettled
<1>7. OccOK(h, R2, O2[s], s)
  BY DEF OccOK, NoOcc
<1>8. OnlyOne(R2)
  BY <1>2, <1>3 DEF OnlyOne
<1>9. Late(h, T2, O2, R2, {})
  BY <1>1, <1>4, <1>5, <1>6, <1>7, <1>8, Local
<1> QED
  BY <1>9 DEF Good

\* What the end of a wait does to the row that told of it.
LEMMA WaitedFields ==
    ASSUME NEW w \in Worlds, NEW m \in Runs \cup {"none"}, NEW bad \in BOOLEAN,
           m # "none" => Shape(w.run[m]) /\ w.run[m].phase = "none",
           NEW v, v = Waited(w, m, bad)
    PROVE  /\ v \in Worlds /\ v.host = w.host /\ v.task = w.task /\ v.occ = w.occ
           /\ \A q \in Runs : q # m => v.run[q] = w.run[q]
           /\ m # "none" => /\ v.run[m].phase = "none" /\ v.run[m].row # "retrying" /\ Shape(v.run[m])
                            /\ v.run[m].launch \in {"none", "stale"}
<1>1. CASE m = "none"
  BY <1>1, NamesAssumption DEF Waited
<1>2. CASE m \in Runs /\ bad /\ w.run[m].row # "none"
  <2> DEFINE x == [w.run[m] EXCEPT !.row = "lost"]
  <2>1. m # "none" /\ w.run[m] \in Attempts
    BY <1>2, NamesAssumption DEF Worlds
  <2>2. /\ x \in Attempts /\ x.phase = "none" /\ x.row = "lost" /\ x.launch = w.run[m].launch
    BY <1>2, <2>1 DEF Attempts, Rows
  <2>3. v = WithRun(w, m, x)
    BY <1>2, <2>1, Zenon DEF Waited, WithRun
  <2> HIDE DEF x
  <2>4. Shape(x) /\ x.launch \in {"none", "stale"}
    BY <2>1, <2>2 DEF Shape, Unsettled
  <2>5. /\ v \in Worlds /\ v.host = w.host /\ v.task = w.task /\ v.occ = w.occ
        /\ v.run[m] = x /\ \A q \in Runs : q # m => v.run[q] = w.run[q]
    <3>1. m \in Runs /\ x \in Attempts
      BY <1>2, <2>2
    <3> QED
      BY <2>3, <3>1, WithRunFields
  <2> QED
    BY <2>2, <2>4, <2>5
<1>3. CASE m \in Runs /\ ~(bad /\ w.run[m].row # "none")
  <2>1. m # "none"
    BY <1>3, NamesAssumption
  <2>2. v = WithRun(w, m, Rest(w, m))
    <3>1. v = Released(w, m)
      BY <1>3, <2>1, Zenon DEF Waited
    <3> QED
      BY <1>3, <3>1, RestFields
  <2> DEFINE x == Rest(w, m)
  <2>3. /\ x \in Attempts /\ x.phase = "none" /\ x.row = "none" /\ x.launch \in {"none", "stale"} /\ Shape(x)
    BY <1>3, RestFields
  <2>4. v = WithRun(w, m, x)
    BY <2>2
  <2> HIDE DEF x
  <2> QED
    BY <1>3, <2>3, <2>4, WithRunFields
<1> QED
  BY <1>1, <1>2, <1>3

\* What is to be shown of every step.
Step == IInv' /\ Kind

(***************************************************************************)
(* Scheduled runs: the actions.                                            *)
(***************************************************************************)

\* The actions, one lemma each: the occurrences and their retries.
LEMMA StartRunStep ==
    ASSUME IInv, NEW s \in Schedules, StartRun(s)
    PROVE  Step
<1> DEFINE w == [Now EXCEPT !.task[s].status = "running",
                            !.occ[s] = [NoOcc EXCEPT !.pc = "try", !.attempt = 1]]
           t == [task[s] EXCEPT !.status = "running"]
           o == [NoOcc EXCEPT !.pc = "try", !.attempt = 1]
           T2 == [task EXCEPT ![s] = t]
           O2 == [occ EXCEPT ![s] = o]
<1>1. host = "up" /\ task[s].here /\ occ[s].pc = "off" /\ Now \in Worlds /\ Fine(Now)
  BY NowFields DEF StartRun, Running
<1>2. PICK bad \in Faults : (\E v \in Attempted(w, s, bad) : Become(v)) /\ Spend(bad)
  BY DEF StartRun
<1>3. PICK v \in Attempted(w, s, bad) : Become(v)
  BY <1>2
<1>4. bad \in BOOLEAN /\ faults' \in 0 .. MaxFaults /\ target' \in BOOLEAN
  BY <1>2, Spent DEF StartRun, IInv
<1>5. /\ task \in [Schedules -> Tasks] /\ occ \in [Schedules -> Occs] /\ run \in [Runs -> Attempts]
      /\ TaskOK(task[s], occ[s]) /\ occ[s] = NoOcc /\ Good(host, task, occ, run)
  BY <1>1, NowFields, TypesOfFine DEF OccOK, Fine
<1>6. /\ t \in Tasks /\ t.here /\ t.edition = task[s].edition /\ t.status = "running"
      /\ o \in Occs /\ o.pc = "try" /\ o.run = "none" /\ ~o.edited /\ ~o.stopped
  <2>1. task[s] \in Tasks
    BY <1>5
  <2>2. 1 \in 0 .. MaxAttempts
    BY AttemptsAssumption
  <2> QED
    BY <1>1, <2>1, <2>2, Typed DEF Tasks, Occs, NoOcc
<1>7. w = [Now EXCEPT !.task = T2, !.occ = O2]
  BY <1>1, <1>5, NowFields DEF Worlds
<1> HIDE DEF w, t, o
<1>8. /\ T2 \in [Schedules -> Tasks] /\ T2[s] = t /\ \A q \in Schedules \ {s} : T2[q] = task[q]
      /\ O2 \in [Schedules -> Occs] /\ O2[s] = o /\ \A q \in Schedules \ {s} : O2[q] = occ[q]
  BY <1>5, <1>6
<1>9. Without(O2, s) = occ
  BY <1>5, <1>6 DEF Without
<1> HIDE DEF T2, O2
<1>10. w \in Worlds /\ w.host = host /\ w.task = T2 /\ w.occ = O2 /\ w.run = run
  BY <1>1, <1>7, <1>8, NowFields DEF Worlds
<1>11. Clear(w, s)
  <2>1. Late(host, task, occ, run, {})
    BY <1>5 DEF Good
  <2>2. T2[s].here /\ T2[s].edition \in Editions /\ T2[s].status = "running"
    BY <1>1, <1>5, <1>6, <1>8 DEF TaskOK
  <2>3. TaskOK(T2[s], NoOcc)
    BY <2>2 DEF TaskOK, NoOcc
  <2>4. Late(host, T2, occ, run, {})
    BY <1>5, <1>8, <2>1, <2>3, PatchRow
  <2> QED
    BY <1>9, <1>10, <2>4 DEF Clear, Good
<1>12. Trying(w, s)
  BY <1>1, <1>5, <1>6, <1>8, <1>10, <1>11 DEF Trying, TaskOK
<1>13. Fine(v) /\ Apart(w, v, s)
  BY <1>3, <1>4, <1>12, AttemptedGood
<1>14. Apart(Now, v, s)
  BY <1>8, <1>10, <1>13, NowFields DEF Apart
<1>15. Kindly(Now, v)
  BY <1>1, <1>14, NowFields, ApartKindly
<1> QED
  BY <1>3, <1>4, <1>13, <1>15, Becomes DEF Step

\* The occurrence s waits: what its wait refers to.
LEMMA WaitFacts ==
    ASSUME NEW w, w \in Worlds, Fine(w), NEW s \in Schedules, w.occ[s].pc = "wait"
    PROVE  /\ w.host = "up" /\ w.occ[s] \in Occs /\ w.occ[s].run \in Runs \cup {"none"}
           /\ ~w.occ[s].edited /\ ~w.occ[s].stopped /\ w.occ[s].attempt < MaxAttempts
           /\ w.task[s].here /\ w.task[s].status # "succeeded" /\ w.task[s].edition \in Editions
           /\ w.occ[s].run # "none" =>
                /\ Waits(w.run[w.occ[s].run]) /\ ~Busy(w.run[w.occ[s].run])
                /\ w.run[w.occ[s].run].phase = "none"
                /\ w.run[w.occ[s].run].sched = s /\ Shape(w.run[w.occ[s].run])
<1>1. w.occ[s] \in Occs /\ OccOK(w.host, w.run, w.occ[s], s) /\ TaskOK(w.task[s], w.occ[s])
  BY TypesOfFine
<1>2. w.occ[s].run \in Runs \cup {"none"}
  BY <1>1 DEF Occs
<1>3. \A q \in Runs : Shape(w.run[q])
  BY TypesOfFine DEF RunOK
<1> QED
  BY <1>1, <1>2, <1>3 DEF OccOK, TaskOK, Waits, Busy

\* The wait of s ends in w, and with it what told of it.
LEMMA WaitedClear ==
    ASSUME NEW w \in Worlds, Fine(w), NEW s \in Schedules, w.occ[s].pc = "wait", NEW bad \in BOOLEAN,
           NEW v, v = Waited(w, w.occ[s].run, bad)
    PROVE  /\ v \in Worlds /\ v.host = w.host /\ v.task = w.task /\ v.occ = w.occ
           /\ \A q \in Runs : v.run[q].launch = w.run[q].launch \/ v.run[q].launch \in {"none", "stale"}
           /\ Clear(v, s)
<1> DEFINE m == w.occ[s].run
           O2 == Without(w.occ, s)
<1>1. /\ m \in Runs \cup {"none"}
      /\ m # "none" => /\ Waits(w.run[m]) /\ ~Busy(w.run[m]) /\ w.run[m].sched = s
                       /\ w.run[m].phase = "none" /\ Shape(w.run[m])
      /\ w.task[s].here /\ w.task[s].edition \in Editions
  BY WaitFacts
<1>2. /\ v \in Worlds /\ v.host = w.host /\ v.task = w.task /\ v.occ = w.occ
      /\ \A q \in Runs : q # m => v.run[q] = w.run[q]
      /\ m # "none" => /\ v.run[m].phase = "none" /\ v.run[m].row # "retrying" /\ Shape(v.run[m])
                       /\ v.run[m].launch \in {"none", "stale"}
  BY <1>1, WaitedFields
<1>3. /\ w.task \in [Schedules -> Tasks] /\ w.occ \in [Schedules -> Occs] /\ v.run \in [Runs -> Attempts]
      /\ O2 \in [Schedules -> Occs] /\ O2[s] = NoOcc /\ \A q \in Schedules \ {s} : O2[q] = w.occ[q]
  BY <1>2, Typed DEF Worlds, Without
<1>4. TaskOK(w.task[s], NoOcc)
  BY <1>1 DEF TaskOK, NoOcc
<1>5. \A q \in Runs : \/ v.run[q] = w.run[q]
                      \/ /\ ~Busy(w.run[q]) /\ (Waits(w.run[q]) => w.run[q].sched = s)
                         /\ ~Busy(v.run[q]) /\ ~Waits(v.run[q]) /\ Shape(v.run[q])
                         /\ Beats(v.run[q]) => Beats(w.run[q])
  BY <1>1, <1>2, NamesAssumption DEF Busy, Waits, Beats
<1>6. m # "none" => ~Waits(v.run[m])
  BY <1>2 DEF Waits
<1> HIDE DEF O2
<1>7. Good(w.host, w.task, O2, v.run)
  BY <1>3, <1>4, <1>5, <1>6, WaitOver DEF Fine
<1>8. Clear(v, s)
  BY <1>2, <1>7 DEF Clear, O2
<1> QED
  BY <1>1, <1>2, <1>8, NamesAssumption

LEMMA RetryFiresStep ==
    ASSUME IInv, NEW s \in Schedules, RetryFires(s)
    PROVE  Step
<1> DEFINE m == occ[s].run
           u == Waited(Now, m, FALSE)
           o == [occ[s] EXCEPT !.pc = "try", !.run = "none", !.attempt = @ + 1]
           O2 == [occ EXCEPT ![s] = o]
           w == [Waited(Now, m, FALSE) EXCEPT !.occ[s].pc = "try", !.occ[s].run = "none",
                                              !.occ[s].attempt = @ + 1]
<1>1. host = "up" /\ occ[s].pc = "wait" /\ Now \in Worlds /\ Fine(Now)
  BY NowFields DEF RetryFires, Running
<1>2. PICK bad \in Faults :
         /\ IF m # "none" /\ bad
            THEN Become(Settle(Waited(Now, m, bad), s, "failed"))
            ELSE \E v \in Attempted(w, s, bad) : Become(v)
         /\ Spend(bad)
  BY DEF RetryFires
<1>3. bad \in BOOLEAN /\ faults' \in 0 .. MaxFaults /\ target' \in BOOLEAN
  BY <1>2, Spent DEF RetryFires, IInv
<1>4. /\ ~occ[s].edited /\ ~occ[s].stopped /\ occ[s].attempt < MaxAttempts /\ occ[s] \in Occs
      /\ task[s].here /\ task[s].status # "succeeded" /\ task[s].edition \in Editions
  BY <1>1, NowFields, WaitFacts
<1> HIDE DEF w, u
<1>5. CASE m # "none" /\ bad
  <2> DEFINE y == Waited(Now, m, bad)
             v == Settle(y, s, "failed")
  <2>1. Become(v)
    BY <1>2, <1>5
  <2>2. /\ y \in Worlds /\ y.host = host /\ y.task = task /\ y.occ = occ
        /\ \A q \in Runs : y.run[q].launch = run[q].launch \/ y.run[q].launch \in {"none", "stale"}
        /\ Clear(y, s)
    BY <1>1, <1>3, NowFields, WaitedClear
  <2> HIDE DEF y
  <2>3. Fine(v)
    BY <2>2, SettleGood
  <2>4. /\ v \in Worlds /\ v.run = y.run /\ v.occ = Without(y.occ, s)
        /\ \A q \in Schedules \ {s} : v.task[q] = y.task[q]
    BY <2>2, SettleFields
  <2>5. \A q \in Schedules \ {s} : v.occ[q] = occ[q]
    BY <2>2, <2>4 DEF Without, Worlds
  <2> HIDE DEF v
  <2>6. Apart(Now, v, s)
    BY <2>2, <2>4, <2>5, NowFields DEF Apart
  <2>7. Kindly(Now, v)
    BY <1>1, <2>6, NowFields, ApartKindly
  <2> QED
    BY <1>3, <2>1, <2>3, <2>7, Becomes DEF Step
<1>6. CASE ~(m # "none" /\ bad)
  <2>1. PICK v \in Attempted(w, s, bad) : Become(v)
    BY <1>2, <1>6
  <2>2. /\ u \in Worlds /\ u.host = host /\ u.task = task /\ u.occ = occ
        /\ \A q \in Runs : u.run[q].launch = run[q].launch \/ u.run[q].launch \in {"none", "stale"}
        /\ Clear(u, s)
    <3>1. u = Waited(Now, Now.occ[s].run, FALSE) /\ Now.occ[s].pc = "wait" /\ FALSE \in BOOLEAN
      BY <1>1, NowFields DEF u
    <3> QED
      BY <1>1, <3>1, NowFields, WaitedClear
  <2>3. occ \in [Schedules -> Occs]
    BY <1>1, NowFields DEF Worlds
  <2>4. o \in Occs /\ o.pc = "try" /\ o.run = "none" /\ ~o.edited /\ ~o.stopped
    <3>1. occ[s].attempt + 1 \in 0 .. MaxAttempts
      BY <1>4, AttemptsAssumption DEF Occs
    <3> QED
      BY <1>4, <3>1 DEF Occs
  <2>5. w = [u EXCEPT !.occ = O2]
    BY <2>2, <2>3 DEF Worlds, w, u
  <2> HIDE DEF o
  <2>6. /\ O2 \in [Schedules -> Occs] /\ O2[s] = o /\ \A q \in Schedules \ {s} : O2[q] = occ[q]
        /\ Without(O2, s) = Without(occ, s)
    BY <2>3, <2>4 DEF Without
  <2> HIDE DEF O2
  <2>7. w \in Worlds /\ w.host = host /\ w.task = task /\ w.occ = O2 /\ w.run = u.run
    BY <2>2, <2>5, <2>6 DEF Worlds
  <2>8. Clear(w, s)
    BY <2>2, <2>6, <2>7 DEF Clear
  <2>9. Trying(w, s)
    BY <1>1, <1>4, <2>4, <2>6, <2>7, <2>8 DEF Trying, TaskOK
  <2>10. Fine(v) /\ Apart(w, v, s)
    BY <1>3, <2>1, <2>9, AttemptedGood
  <2>11. Apart(Now, v, s)
    BY <2>2, <2>6, <2>7, <2>10, NowFields DEF Apart
  <2>12. Kindly(Now, v)
    BY <1>1, <2>11, NowFields, ApartKindly
  <2> QED
    BY <1>3, <2>1, <2>10, <2>12, Becomes DEF Step
<1> QED
  BY <1>5, <1>6

LEMMA CancelRetryStep ==
    ASSUME IInv, NEW s \in Schedules, CancelRetry(s)
    PROVE  Step
<1>1. host = "up" /\ occ[s].pc = "wait" /\ Now \in Worlds /\ Fine(Now)
  BY NowFields DEF CancelRetry, Running
<1>2. PICK bad \in Faults : Become(WaitCancelled(Now, s, bad)) /\ Spend(bad)
  BY DEF CancelRetry
<1>3. bad \in BOOLEAN /\ faults' \in 0 .. MaxFaults /\ target' \in BOOLEAN
  BY <1>2, Spent DEF CancelRetry, IInv
<1> DEFINE y == Waited(Now, occ[s].run, bad)
           v == Settle(y, s, "stopped")
<1>4. Become(v)
  BY <1>2, NowFields DEF WaitCancelled
<1>5. /\ y \in Worlds /\ y.host = host /\ y.task = task /\ y.occ = occ
      /\ \A q \in Runs : y.run[q].launch = run[q].launch \/ y.run[q].launch \in {"none", "stale"}
      /\ Clear(y, s)
  BY <1>1, <1>3, NowFields, WaitedClear
<1> HIDE DEF y
<1>6. Fine(v)
  BY <1>5, SettleGood
<1>7. /\ v \in Worlds /\ v.run = y.run /\ v.occ = Without(y.occ, s)
      /\ \A q \in Schedules \ {s} : v.task[q] = y.task[q]
  BY <1>5, SettleFields
<1>8. \A q \in Schedules \ {s} : v.occ[q] = occ[q]
  BY <1>5, <1>7 DEF Without, Worlds
<1> HIDE DEF v
<1>9. Apart(Now, v, s)
  BY <1>5, <1>7, <1>8, NowFields DEF Apart
<1>10. Kindly(Now, v)
  BY <1>1, <1>9, NowFields, ApartKindly
<1> QED
  BY <1>3, <1>4, <1>6, <1>10, Becomes DEF Step

\* A step changes the row of a live attempt only.
LEMMA TouchStep ==
    ASSUME IInv, Running, NEW r \in Runs, Busy(run[r]), NEW x \in Attempts,
           Busy(x), x.sched = run[r].sched, x.edition = run[r].edition,
           Shape(x), x.phase = "resuming" /\ x.launch = "none" => occ[x.sched].edited,
           Timely(host, occ, x),
           occ[x.sched].stopped => x.phase = "collecting" /\ x.verdict = "stopped",
           x.launch \in {"start", "send", "resend"} =>
             x.launch = run[r].launch \/ (Admitted(r) /\ TargetUsable(r)),
           NEW w, w = WithRun(Now, r, x), Become(w),
           faults' \in 0 .. MaxFaults, target' \in BOOLEAN
    PROVE  Step
<1>1. Now \in Worlds /\ Fine(Now)
  BY NowFields
<1>2. Fine(w)
  BY <1>1, NowFields, TouchGood
<1>3. w.host = host /\ w.task = task /\ w.occ = occ /\ w.run[r] = x /\ \A q \in Runs \ {r} : w.run[q] = run[q]
  BY <1>1, NowFields, WithRunFields
<1>4. IInv'
  <2>1. Good(host', task', occ', run')
    BY <1>2 DEF Fine, Become
  <2>2. host' \in {"up", "closing"}
    BY <1>2, TypesOfFine DEF Become
  <2> QED
    BY <2>1, <2>2 DEF IInv
<1>5. \A q \in Schedules : /\ occ[q].attempt \in Nat
                           /\ occ[q].edited \/ occ[q].stopped => occ[q].pc = "try"
  BY <1>1, NowFields, TriesOn
<1>6. task' = task /\ occ' = occ /\ \A q \in Runs : q # r => run'[q] = run[q]
  BY <1>3 DEF Become
<1>7. run'[r] = x
  BY <1>3 DEF Become
<1>8. Kind
  BY <1>5, <1>6, <1>7 DEF Kind
<1> QED
  BY <1>4, <1>8 DEF Step

\* The coroutine of a launch ends.
LEMMA LaunchGone ==
    ASSUME NEW h, NEW T, NEW O, NEW R, Good(h, T, O, R), NEW R2 \in [Runs -> Attempts], NEW r \in Runs,
           \A q \in Runs : q # r => R2[q] = R[q],
           R2[r].launch = "none",
           R2[r].sched = R[r].sched, R2[r].edition = R[r].edition, R2[r].phase = R[r].phase,
           R2[r].verdict = R[r].verdict, R2[r].row = R[r].row,
           R[r].phase # "preparing", R[r].phase = "resuming" => O[R[r].sched].edited
    PROVE  Good(h, T, O, R2)
<1>1. /\ h \in {"up", "closing"} /\ T \in [Schedules -> Tasks]
      /\ O \in [Schedules -> Occs] /\ R \in [Runs -> Attempts]
      /\ \A q \in Runs : RunOK(O, R[q], q) /\ Timely(h, O, R[q])
      /\ \A q \in Schedules : TaskOK(T[q], O[q]) /\ OccOK(h, R, O[q], q)
      /\ OnlyOne(R)
  BY DEF Good, Late, Core
<1>2. \A q \in Runs : /\ R2[q].sched = R[q].sched /\ R2[q].phase = R[q].phase /\ R2[q].verdict = R[q].verdict
                      /\ Busy(R2[q]) = Busy(R[q]) /\ Waits(R2[q]) = Waits(R[q]) /\ Beats(R2[q]) = Beats(R[q])
                      /\ Timely(h, O, R2[q]) = Timely(h, O, R[q])
  BY DEF Busy, Waits, Beats, Timely
<1>3. \A q \in Runs : RunOK(O, R2[q], q)
  <2> SUFFICES ASSUME NEW q \in Runs PROVE RunOK(O, R2[q], q)
    OBVIOUS
  <2>1. CASE q = r
    <3>1. RunOK(O, R[r], r)
      BY <1>1
    <3>2. Shape(R2[r])
      BY <3>1 DEF RunOK, Shape, Unsettled
    <3> QED
      BY <1>2, <2>1, <3>1, <3>2 DEF RunOK
  <2> QED
    BY <1>1, <2>1
<1>4. \A q \in Schedules : OccOK(h, R2, O[q], q)
  <2> SUFFICES ASSUME NEW q \in Schedules PROVE OccOK(h, R2, O[q], q)
    OBVIOUS
  <2>1. OccOK(h, R, O[q], q) /\ O[q].run \in Runs \cup {"none"}
    BY <1>1 DEF Occs
  <2> QED
    BY <1>2, <2>1 DEF OccOK
<1>5. OnlyOne(R2)
  BY <1>1, <1>2 DEF OnlyOne
<1> QED
  BY <1>1, <1>2, <1>3, <1>4, <1>5 DEF Good, Late, Core

\* What the next await of a launch changes.
LEMMA GoesFields ==
    ASSUME IInv, NEW r \in Runs, NEW await \in Awaits \cup {"none"}, Goes(r, await)
    PROVE  LET x == [run[r] EXCEPT !.launch = await]
           IN /\ x \in Attempts /\ x.launch = await
              /\ x.sched = run[r].sched /\ x.edition = run[r].edition /\ x.phase = run[r].phase
              /\ x.verdict = run[r].verdict /\ x.row = run[r].row
              /\ Become(WithRun(Now, r, x)) /\ faults' \in 0 .. MaxFaults /\ target' \in BOOLEAN
              /\ host' = host /\ task' = task /\ occ' = occ /\ run' = [run EXCEPT ![r] = x]
<1> DEFINE x == [run[r] EXCEPT !.launch = await]
<1>1. run \in [Runs -> Attempts]
  BY TypesOfLate DEF IInv, Ended, Good
<1>2. run[r] \in Attempts
  BY <1>1
<1>3. /\ x \in Attempts /\ x.launch = await
      /\ x.sched = run[r].sched /\ x.edition = run[r].edition /\ x.phase = run[r].phase
      /\ x.verdict = run[r].verdict /\ x.row = run[r].row
  BY <1>2 DEF Attempts
<1>4. Become(WithRun(Now, r, x)) /\ Quietly
  BY NowFields, Zenon DEF Goes, WithRun
<1>5. faults' \in 0 .. MaxFaults /\ target' \in BOOLEAN
  BY <1>4 DEF Quietly, IInv
<1>6. host' = host /\ task' = task /\ occ' = occ /\ run' = [run EXCEPT ![r] = x]
  <2> HIDE DEF x
  <2> QED
    BY <1>4 DEF Become, WithRun, Now
<1> QED
  BY <1>3, <1>4, <1>5, <1>6, Zenon

\* The launch, await by await.
LEMMA LaunchAbandonedStep ==
    ASSUME IInv, NEW r \in Runs, LaunchAbandoned(r)
    PROVE  Step
<1> DEFINE x == [run[r] EXCEPT !.launch = "none"]
<1>1. run[r].launch # "none" /\ ~CanDispatch(r)
  BY DEF LaunchAbandoned
<1>2. /\ x \in Attempts /\ x.launch = "none"
      /\ x.sched = run[r].sched /\ x.edition = run[r].edition /\ x.phase = run[r].phase
      /\ x.verdict = run[r].verdict /\ x.row = run[r].row
      /\ faults' \in 0 .. MaxFaults /\ target' \in BOOLEAN
      /\ host' = host /\ task' = task /\ occ' = occ /\ run' = [run EXCEPT ![r] = x]
  BY GoesFields, Zenon DEF LaunchAbandoned
<1> HIDE DEF x
<1>3. Running
  BY <1>1 DEF IInv, Ended, Running
<1>4. Now \in Worlds /\ Fine(Now)
  BY <1>3, NowFields
<1>5. /\ run \in [Runs -> Attempts] /\ Timely(host, occ, run[r]) /\ Good(host, task, occ, run)
  BY <1>4, NowFields, TypesOfFine DEF Fine
<1>6. run[r].phase # "preparing" /\ (run[r].phase = "resuming" => occ[run[r].sched].edited)
  BY <1>1, <1>5 DEF CanDispatch, Timely, Unsettled
<1>7. /\ run' \in [Runs -> Attempts] /\ run'[r] = x /\ \A q \in Runs : q # r => run'[q] = run[q]
  BY <1>2, <1>5
<1>8. Good(host, task, occ, run')
  BY <1>2, <1>5, <1>6, <1>7, LaunchGone
<1>9. IInv'
  BY <1>2, <1>3, <1>8 DEF IInv, Running
<1>10. Kind
  <2>1. \A q \in Schedules : /\ occ[q].attempt \in Nat
                             /\ occ[q].edited \/ occ[q].stopped => occ[q].pc = "try"
    BY <1>4, NowFields, TriesOn
  <2> QED
    BY <1>2, <1>7, <2>1 DEF Kind
<1> QED
  BY <1>9, <1>10 DEF Step

\* The launch of an attempt fails, before its row is inserted or after.
LEMMA FailedGood ==
    ASSUME IInv, NEW r \in Runs, CanDispatch(r), NEW bad \in BOOLEAN, NEW v, v = Failed(r, bad)
    PROVE  Fine(v) /\ Kindly(Now, v)
<1>1. host = "up" /\ run[r].phase \in Unsettled
  BY DEF CanDispatch
<1>2. Now \in Worlds /\ Fine(Now)
  BY <1>1, NowFields DEF Running
<1>3. /\ run[r] \in Attempts /\ Busy(run[r]) /\ run[r].sched \in Schedules
      /\ ~occ[run[r].sched].stopped
  <2>1. Busy(run[r])
    BY <1>1 DEF Busy, Unsettled
  <2>2. /\ run[r].sched \in Schedules /\ run[r] \in Attempts
        /\ occ[run[r].sched].stopped => run[r].phase = "collecting"
    BY <1>2, <2>1, NowFields, LiveFacts
  <2> QED
    BY <1>1, <2>1, <2>2 DEF Unsettled
<1>4. CASE run[r].phase = "preparing"
  <2>1. v = AfterAttempt(WithRun(Now, r, NoRun), run[r].sched, "none", "failed", bad)
    BY <1>4, Zenon DEF Failed, WithRun
  <2>2. NoRun \in Attempts /\ NoRun.phase = "none" /\ ~Waits(NoRun) /\ Shape(NoRun) /\ NoRun.launch = "none"
    BY Typed DEF NoRun, Waits, Shape, Unsettled
  <2> QED
    BY <1>2, <1>3, <2>1, <2>2, NowFields, EndedRetried
<1>5. CASE run[r].phase # "preparing"
  <2> DEFINE y == [run[r] EXCEPT !.launch = "none"]
             u == WithRun(Now, r, y)
  <2>1. /\ y \in Attempts /\ y.launch = "none" /\ y.phase = run[r].phase /\ y.sched = run[r].sched
        /\ y.edition = run[r].edition /\ y.row = run[r].row
    BY <1>3 DEF Attempts
  <2>2. v = Complete(u, r, "failed", bad)
    BY <1>5, NowFields, Zenon DEF Failed, WithRun
  <2> HIDE DEF y
  <2>3. u \in Worlds /\ u.run[r] = y
    BY <1>2, <2>1, WithRunFields
  <2>4. y.phase \in {"resuming", "dispatching"}
    BY <1>1, <1>5, <2>1 DEF Unsettled
  <2> HIDE DEF u
  <2>5. v = ToCollect(u, r, "failed", Outlived(u, r))
    <3>1. u.run[r].phase \in {"resuming", "dispatching"}
      BY <2>3, <2>4
    <3> QED
      BY <2>2, <3>1, Zenon DEF Complete, ToCollect
  <2>6. Outlived(u, r) = "none"
    BY <2>1, <2>3 DEF Outlived
  <2>7. PICK x \in Attempts :
           /\ v = WithRun(u, r, x)
           /\ x.phase = "collecting" /\ x.verdict = "failed" /\ x.launch = "none"
           /\ x.sched = y.sched /\ x.edition = y.edition /\ x.row = y.row
    <3>1. "failed" \in Verdicts
      BY DEF Verdicts
    <3> QED
      BY <2>3, <2>5, <2>6, <3>1, ToCollectIs
  <2>8. v = WithRun(Now, r, x)
    <3>1. run \in [Runs -> Attempts]
      BY <1>2, NowFields DEF Worlds
    <3> QED
      BY <1>2, <2>7, <3>1 DEF WithRun, u, Worlds
  <2>9. Busy(x) /\ Shape(x) /\ Timely(host, occ, x)
    <3>1. Shape(run[r])
      BY <1>2, NowFields, TypesOfFine DEF RunOK
    <3> QED
      BY <1>1, <2>1, <2>7, <3>1 DEF Busy, Shape, Timely, Unsettled
  <2>10. Fine(v) /\ Kindly(Now, v)
    BY <1>2, <1>3, <2>1, <2>7, <2>8, <2>9, NowFields, TouchGood
  <2> QED
    BY <2>10
<1> QED
  BY <1>4, <1>5

LEMMA LaunchFailsStep ==
    ASSUME IInv, NEW r \in Runs, LaunchFails(r)
    PROVE  Step
<1>1. PICK bad \in Faults : Become(Failed(r, bad)) /\ Spend(bad)
  BY DEF LaunchFails
<1>2. bad \in BOOLEAN /\ faults' \in 0 .. MaxFaults /\ target' \in BOOLEAN
  BY <1>1, Spent DEF LaunchFails, IInv
<1>3. Fine(Failed(r, bad)) /\ Kindly(Now, Failed(r, bad))
  BY <1>2, FailedGood DEF LaunchFails
<1> QED
  BY <1>1, <1>2, <1>3, Becomes DEF Step

\* The row is inserted and the prompt sent: the schedule and the conversation are
\* looked at in the same step.
LEMMA InsertStep ==
    ASSUME IInv, NEW r \in Runs, CanDispatch(r), run[r].phase = "preparing", TargetUsable(r), Insert(r)
    PROVE  Step
<1>1. PICK bad \in Faults :
         /\ Become(IF ~Admitted(r) \/ bad THEN Failed(r, bad)
                   ELSE [Now EXCEPT !.run[r].phase = "dispatching", !.run[r].row = "open",
                                    !.run[r].launch = IF run[r].edition \in Heartbeats THEN "send" ELSE "start"])
         /\ Spend(bad)
  BY DEF Insert
<1>2. bad \in BOOLEAN /\ faults' \in 0 .. MaxFaults /\ target' \in BOOLEAN
  BY <1>1, Spent DEF Insert, IInv
<1>3. CASE ~Admitted(r) \/ bad
  <2>1. Become(Failed(r, bad))
    BY <1>1, <1>3
  <2>2. Fine(Failed(r, bad)) /\ Kindly(Now, Failed(r, bad))
    BY <1>2, FailedGood
  <2> QED
    BY <1>2, <2>1, <2>2, Becomes DEF Step
<1>4. CASE ~(~Admitted(r) \/ bad)
  <2> DEFINE call == IF run[r].edition \in Heartbeats THEN "send" ELSE "start"
             x == [run[r] EXCEPT !.phase = "dispatching", !.row = "open", !.launch = call]
  <2>1. host = "up" /\ Running /\ Now \in Worlds /\ Fine(Now)
    BY NowFields DEF CanDispatch, Running
  <2>2. Busy(run[r])
    BY DEF Busy
  <2>3. run[r] \in Attempts /\ run \in [Runs -> Attempts] /\ run[r].sched \in Schedules /\ ~occ[run[r].sched].stopped
    BY <2>1, <2>2, NowFields, LiveFacts, TypesOfFine
  <2>4. call \in {"send", "start"}
    OBVIOUS
  <2>5. Become([Now EXCEPT !.run[r].phase = "dispatching", !.run[r].row = "open", !.run[r].launch = call])
    BY <1>1, <1>4
  <2> HIDE DEF call
  <2>6. /\ x \in Attempts /\ x.phase = "dispatching" /\ x.row = "open" /\ x.launch = call
        /\ x.sched = run[r].sched /\ x.edition = run[r].edition
    BY <2>3, <2>4 DEF Attempts, Phases, Unsettled, Rows, Awaits
  <2>7. [Now EXCEPT !.run[r].phase = "dispatching", !.run[r].row = "open", !.run[r].launch = call]
          = WithRun(Now, r, x)
    BY <2>1, <2>3, NowFields DEF WithRun, Worlds
  <2> HIDE DEF x
  <2>8. Become(WithRun(Now, r, x))
    BY <2>5, <2>7
  <2>9. Busy(x) /\ Shape(x) /\ Timely(host, occ, x)
    <3>1. Shape(run[r])
      BY <2>1, NowFields, TypesOfFine DEF RunOK
    <3> QED
      BY <2>1, <2>4, <2>6, <3>1 DEF Busy, Shape, Timely, Unsettled
  <2>10. Admitted(r) /\ TargetUsable(r)
    BY <1>4
  <2> QED
    BY <1>2, <2>1, <2>2, <2>3, <2>6, <2>8, <2>9, <2>10, TouchStep
<1> QED
  BY <1>3, <1>4

\* The attempt of a launch that goes on.
LEMMA Dispatching ==
    ASSUME IInv, NEW r \in Runs, host = "up", run[r].phase \in Unsettled
    PROVE  /\ Running /\ Now \in Worlds /\ Fine(Now) /\ Busy(run[r])
           /\ run \in [Runs -> Attempts] /\ run[r] \in Attempts /\ Shape(run[r]) /\ Timely(host, occ, run[r])
           /\ run[r].sched \in Schedules /\ ~occ[run[r].sched].stopped
<1>1. Running /\ Now \in Worlds /\ Fine(Now) /\ Busy(run[r])
  BY NowFields DEF Running, Busy, Unsettled
<1>2. run \in [Runs -> Attempts] /\ Shape(run[r]) /\ Timely(host, occ, run[r])
  BY <1>1, NowFields, TypesOfFine DEF RunOK
<1>3. run[r].sched \in Schedules /\ run[r] \in Attempts /\ (occ[run[r].sched].stopped => run[r].phase = "collecting")
  BY <1>1, NowFields, LiveFacts
<1> QED
  BY <1>1, <1>2, <1>3 DEF Unsettled

LEMMA ConfigReadyStep ==
    ASSUME IInv, NEW r \in Runs, ConfigReady(r)
    PROVE  Step
<1>1. run[r].launch = "config" /\ CanDispatch(r) /\ TargetUsable(r)
  BY DEF ConfigReady, At
<1>2. /\ Running /\ Now \in Worlds /\ Fine(Now) /\ Busy(run[r])
      /\ run \in [Runs -> Attempts] /\ run[r] \in Attempts /\ Shape(run[r]) /\ Timely(host, occ, run[r])
      /\ run[r].sched \in Schedules /\ ~occ[run[r].sched].stopped
  BY <1>1, Dispatching DEF CanDispatch
<1>3. run[r].phase = "preparing"
  BY <1>1, <1>2 DEF Shape, CanDispatch, Unsettled
<1>4. CASE run[r].edition \in Heartbeats
  <2> DEFINE x == [run[r] EXCEPT !.launch = "cursor"]
  <2>1. Goes(r, "cursor") /\ "cursor" \in Awaits
    BY <1>4 DEF ConfigReady, Awaits
  <2>2. /\ x \in Attempts /\ x.launch = "cursor"
        /\ x.sched = run[r].sched /\ x.edition = run[r].edition /\ x.phase = run[r].phase
        /\ x.verdict = run[r].verdict /\ x.row = run[r].row
        /\ Become(WithRun(Now, r, x)) /\ faults' \in 0 .. MaxFaults /\ target' \in BOOLEAN
    BY <2>1, GoesFields, Zenon
  <2> HIDE DEF x
  <2>3. Busy(x) /\ Shape(x) /\ Timely(host, occ, x)
    BY <1>2, <1>3, <2>2 DEF Busy, Shape, Timely, Unsettled
  <2> QED
    BY <1>2, <1>3, <2>2, <2>3, TouchStep
<1>5. CASE run[r].edition \notin Heartbeats
  BY <1>1, <1>3, <1>5, InsertStep DEF ConfigReady
<1> QED
  BY <1>4, <1>5

LEMMA CursorReadStep ==
    ASSUME IInv, NEW r \in Runs, CursorRead(r)
    PROVE  Step
<1>1. run[r].launch = "cursor" /\ CanDispatch(r) /\ TargetUsable(r) /\ Insert(r)
  BY DEF CursorRead, At
<1>2. Shape(run[r])
  BY <1>1, Dispatching DEF CanDispatch
<1>3. run[r].phase = "preparing"
  BY <1>1, <1>2 DEF Shape, CanDispatch, Unsettled
<1> QED
  BY <1>1, <1>3, InsertStep

LEMMA CallReturnsStep ==
    ASSUME IInv, NEW r \in Runs, CallReturns(r)
    PROVE  Step
<1> DEFINE x == [run[r] EXCEPT !.launch = "none"]
<1>1. run[r].launch \in {"start", "send", "resend"} /\ Goes(r, "none")
  BY DEF CallReturns
<1>2. Running
  BY <1>1 DEF IInv, Ended, Running
<1>3. Now \in Worlds /\ Fine(Now)
  BY <1>2, NowFields
<1>4. Shape(run[r]) /\ Timely(host, occ, run[r])
  BY <1>3, NowFields, TypesOfFine DEF RunOK
<1>5. run[r].phase = "dispatching"
  BY <1>1, <1>4 DEF Shape, Unsettled
<1>6. host = "up" /\ run[r].phase \in Unsettled
  BY <1>4, <1>5 DEF Timely, Unsettled
<1>7. /\ Busy(run[r]) /\ run[r].sched \in Schedules /\ ~occ[run[r].sched].stopped
  BY <1>6, Dispatching
<1>8. /\ x \in Attempts /\ x.launch = "none"
      /\ x.sched = run[r].sched /\ x.edition = run[r].edition /\ x.phase = run[r].phase
      /\ x.verdict = run[r].verdict /\ x.row = run[r].row
      /\ Become(WithRun(Now, r, x)) /\ faults' \in 0 .. MaxFaults /\ target' \in BOOLEAN
  BY <1>1, GoesFields, Zenon
<1> HIDE DEF x
<1>9. Busy(x) /\ Shape(x) /\ Timely(host, occ, x)
  BY <1>4, <1>5, <1>6, <1>8 DEF Busy, Shape, Timely, Unsettled
<1> QED
  BY <1>2, <1>5, <1>7, <1>8, <1>9, TouchStep

LEMMA ReviveStep ==
    ASSUME IInv, NEW r \in Runs, Revive(r)
    PROVE  Step
<1> DEFINE x == [run[r] EXCEPT !.phase = "resuming", !.launch = "revive"]
<1>1. /\ run[r].launch = "send" /\ CanDispatch(r) /\ host = "up" /\ run[r].phase \in Unsettled
      /\ Become([Now EXCEPT !.run[r].phase = "resuming", !.run[r].launch = "revive"])
      /\ faults' \in 0 .. MaxFaults /\ target' \in BOOLEAN
  BY DEF Revive, At, CanDispatch, Quietly, IInv
<1>2. /\ Running /\ Now \in Worlds /\ Fine(Now) /\ Busy(run[r])
      /\ run \in [Runs -> Attempts] /\ run[r] \in Attempts /\ Shape(run[r]) /\ Timely(host, occ, run[r])
      /\ run[r].sched \in Schedules /\ ~occ[run[r].sched].stopped
  BY <1>1, Dispatching
<1>3. /\ x \in Attempts /\ x.phase = "resuming" /\ x.launch = "revive" /\ x.row = run[r].row
      /\ x.sched = run[r].sched /\ x.edition = run[r].edition
  BY <1>2 DEF Attempts, Phases, Unsettled, Awaits
<1>4. [Now EXCEPT !.run[r].phase = "resuming", !.run[r].launch = "revive"] = WithRun(Now, r, x)
  BY <1>2, NowFields DEF WithRun, Worlds
<1> HIDE DEF x
<1>5. Become(WithRun(Now, r, x))
  BY <1>1, <1>4
<1>6. Busy(x) /\ Shape(x) /\ Timely(host, occ, x)
  BY <1>1, <1>2, <1>3 DEF Busy, Shape, Timely, Unsettled
<1> QED
  BY <1>1, <1>2, <1>3, <1>5, <1>6, TouchStep

LEMMA ResendStep ==
    ASSUME IInv, NEW r \in Runs, Resend(r)
    PROVE  Step
<1> DEFINE x == [run[r] EXCEPT !.phase = "dispatching", !.launch = "resend"]
<1>1. /\ run[r].launch = "revive" /\ host = "up" /\ run[r].phase \in Unsettled
      /\ Admitted(r) /\ TargetUsable(r)
      /\ Become([Now EXCEPT !.run[r].phase = "dispatching", !.run[r].launch = "resend"])
      /\ faults' \in 0 .. MaxFaults /\ target' \in BOOLEAN
  BY DEF Resend, At, CanDispatch, Quietly, IInv
<1>2. /\ Running /\ Now \in Worlds /\ Fine(Now) /\ Busy(run[r])
      /\ run \in [Runs -> Attempts] /\ run[r] \in Attempts /\ Shape(run[r]) /\ Timely(host, occ, run[r])
      /\ run[r].sched \in Schedules /\ ~occ[run[r].sched].stopped
  BY <1>1, Dispatching
<1>3. /\ x \in Attempts /\ x.phase = "dispatching" /\ x.launch = "resend" /\ x.row = run[r].row
      /\ x.sched = run[r].sched /\ x.edition = run[r].edition
  BY <1>2 DEF Attempts, Phases, Unsettled, Awaits
<1>4. [Now EXCEPT !.run[r].phase = "dispatching", !.run[r].launch = "resend"] = WithRun(Now, r, x)
  BY <1>2, NowFields DEF WithRun, Worlds
<1> HIDE DEF x
<1>5. Become(WithRun(Now, r, x))
  BY <1>1, <1>4
<1>6. Busy(x) /\ Shape(x) /\ Timely(host, occ, x)
  BY <1>1, <1>2, <1>3 DEF Busy, Shape, Timely, Unsettled
<1> QED
  BY <1>1, <1>2, <1>3, <1>5, <1>6, TouchStep

\* The turn, its ends, and the result.
LEMMA TurnActiveStep ==
    ASSUME IInv, NEW r \in Runs, TurnActive(r)
    PROVE  Step
<1> DEFINE x == [run[r] EXCEPT !.active = TRUE]
<1>1. /\ host = "up" /\ run[r].phase = "dispatching" /\ run[r].phase \in Unsettled
      /\ Become([Now EXCEPT !.run[r].active = TRUE])
      /\ faults' \in 0 .. MaxFaults /\ target' \in BOOLEAN
  BY DEF TurnActive, Listening, Quietly, IInv, Unsettled
<1>2. /\ Running /\ Now \in Worlds /\ Fine(Now) /\ Busy(run[r])
      /\ run \in [Runs -> Attempts] /\ run[r] \in Attempts /\ Shape(run[r]) /\ Timely(host, occ, run[r])
      /\ run[r].sched \in Schedules /\ ~occ[run[r].sched].stopped
  BY <1>1, Dispatching
<1>3. /\ x \in Attempts /\ x.phase = "dispatching" /\ x.launch = run[r].launch /\ x.row = run[r].row
      /\ x.sched = run[r].sched /\ x.edition = run[r].edition
  BY <1>1, <1>2 DEF Attempts
<1>4. [Now EXCEPT !.run[r].active = TRUE] = WithRun(Now, r, x)
  BY <1>2, NowFields DEF WithRun, Worlds
<1> HIDE DEF x
<1>5. Become(WithRun(Now, r, x))
  BY <1>1, <1>4
<1>6. Busy(x) /\ Shape(x) /\ Timely(host, occ, x)
  BY <1>1, <1>2, <1>3 DEF Busy, Shape, Timely, Unsettled
<1> QED
  BY <1>1, <1>2, <1>3, <1>5, <1>6, TouchStep

LEMMA CompletesStep ==
    ASSUME IInv, Running, NEW r \in Runs, NEW status \in Verdicts, Completes(r, status)
    PROVE  Step
<1>1. PICK bad \in Faults : Become(Complete(Now, r, status, bad)) /\ Spend(bad)
  BY DEF Completes
<1>2. bad \in BOOLEAN /\ faults' \in 0 .. MaxFaults /\ target' \in BOOLEAN
  BY <1>1, Spent DEF Completes, IInv
<1>3. Now \in Worlds /\ Fine(Now)
  BY NowFields
<1>4. Fine(Complete(Now, r, status, bad)) /\ Kindly(Now, Complete(Now, r, status, bad))
  BY <1>2, <1>3, CompleteGood
<1> QED
  BY <1>1, <1>2, <1>4, Becomes DEF Step

LEMMA TurnEndsStep ==
    ASSUME IInv, NEW r \in Runs, TurnEnds(r)
    PROVE  Step
BY CompletesStep DEF TurnEnds, Listening, Running

LEMMA ExitedStep ==
    ASSUME IInv, NEW r \in Runs, Exited(r)
    PROVE  Step
BY CompletesStep DEF Exited, Running, Verdicts

LEMMA TimeLimitStep ==
    ASSUME IInv, NEW r \in Runs, TimeLimit(r)
    PROVE  Step
<1>1. Running
  BY DEF TimeLimit, Unsettled, IInv, Ended, Running
<1> QED
  BY <1>1, CompletesStep DEF TimeLimit, Verdicts

LEMMA CollectedStep ==
    ASSUME IInv, NEW r \in Runs, Collected(r)
    PROVE  Step
<1>1. run[r].phase = "collecting"
  BY DEF Collected
<1>2. PICK readable \in BOOLEAN, judged \in BOOLEAN, bad \in Faults :
         LET unread == run[r].verdict = "succeeded" /\ ~readable
             status == IF unread THEN "failed" ELSE run[r].verdict
         IN /\ Become(IF status = "succeeded" /\ judged
                      THEN [Now EXCEPT !.run[r].phase = "evaluating"]
                      ELSE Finish(Now, r, status, unread, bad))
            /\ Spend(bad)
  BY DEF Collected
<1> DEFINE unread == run[r].verdict = "succeeded" /\ ~readable
           status == IF unread THEN "failed" ELSE run[r].verdict
<1>3. bad \in BOOLEAN /\ faults' \in 0 .. MaxFaults /\ target' \in BOOLEAN
  BY <1>2, Spent DEF Collected, IInv
<1>4. Running /\ Now \in Worlds /\ Fine(Now) /\ Busy(run[r])
  <2>1. Running
    BY <1>1 DEF IInv, Ended, Running
  <2> QED
    BY <1>1, <2>1, NowFields DEF Busy
<1>5. /\ run \in [Runs -> Attempts] /\ run[r] \in Attempts /\ Shape(run[r])
      /\ occ[run[r].sched].stopped => run[r].verdict = "stopped"
  BY <1>4, NowFields, TypesOfFine, LiveFacts DEF RunOK
<1>6. CASE status = "succeeded" /\ judged
  <2> DEFINE x == [run[r] EXCEPT !.phase = "evaluating"]
  <2>1. Become([Now EXCEPT !.run[r].phase = "evaluating"])
    BY <1>2, <1>6
  <2>2. /\ x \in Attempts /\ x.phase = "evaluating" /\ x.launch = run[r].launch /\ x.row = run[r].row
        /\ x.sched = run[r].sched /\ x.edition = run[r].edition
    BY <1>5 DEF Attempts, Phases
  <2>3. [Now EXCEPT !.run[r].phase = "evaluating"] = WithRun(Now, r, x)
    BY <1>4, <1>5, NowFields DEF WithRun, Worlds
  <2> HIDE DEF x
  <2>4. Become(WithRun(Now, r, x))
    BY <2>1, <2>3
  <2>5. Busy(x) /\ Shape(x) /\ Timely(host, occ, x)
    BY <1>1, <1>5, <2>2 DEF Busy, Shape, Timely, Unsettled
  <2>6. ~occ[run[r].sched].stopped
    BY <1>5, <1>6
  <2> QED
    BY <1>3, <1>4, <2>2, <2>4, <2>5, <2>6, TouchStep
<1>7. CASE ~(status = "succeeded" /\ judged)
  <2> DEFINE v == Finish(Now, r, status, unread, bad)
  <2>1. Become(v)
    BY <1>2, <1>7
  <2>2. unread \in BOOLEAN
    OBVIOUS
  <2>3. /\ status = "failed" /\ ~unread => ~occ[run[r].sched].stopped
        /\ status = "succeeded" => ~occ[run[r].sched].stopped
    BY <1>5
  <2> HIDE DEF unread, status
  <2>4. Fine(v) /\ Kindly(Now, v)
    BY <1>1, <1>3, <1>4, <2>2, <2>3, NowFields, FinishGood
  <2> HIDE DEF v
  <2> QED
    BY <1>3, <2>1, <2>4, Becomes DEF Step
<1> QED
  BY <1>6, <1>7

LEMMA EvaluatedStep ==
    ASSUME IInv, NEW r \in Runs, Evaluated(r)
    PROVE  Step
<1>1. run[r].phase = "evaluating"
  BY DEF Evaluated
<1>2. PICK status \in {"succeeded", "failed"}, bad \in Faults :
         Become(Finish(Now, r, status, TRUE, bad)) /\ Spend(bad)
  BY DEF Evaluated
<1>3. bad \in BOOLEAN /\ faults' \in 0 .. MaxFaults /\ target' \in BOOLEAN
  BY <1>2, Spent DEF Evaluated, IInv
<1>4. Running /\ Now \in Worlds /\ Fine(Now) /\ Busy(run[r])
  <2>1. Running
    BY <1>1 DEF IInv, Ended, Running
  <2> QED
    BY <1>1, <2>1, NowFields DEF Busy
<1>5. ~occ[run[r].sched].stopped
  BY <1>1, <1>4, NowFields, LiveFacts
<1> DEFINE v == Finish(Now, r, status, TRUE, bad)
<1>6. Fine(v) /\ Kindly(Now, v)
  BY <1>1, <1>3, <1>4, <1>5, NowFields, FinishGood
<1> HIDE DEF v
<1> QED
  BY <1>2, <1>3, <1>6, Becomes DEF Step, v

\* The row of an attempt that is stopped.
LEMMA StoppedRun ==
    ASSUME NEW w \in Worlds, NEW r \in Runs, w.run[r].phase # "none" => w.run[r].sched \in Schedules,
           NEW bad \in BOOLEAN, NEW x, x = Complete(w, r, "stopped", bad).run[r]
    PROVE  /\ x \in Attempts
           /\ w.run[r].phase = "preparing" => x = Rest(w, r)
           /\ w.run[r].phase \in {"resuming", "dispatching", "collecting"} =>
                /\ x.phase = "collecting" /\ x.verdict = "stopped"
                /\ x.launch = w.run[r].launch \/ x.launch \in {"none", "stale"}
                /\ w.run[r].phase # "collecting" => x.launch \in {"none", "stale"}
                /\ x.sched = w.run[r].sched /\ x.edition = w.run[r].edition /\ x.row = w.run[r].row
           /\ w.run[r].phase = "evaluating" =>
                \/ x = Rest(w, r)
                \/ /\ x.phase = "kept" /\ x.launch = w.run[r].launch
                   /\ x.sched = w.run[r].sched /\ x.edition = w.run[r].edition /\ x.row = w.run[r].row
           /\ w.run[r].phase \in {"none", "kept"} => x = w.run[r]
<1> DEFINE s == w.run[r].sched
           phase == w.run[r].phase
           v == Complete(w, r, "stopped", bad)
<1>0. w.run \in [Runs -> Attempts] /\ w.run[r] \in Attempts
  BY DEF Worlds
<1>1. CASE phase = "preparing"
  <2>1. v = Settle(Released(w, r), s, "stopped")
    BY <1>1, Zenon DEF Complete, AfterAttempt
  <2>2. Rest(w, r) \in Attempts /\ Released(w, r) = WithRun(w, r, Rest(w, r))
    BY RestFields
  <2>3. Released(w, r) \in Worlds /\ Released(w, r).run[r] = Rest(w, r)
    BY <2>2, WithRunFields
  <2>4. s \in Schedules
    BY <1>1
  <2>5. v.run = Released(w, r).run
    BY <2>1, <2>3, <2>4, SettleFields
  <2> QED
    BY <1>1, <2>2, <2>3, <2>5
<1>2. CASE phase \in {"resuming", "dispatching"}
  <2>1. v = ToCollect(w, r, "stopped", Outlived(w, r))
    BY <1>2, Zenon DEF Complete, ToCollect
  <2>2. Outlived(w, r) \in {"none", "stale"} /\ "stopped" \in Verdicts
    BY DEF Outlived, Verdicts
  <2>3. PICK y \in Attempts :
           /\ v = WithRun(w, r, y)
           /\ y.phase = "collecting" /\ y.verdict = "stopped" /\ y.launch = Outlived(w, r)
           /\ y.sched = s /\ y.edition = w.run[r].edition /\ y.row = w.run[r].row
    BY <2>1, <2>2, ToCollectIs
  <2>4. x = y
    BY <2>3, WithRunFields
  <2> QED
    BY <1>2, <2>2, <2>3, <2>4
<1>3. CASE phase = "collecting"
  <2> DEFINE y == [w.run[r] EXCEPT !.verdict = "stopped"]
  <2>1. y \in Attempts /\ y.phase = "collecting" /\ y.verdict = "stopped" /\ y.launch = w.run[r].launch
        /\ y.sched = s /\ y.edition = w.run[r].edition /\ y.row = w.run[r].row
    BY <1>0, <1>3 DEF Attempts, Verdicts
  <2>2. v = WithRun(w, r, y)
    BY <1>3, Zenon DEF Complete, WithRun
  <2> HIDE DEF y
  <2>3. x = y
    BY <2>1, <2>2, WithRunFields
  <2> QED
    BY <1>3, <2>1, <2>3
<1>4. CASE phase = "evaluating"
  <2>1. v = Finish(w, r, "stopped", FALSE, bad)
    BY <1>4, Zenon DEF Complete
  <2>2. s \in Schedules
    BY <1>4
  <2>3. CASE bad
    <3> DEFINE y == [w.run[r] EXCEPT !.phase = "kept"]
    <3>1. y \in Attempts /\ y.phase = "kept" /\ y.launch = w.run[r].launch
          /\ y.sched = s /\ y.edition = w.run[r].edition /\ y.row = w.run[r].row
      BY <1>0 DEF Attempts, Phases
    <3>2. v = Settle(WithRun(w, r, y), s, "failed")
      BY <2>1, <2>3, Zenon DEF Finish, WithRun
    <3> HIDE DEF y
    <3>3. WithRun(w, r, y) \in Worlds /\ WithRun(w, r, y).run[r] = y
      BY <3>1, WithRunFields
    <3>4. v.run = WithRun(w, r, y).run
      BY <2>2, <3>2, <3>3, SettleFields
    <3> QED
      BY <1>4, <3>1, <3>3, <3>4
  <2>4. CASE ~bad
    <3>1. v = Settle(Released(w, r), s, "stopped")
      BY <2>1, <2>4, Zenon DEF Finish, AfterAttempt
    <3>2. Rest(w, r) \in Attempts /\ Released(w, r) = WithRun(w, r, Rest(w, r))
      BY RestFields
    <3>3. Released(w, r) \in Worlds /\ Released(w, r).run[r] = Rest(w, r)
      BY <3>2, WithRunFields
    <3>4. v.run = Released(w, r).run
      BY <2>2, <3>1, <3>3, SettleFields
    <3> QED
      BY <1>4, <3>2, <3>3, <3>4
  <2> QED
    BY <2>3, <2>4
<1>5. CASE phase \in {"none", "kept"}
  <2>1. v = w
    BY <1>5 DEF Complete
  <2> QED
    BY <1>0, <1>5, <2>1
<1>6. phase \in Phases
  BY <1>0 DEF Attempts
<1> QED
  BY <1>1, <1>2, <1>3, <1>4, <1>5, <1>6 DEF Phases, Unsettled

\* The schedules whose attempt is over with it.
OverIn(w, R) == {w.run[r].sched : r \in {r \in R : w.run[r].phase \in {"preparing", "evaluating"}}}

\* Every attempt is of a schedule.
Fit(w) == \A r \in Runs : w.run[r].phase # "none" => w.run[r].sched \in Schedules

\* What StopAll changes.
Stops(w, R, bad, v) ==
    /\ v \in Worlds /\ v.host = w.host
    /\ \A r \in Runs : v.run[r] = IF r \in R THEN Complete(w, r, "stopped", bad).run[r] ELSE w.run[r]
    /\ \A s \in Schedules : v.occ[s] = IF s \in OverIn(w, R) THEN NoOcc ELSE w.occ[s]
    /\ \A s \in Schedules : v.task[s] = IF s \in OverIn(w, R) THEN Settle(w, s, "stopped").task[s] ELSE w.task[s]

\* It changes that.
LEMMA StopAllFields ==
    ASSUME NEW w \in Worlds, Fit(w),
           NEW R \in SUBSET Runs, NEW bad \in BOOLEAN, NEW v, v = StopAll(w, R, bad)
    PROVE  Stops(w, R, bad, v)
<1> DEFINE R2 == [r \in Runs |-> IF r \in R THEN Complete(w, r, "stopped", bad).run[r] ELSE w.run[r]]
           O2 == [s \in Schedules |-> IF s \in OverIn(w, R) THEN NoOcc ELSE w.occ[s]]
           T2 == [s \in Schedules |-> IF s \in OverIn(w, R) THEN Settle(w, s, "stopped").task[s] ELSE w.task[s]]
<1>1. v = [w EXCEPT !.run = R2, !.occ = O2, !.task = T2]
  BY Zenon DEF StopAll, OverIn
<1>2. w.run \in [Runs -> Attempts] /\ w.occ \in [Schedules -> Occs] /\ w.task \in [Schedules -> Tasks]
  BY DEF Worlds
<1>3. \A r \in Runs : Complete(w, r, "stopped", bad).run[r] \in Attempts
  BY StoppedRun DEF Fit
<1>4. \A s \in Schedules : Settle(w, s, "stopped").task[s] \in Tasks
  BY SettleFields DEF Worlds
<1>5. R2 \in [Runs -> Attempts]
  BY <1>2, <1>3
<1>6. O2 \in [Schedules -> Occs]
  BY <1>2, Typed
<1>7. T2 \in [Schedules -> Tasks]
  BY <1>2, <1>4
<1>8. /\ \A r \in Runs : R2[r] = IF r \in R THEN Complete(w, r, "stopped", bad).run[r] ELSE w.run[r]
      /\ \A s \in Schedules : O2[s] = IF s \in OverIn(w, R) THEN NoOcc ELSE w.occ[s]
      /\ \A s \in Schedules : T2[s] = IF s \in OverIn(w, R) THEN Settle(w, s, "stopped").task[s] ELSE w.task[s]
  BY Zenon
<1> HIDE DEF R2, O2, T2
<1>9. v \in Worlds /\ v.host = w.host /\ v.run = R2 /\ v.occ = O2 /\ v.task = T2
  BY <1>1, <1>5, <1>6, <1>7 DEF Worlds
<1> QED
  BY <1>8, <1>9 DEF Stops

\* Stopping attempts keeps the invariant, and restores Timely for them.
LEMMA StopAllGood ==
    ASSUME NEW w \in Worlds, NEW R \in SUBSET Runs, Late(w.host, w.task, w.occ, w.run, R),
           NEW bad \in BOOLEAN, NEW v, v = StopAll(w, R, bad)
    PROVE  /\ Fine(v) /\ v \in Worlds
           /\ \A s \in Schedules : \/ v.occ[s] = w.occ[s] /\ v.task[s] = w.task[s]
                                   \/ v.occ[s] = NoOcc /\ v.task[s].status # "succeeded"
           /\ \A r \in Runs : v.run[r].launch = w.run[r].launch \/ v.run[r].launch \in {"none", "stale"}
<1> DEFINE N(r) == Complete(w, r, "stopped", bad).run[r]
<1>1. /\ w.host \in {"up", "closing"} /\ w.task \in [Schedules -> Tasks]
      /\ w.occ \in [Schedules -> Occs] /\ w.run \in [Runs -> Attempts]
      /\ \A r \in Runs : RunOK(w.occ, w.run[r], r)
      /\ \A s \in Schedules : TaskOK(w.task[s], w.occ[s]) /\ OccOK(w.host, w.run, w.occ[s], s)
      /\ OnlyOne(w.run)
      /\ \A r \in Runs \ R : Timely(w.host, w.occ, w.run[r])
  BY TypesOfLate DEF Late
<1>2. \A r \in Runs : /\ Shape(w.run[r]) /\ w.run[r] \in Attempts
                      /\ w.run[r].phase # "none" => w.run[r].sched \in Schedules
  BY <1>1 DEF RunOK, Shape
<1>3. /\ v \in Worlds /\ v.host = w.host
      /\ \A r \in Runs : v.run[r] = IF r \in R THEN N(r) ELSE w.run[r]
      /\ \A s \in Schedules : v.occ[s] = IF s \in OverIn(w, R) THEN NoOcc ELSE w.occ[s]
      /\ \A s \in Schedules : v.task[s] = IF s \in OverIn(w, R) THEN Settle(w, s, "stopped").task[s] ELSE w.task[s]
  <2>1. Fit(w)
    BY <1>2 DEF Fit
  <2>2. Stops(w, R, bad, v)
    BY <2>1, StopAllFields
  <2> QED
    BY <2>2 DEF Stops
\* What becomes of each attempt.
<1>4. \A r \in R : w.run[r].phase = "preparing" => v.run[r] = Rest(w, r)
  BY <1>2, <1>3, StoppedRun
<1>5. \A r \in R : w.run[r].phase \in {"resuming", "dispatching", "collecting"} =>
         /\ v.run[r].phase = "collecting" /\ v.run[r].verdict = "stopped"
         /\ v.run[r].launch \in {"none", "stale"}
         /\ v.run[r].sched = w.run[r].sched /\ v.run[r].edition = w.run[r].edition
         /\ v.run[r].row = w.run[r].row
  <2> SUFFICES ASSUME NEW r \in R, w.run[r].phase \in {"resuming", "dispatching", "collecting"}
               PROVE  /\ v.run[r].phase = "collecting" /\ v.run[r].verdict = "stopped"
                      /\ v.run[r].launch \in {"none", "stale"}
                      /\ v.run[r].sched = w.run[r].sched /\ v.run[r].edition = w.run[r].edition
                      /\ v.run[r].row = w.run[r].row
    OBVIOUS
  <2>1. w.run[r].phase = "collecting" => w.run[r].launch \in {"none", "stale"}
    BY <1>2 DEF Shape, Unsettled
  <2>2. v.run[r] = N(r) /\ r \in Runs
    BY <1>3
  <2> DEFINE x == v.run[r]
  <2>3. /\ x.phase = "collecting" /\ x.verdict = "stopped"
        /\ x.launch = w.run[r].launch \/ x.launch \in {"none", "stale"}
        /\ w.run[r].phase # "collecting" => x.launch \in {"none", "stale"}
        /\ x.sched = w.run[r].sched /\ x.edition = w.run[r].edition /\ x.row = w.run[r].row
    BY <1>2, <2>2, StoppedRun
  <2> QED
    BY <2>1, <2>3
<1>6. \A r \in R : w.run[r].phase = "evaluating" =>
         \/ v.run[r] = Rest(w, r)
         \/ /\ v.run[r].phase = "kept" /\ v.run[r].launch = w.run[r].launch
            /\ v.run[r].sched = w.run[r].sched /\ v.run[r].edition = w.run[r].edition
            /\ v.run[r].row = w.run[r].row
  BY <1>2, <1>3, StoppedRun
<1>7. \A r \in R : w.run[r].phase \in {"none", "kept"} => v.run[r] = w.run[r]
  BY <1>2, <1>3, StoppedRun
<1>8. \A r \in Runs : r \notin R => v.run[r] = w.run[r]
  BY <1>3
<1>9. \A r \in Runs : /\ Rest(w, r).phase = "none" /\ Rest(w, r).row = "none" /\ Shape(Rest(w, r))
                      /\ Rest(w, r).launch \in {"none", "stale"}
  BY RestFields
<1>10. \A r \in Runs : w.run[r].phase \in {"preparing", "resuming", "dispatching", "collecting",
                                           "evaluating", "none", "kept"}
  BY <1>2 DEF Attempts, Phases, Unsettled
<1> HIDE DEF N
\* The schedules that are over had one attempt, which is over.
<1>11. \A s \in OverIn(w, R) : /\ s \in Schedules /\ w.occ[s].pc = "try"
                        /\ \A q \in Runs : v.run[q].sched = s => ~Busy(v.run[q]) /\ ~Waits(v.run[q])
  <2> SUFFICES ASSUME NEW r \in R, w.run[r].phase \in {"preparing", "evaluating"}, NEW s, s = w.run[r].sched
               PROVE  /\ s \in Schedules /\ w.occ[s].pc = "try"
                      /\ \A q \in Runs : v.run[q].sched = s => ~Busy(v.run[q]) /\ ~Waits(v.run[q])
    BY DEF OverIn
  <2>1. r \in Runs /\ Busy(w.run[r]) /\ s \in Schedules /\ w.occ[s].pc = "try"
    BY <1>1, <1>2 DEF Busy, RunOK
  <2>2. ~Busy(v.run[r]) /\ ~Waits(v.run[r])
    BY <1>2, <1>4, <1>6, <1>9 DEF Busy, Waits, Shape
  <2>3. ASSUME NEW q \in Runs, q # r, v.run[q].sched = s PROVE ~Busy(v.run[q]) /\ ~Waits(v.run[q])
    <3>1. CASE v.run[q] = w.run[q]
      BY <1>1, <2>1, <2>3, <3>1 DEF OnlyOne, RunOK
    <3>2. CASE v.run[q].sched = w.run[q].sched /\ Busy(w.run[q])
      BY <1>1, <2>1, <2>3, <3>2 DEF OnlyOne
    <3>3. CASE v.run[q] = Rest(w, q)
      BY <1>9, <3>3 DEF Busy, Waits
    <3> QED
      BY <1>4, <1>5, <1>6, <1>7, <1>8, <1>10, <3>1, <3>2, <3>3 DEF Busy
  <2> QED
    BY <2>1, <2>2, <2>3
<1>12. \A q \in Runs :
          /\ Busy(v.run[q]) => /\ Busy(w.run[q]) /\ v.run[q].sched = w.run[q].sched
                               /\ v.run[q] = w.run[q] \/ v.run[q].phase = "collecting"
          /\ Waits(v.run[q]) => v.run[q] = w.run[q]
          /\ Waits(w.run[q]) => v.run[q] = w.run[q]
          /\ Beats(v.run[q]) => Beats(w.run[q])
  BY <1>4, <1>5, <1>6, <1>7, <1>8, <1>9, <1>10 DEF Busy, Waits, Beats
<1>13. \A q \in Runs : Shape(v.run[q])
  <2> SUFFICES ASSUME NEW q \in Runs PROVE Shape(v.run[q])
    OBVIOUS
  <2>1. Shape(w.run[q])
    BY <1>2
  <2>2. CASE q \in R /\ w.run[q].phase \in {"resuming", "dispatching", "collecting"}
    BY <1>5, <2>1, <2>2 DEF Shape, Unsettled
  <2>3. CASE q \in R /\ w.run[q].phase = "evaluating"
    BY <1>6, <1>9, <2>1, <2>3 DEF Shape, Unsettled
  <2>4. CASE q \in R /\ w.run[q].phase = "preparing"
    BY <1>4, <1>9, <2>4
  <2>5. CASE q \notin R \/ w.run[q].phase \in {"none", "kept"}
    BY <1>7, <1>8, <2>1, <2>5
  <2> QED
    BY <1>10, <2>2, <2>3, <2>4, <2>5
<1>14. \A q \in Runs : Busy(w.run[q]) /\ w.run[q].sched \notin OverIn(w, R) =>
          Busy(v.run[q]) /\ v.run[q].sched = w.run[q].sched
  <2> SUFFICES ASSUME NEW q \in Runs, Busy(w.run[q]), w.run[q].sched \notin OverIn(w, R)
               PROVE  Busy(v.run[q]) /\ v.run[q].sched = w.run[q].sched
    OBVIOUS
  <2>1. q \in R => w.run[q].phase \notin {"preparing", "evaluating"}
    BY DEF OverIn
  <2> QED
    BY <1>5, <1>8, <1>10, <2>1 DEF Busy
<1>15. \A q \in Runs : w.run[q].phase = "collecting" /\ w.run[q].verdict = "stopped" =>
          v.run[q].phase = "collecting" /\ v.run[q].verdict = "stopped"
  BY <1>5, <1>8
<1>16. \A q \in Runs : RunOK(v.occ, v.run[q], q)
  <2> SUFFICES ASSUME NEW q \in Runs PROVE RunOK(v.occ, v.run[q], q)
    OBVIOUS
  <2>1. RunOK(w.occ, w.run[q], q) /\ Shape(v.run[q])
    BY <1>1, <1>13
  <2>2. CASE Busy(v.run[q]) \/ Waits(v.run[q])
    <3> DEFINE s == v.run[q].sched
    <3>1. s \in Schedules /\ s = w.run[q].sched /\ s \notin OverIn(w, R)
      BY <2>1, <2>2, <1>11, <1>12 DEF Shape, Busy, Waits
    <3>2. v.occ[s] = w.occ[s]
      BY <1>3, <3>1
    <3>3. /\ Busy(v.run[q]) => w.occ[s].pc = "try"
          /\ Waits(v.run[q]) => w.occ[s].pc = "wait" /\ w.occ[s].run = q
          /\ v.run[q].phase = "resuming" /\ v.run[q].launch = "none" => w.occ[s].edited
      BY <1>12, <2>1, <3>1 DEF RunOK, Busy
    <3> QED
      BY <2>1, <3>2, <3>3 DEF RunOK
  <2>3. CASE ~(Busy(v.run[q]) \/ Waits(v.run[q]))
    BY <2>1, <2>3 DEF RunOK, Busy
  <2> QED
    BY <2>2, <2>3
<1>17. \A s \in Schedules : /\ TaskOK(v.task[s], v.occ[s]) /\ OccOK(v.host, v.run, v.occ[s], s)
                            /\ \/ v.occ[s] = w.occ[s] /\ v.task[s] = w.task[s]
                               \/ v.occ[s] = NoOcc /\ v.task[s].status # "succeeded"
  <2> SUFFICES ASSUME NEW s \in Schedules
               PROVE  /\ TaskOK(v.task[s], v.occ[s]) /\ OccOK(v.host, v.run, v.occ[s], s)
                      /\ \/ v.occ[s] = w.occ[s] /\ v.task[s] = w.task[s]
                         \/ v.occ[s] = NoOcc /\ v.task[s].status # "succeeded"
    OBVIOUS
  <2>1. TaskOK(w.task[s], w.occ[s]) /\ OccOK(w.host, w.run, w.occ[s], s) /\ w.occ[s].run \in Runs \cup {"none"}
    BY <1>1 DEF Occs
  <2>2. CASE s \in OverIn(w, R)
    <3>1. v.occ[s] = NoOcc /\ v.task[s] = Settle(w, s, "stopped").task[s] /\ w.occ[s].pc = "try"
      BY <1>3, <1>11, <2>2
    <3> DEFINE t == Settle(w, s, "stopped").task[s]
    <3>2. /\ t.here = w.task[s].here /\ t.edition = w.task[s].edition
          /\ t.status = IF ~w.task[s].here \/ w.host # "up" THEN w.task[s].status ELSE "other"
      BY SettleFields
    <3> HIDE DEF t
    <3>3. TaskOK(t, NoOcc) /\ t.status # "succeeded"
      BY <2>1, <3>1, <3>2 DEF TaskOK, NoOcc
    <3>4. OccOK(v.host, v.run, NoOcc, s)
      BY DEF OccOK, NoOcc
    <3> QED
      BY <3>1, <3>3, <3>4 DEF t
  <2>3. CASE s \notin OverIn(w, R)
    <3>1. v.occ[s] = w.occ[s] /\ v.task[s] = w.task[s]
      BY <1>3, <2>3
    <3>2. OccOK(v.host, v.run, w.occ[s], s)
      <4>1. w.occ[s].pc = "try" => \E r \in Runs : Busy(v.run[r]) /\ v.run[r].sched = s
        BY <1>14, <2>1, <2>3 DEF OccOK
      <4>2. w.occ[s].stopped => \A r \in Runs : Busy(v.run[r]) /\ v.run[r].sched = s
                                  => v.run[r].phase = "collecting" /\ v.run[r].verdict = "stopped"
        BY <1>12, <1>15, <2>1 DEF OccOK
      <4>3. w.occ[s].pc = "wait" /\ w.occ[s].run # "none" =>
               Waits(v.run[w.occ[s].run]) /\ v.run[w.occ[s].run].sched = s
        BY <1>12, <2>1 DEF OccOK
      <4> QED
        BY <1>3, <2>1, <4>1, <4>2, <4>3 DEF OccOK
    <3> QED
      BY <2>1, <3>1, <3>2
  <2> QED
    BY <2>2, <2>3
<1>18. OnlyOne(v.run)
  BY <1>1, <1>12 DEF OnlyOne
<1>19. \A q \in Runs : Timely(v.host, v.occ, v.run[q])
  <2> SUFFICES ASSUME NEW q \in Runs PROVE Timely(v.host, v.occ, v.run[q])
    OBVIOUS
  <2>1. CASE q \in R
    <3>1. v.run[q].phase \notin Unsettled
      BY <1>4, <1>5, <1>6, <1>7, <1>9, <1>10, <2>1 DEF Unsettled
    <3> QED
      BY <3>1 DEF Timely, Unsettled
  <2>2. CASE q \notin R
    <3>1. v.run[q] = w.run[q] /\ Timely(w.host, w.occ, w.run[q])
      BY <1>1, <1>8, <2>2
    <3>2. v.run[q].phase = "preparing" =>
             v.run[q].sched \in Schedules /\ (v.occ[v.run[q].sched] = NoOcc \/ v.occ[v.run[q].sched] = w.occ[v.run[q].sched])
      BY <1>2, <1>17, <3>1
    <3> QED
      BY <1>3, <3>1, <3>2 DEF Timely, NoOcc
  <2> QED
    BY <2>1, <2>2
<1>20. Fine(v)
  BY <1>1, <1>3, <1>16, <1>17, <1>18, <1>19 DEF Fine, Good, Late, Core, Worlds
<1>21. \A r \in Runs : v.run[r].launch = w.run[r].launch \/ v.run[r].launch \in {"none", "stale"}
  BY <1>4, <1>5, <1>6, <1>7, <1>8, <1>9, <1>10
<1> QED
  BY <1>3, <1>17, <1>20, <1>21

\* Attempts are stopped, and nothing else happens.
LEMMA StopKindly ==
    ASSUME NEW w \in Worlds, Fine(w), NEW v \in Worlds,
           \A s \in Schedules : \/ v.occ[s] = w.occ[s] /\ v.task[s] = w.task[s]
                                \/ v.occ[s] = NoOcc /\ v.task[s].status # "succeeded",
           \A r \in Runs : v.run[r].launch = w.run[r].launch \/ v.run[r].launch \in {"none", "stale"}
    PROVE  Kindly(w, v)
<1>1. \A q \in Schedules : /\ w.occ[q].attempt \in Nat
                           /\ w.occ[q].edited \/ w.occ[q].stopped => w.occ[q].pc = "try"
  BY TriesOn
<1>2. NoOcc.pc = "off" /\ NoOcc.attempt = 0
  BY DEF NoOcc
<1>3. \A q \in Schedules :
         /\ w.occ[q].edited => v.occ[q].pc # "wait" /\ v.occ[q].attempt <= w.occ[q].attempt
         /\ w.occ[q].stopped => /\ v.occ[q].pc # "wait"
                                /\ v.occ[q].pc = "off" => v.task[q].status # "succeeded"
  BY <1>1, <1>2
<1>4. \A q \in Runs : v.run[q].launch \in {"start", "send", "resend"} => v.run[q].launch = w.run[q].launch
  OBVIOUS
<1> QED
  BY <1>3, <1>4 DEF Kindly

\* All attempts end when the supervisor is replaced.
LEMMA SupervisorResetStep ==
    ASSUME IInv, SupervisorReset
    PROVE  Step
<1>1. host = "up" /\ Now \in Worlds /\ Fine(Now)
  BY NowFields DEF SupervisorReset, Running
<1>2. PICK bad \in Faults : Become(StopAll(Now, Runs, bad)) /\ Spend(bad)
  BY DEF SupervisorReset
<1>3. bad \in BOOLEAN /\ faults' \in 0 .. MaxFaults /\ target' \in BOOLEAN
  BY <1>2, Spent DEF SupervisorReset, IInv
<1> DEFINE v == StopAll(Now, Runs, bad)
<1>4. Late(Now.host, Now.task, Now.occ, Now.run, Runs)
  BY <1>1 DEF Fine, Good, Late
<1>5. /\ Fine(v) /\ v \in Worlds
      /\ \A s \in Schedules : \/ v.occ[s] = Now.occ[s] /\ v.task[s] = Now.task[s]
                              \/ v.occ[s] = NoOcc /\ v.task[s].status # "succeeded"
      /\ \A r \in Runs : v.run[r].launch = Now.run[r].launch \/ v.run[r].launch \in {"none", "stale"}
  BY <1>1, <1>3, <1>4, StopAllGood
<1>6. Become(v)
  BY <1>2
<1> HIDE DEF v
<1>7. Kindly(Now, v)
  BY <1>1, <1>5, StopKindly
<1> QED
  BY <1>3, <1>5, <1>6, <1>7, Becomes DEF Step

\* The occurrence s is marked as one the user cancelled.
LEMMA MarkGood ==
    ASSUME NEW w \in Worlds, Fine(w), NEW s \in Schedules, NEW c \in BOOLEAN,
           c => \E r \in Runs : /\ Busy(w.run[r]) /\ w.run[r].sched = s
                                /\ w.run[r].phase = "collecting" /\ w.run[r].verdict = "stopped",
           NEW v, v = [w EXCEPT !.occ[s].stopped = @ \/ c]
    PROVE  /\ Fine(v) /\ v \in Worlds /\ v.task = w.task /\ v.run = w.run
           /\ \A q \in Schedules : v.occ[q].pc = w.occ[q].pc /\ v.occ[q].attempt = w.occ[q].attempt
<1>1. /\ w.host \in {"up", "closing"} /\ w.task \in [Schedules -> Tasks]
      /\ w.occ \in [Schedules -> Occs] /\ w.run \in [Runs -> Attempts]
      /\ \A r \in Runs : RunOK(w.occ, w.run[r], r) /\ Timely(w.host, w.occ, w.run[r])
      /\ \A q \in Schedules : TaskOK(w.task[q], w.occ[q]) /\ OccOK(w.host, w.run, w.occ[q], q)
      /\ OnlyOne(w.run)
  BY TypesOfFine
<1> DEFINE o == [w.occ[s] EXCEPT !.stopped = @ \/ c]
           O2 == [w.occ EXCEPT ![s] = o]
<1>2. w.occ[s] \in Occs
  BY <1>1
<1>3. /\ o \in Occs /\ o.pc = w.occ[s].pc /\ o.attempt = w.occ[s].attempt /\ o.run = w.occ[s].run
      /\ o.edited = w.occ[s].edited /\ o.stopped = (w.occ[s].stopped \/ c)
      /\ ~c => o = w.occ[s]
  BY <1>2 DEF Occs
<1>4. v = [w EXCEPT !.occ = O2]
  BY <1>1 DEF Worlds
<1> HIDE DEF o
<1>5. O2 \in [Schedules -> Occs] /\ O2[s] = o /\ \A q \in Schedules \ {s} : O2[q] = w.occ[q]
  BY <1>1, <1>3
<1> HIDE DEF O2
<1>6. v \in Worlds /\ v.host = w.host /\ v.task = w.task /\ v.run = w.run /\ v.occ = O2
  BY <1>4, <1>5 DEF Worlds
<1>7. \A q \in Schedules : /\ O2[q].pc = w.occ[q].pc /\ O2[q].attempt = w.occ[q].attempt
                           /\ O2[q].run = w.occ[q].run /\ O2[q].edited = w.occ[q].edited
  BY <1>3, <1>5
<1>8. c => w.occ[s].pc = "try"
  BY <1>1 DEF RunOK
<1>9. \A r \in Runs : RunOK(O2, w.run[r], r) /\ Timely(w.host, O2, w.run[r])
  <2> SUFFICES ASSUME NEW r \in Runs PROVE RunOK(O2, w.run[r], r) /\ Timely(w.host, O2, w.run[r])
    OBVIOUS
  <2>1. RunOK(w.occ, w.run[r], r) /\ Timely(w.host, w.occ, w.run[r])
    BY <1>1
  <2>2. Busy(w.run[r]) \/ Waits(w.run[r]) => w.run[r].sched \in Schedules
    BY <2>1 DEF RunOK, Shape, Busy, Waits
  <2> QED
    BY <1>7, <2>1, <2>2 DEF RunOK, Timely, Busy, Unsettled
<1>10. OccOK(w.host, w.run, o, s) /\ TaskOK(w.task[s], o)
  <2>1. OccOK(w.host, w.run, w.occ[s], s) /\ TaskOK(w.task[s], w.occ[s])
    BY <1>1
  <2>2. c => \A r \in Runs : Busy(w.run[r]) /\ w.run[r].sched = s
                               => w.run[r].phase = "collecting" /\ w.run[r].verdict = "stopped"
    BY <1>1 DEF OnlyOne
  <2>3. CASE c
    BY <1>3, <1>8, <2>1, <2>2, <2>3 DEF OccOK, TaskOK
  <2>4. CASE ~c
    BY <1>3, <2>1, <2>4
  <2> QED
    BY <2>3, <2>4
<1>11. \A q \in Schedules : TaskOK(w.task[q], O2[q]) /\ OccOK(w.host, w.run, O2[q], q)
  BY <1>1, <1>5, <1>10
<1>12. Fine(v)
  BY <1>1, <1>5, <1>6, <1>9, <1>11 DEF Fine, Good, Late, Core
<1> QED
  BY <1>6, <1>7, <1>12

\* The user cancels a run.
LEMMA CancelRunStep ==
    ASSUME IInv, NEW r \in Runs, CancelRun(r)
    PROVE  Step
<1> DEFINE s == run[r].sched
<1>1. host = "up" /\ Held(r) /\ Now \in Worlds /\ Fine(Now)
  BY NowFields DEF CancelRun, Running
<1>2. s \in Schedules /\ run[r] \in Attempts /\ run[r].phase # "none"
  BY <1>1, NowFields, TypesOfFine DEF RunOK, Shape, Held
<1>3. PICK bad \in Faults :
         LET w == Complete(Now, r, "stopped", bad)
         IN /\ Become([w EXCEPT !.occ[s].stopped = @ \/ w.run[r].phase = "collecting"])
            /\ Spend(bad)
  BY DEF CancelRun
<1>4. bad \in BOOLEAN /\ faults' \in 0 .. MaxFaults /\ target' \in BOOLEAN
  BY <1>3, Spent DEF CancelRun, IInv
<1> DEFINE w == Complete(Now, r, "stopped", bad)
           c == w.run[r].phase = "collecting"
           v == [w EXCEPT !.occ[s].stopped = @ \/ c]
<1>5. Become(v)
  BY <1>3
<1>6. Fine(w) /\ Kindly(Now, w)
  <2>1. "stopped" \in Verdicts
    BY DEF Verdicts
  <2> QED
    BY <1>1, <1>4, <2>1, CompleteGood
<1>7. c => w.run[r].verdict = "stopped" /\ w.run[r].sched = s
  <2> DEFINE x == w.run[r]
  <2>1. /\ run[r].phase = "preparing" => x = Rest(Now, r)
        /\ run[r].phase \in {"resuming", "dispatching", "collecting"} =>
              x.verdict = "stopped" /\ x.sched = s
        /\ run[r].phase = "evaluating" => x = Rest(Now, r) \/ x.phase = "kept"
        /\ run[r].phase \in {"none", "kept"} => x = run[r]
    BY <1>1, <1>2, <1>4, NowFields, StoppedRun
  <2>2. Rest(Now, r).phase = "none"
    BY <1>1, RestFields
  <2>3. run[r].phase \in {"preparing", "resuming", "dispatching", "collecting", "evaluating", "none", "kept"}
    BY <1>2 DEF Attempts, Phases, Unsettled
  <2> HIDE DEF w
  <2> QED
    BY <2>1, <2>2, <2>3
<1>8. w \in Worlds /\ c \in BOOLEAN
  BY <1>6 DEF Kindly
<1>9. c => \E q \in Runs : /\ Busy(w.run[q]) /\ w.run[q].sched = s
                           /\ w.run[q].phase = "collecting" /\ w.run[q].verdict = "stopped"
  BY <1>7 DEF Busy
<1> HIDE DEF w, s
<1>10. /\ Fine(v) /\ v \in Worlds /\ v.task = w.task /\ v.run = w.run
       /\ \A q \in Schedules : v.occ[q].pc = w.occ[q].pc /\ v.occ[q].attempt = w.occ[q].attempt
  <2> DEFINE d == c
  <2>1. v = [w EXCEPT !.occ[s].stopped = @ \/ d] /\ s \in Schedules /\ d \in BOOLEAN
    BY <1>2, <1>8 DEF s
  <2>2. d => \E q \in Runs : /\ Busy(w.run[q]) /\ w.run[q].sched = s
                             /\ w.run[q].phase = "collecting" /\ w.run[q].verdict = "stopped"
    BY <1>9
  <2> HIDE DEF d, v
  <2> QED
    BY <1>6, <1>8, <2>1, <2>2, MarkGood
<1> HIDE DEF v, c
<1>11. Kindly(Now, v)
  BY <1>6, <1>10 DEF Kindly
<1> QED
  BY <1>4, <1>5, <1>10, <1>11, Becomes DEF Step

\* The definition of s has changed, and nothing else but that rows of its runs are gone.
Revised(w, s) ==
    /\ w \in Worlds /\ w.host = "up" /\ w.occ = occ
    /\ \A q \in Schedules \ {s} : w.task[q] = task[q]
    /\ ~w.task[s].here => w.task[s].status = "other"
    /\ w.task[s].here => w.task[s].edition \in Editions
    /\ w.task[s].status \in {task[s].status, "other"}
    /\ w.task[s].here \/ \A q \in Runs : run[q].sched = s => w.run[q].row # "retrying"
    /\ \A q \in Runs : \/ w.run[q] = run[q]
                       \/ /\ run[q].sched = s /\ w.run[q].row = "none"
                          /\ w.run[q].sched = s /\ w.run[q].edition = run[q].edition
                          /\ w.run[q].phase = run[q].phase /\ w.run[q].launch = run[q].launch
                          /\ w.run[q].verdict = run[q].verdict

\* The attempts are as they were.
LEMMA RevisedRuns ==
    ASSUME IInv, host = "up", NEW s \in Schedules, NEW w, Revised(w, s), NEW q \in Runs
    PROVE  /\ Shape(w.run[q]) /\ Busy(w.run[q]) = Busy(run[q]) /\ Beats(w.run[q]) = Beats(run[q])
           /\ w.run[q].sched = run[q].sched /\ w.run[q].phase = run[q].phase /\ w.run[q].launch = run[q].launch
           /\ w.run[q].verdict = run[q].verdict
           /\ Waits(w.run[q]) => w.run[q] = run[q]
           /\ w.run[q] # run[q] => run[q].sched = s /\ ~Waits(w.run[q])
<1>1. Shape(run[q])
  BY NowFields, TypesOfFine DEF Running, RunOK
<1>2. \/ w.run[q] = run[q]
      \/ /\ run[q].sched = s /\ w.run[q].row = "none"
         /\ w.run[q].sched = s /\ w.run[q].edition = run[q].edition
         /\ w.run[q].phase = run[q].phase /\ w.run[q].launch = run[q].launch
         /\ w.run[q].verdict = run[q].verdict
  BY DEF Revised
<1>3. CASE w.run[q] = run[q]
  BY <1>1, <1>3
<1>4. CASE w.run[q] # run[q]
  BY <1>1, <1>2, <1>4 DEF Shape, Busy, Waits, Beats
<1> QED
  BY <1>3, <1>4

\* The occurrence of s is not waiting: the revision is no matter to it, and
\* where it is marked so, only the attempts E that are being prepared are late.
LEMMA RevisedLate ==
    ASSUME IInv, host = "up", NEW s \in Schedules, NEW w, Revised(w, s), occ[s].pc # "wait",
           NEW o \in Occs, NEW E \in SUBSET Runs,
           NEW O2 \in [Schedules -> Occs], O2[s] = o, \A q \in Schedules \ {s} : O2[q] = occ[q],
           o.pc = occ[s].pc, o.run = occ[s].run, o.stopped = occ[s].stopped,
           o.pc = "off" => o = NoOcc,
           occ[s].edited \/ o.pc = "try" => o.edited,
           ~occ[s].edited => \A q \in Runs : w.run[q].phase = "preparing" /\ w.run[q].sched = s => q \in E
    PROVE  Late(w.host, w.task, O2, w.run, E)
<1>1. Now \in Worlds /\ Fine(Now)
  BY NowFields DEF Running
<1>2. /\ task \in [Schedules -> Tasks] /\ occ \in [Schedules -> Occs] /\ run \in [Runs -> Attempts]
      /\ \A r \in Runs : RunOK(occ, run[r], r) /\ Timely(host, occ, run[r])
      /\ \A q \in Schedules : TaskOK(task[q], occ[q]) /\ OccOK(host, run, occ[q], q)
      /\ OnlyOne(run) /\ Late(host, task, occ, run, {})
  BY <1>1, NowFields, TypesOfFine DEF Fine, Good
<1>3. w.task \in [Schedules -> Tasks] /\ w.run \in [Runs -> Attempts] /\ w.host = host
  BY DEF Revised, Worlds
<1>4. O2 \in [Schedules -> Occs] /\ O2[s] = o /\ \A q \in Schedules \ {s} : O2[q] = occ[q]
  OBVIOUS
<1>5. \A q \in Schedules \ {s} : w.task[q] = task[q]
  BY DEF Revised
<1>6. \A q \in Runs : /\ Shape(w.run[q]) /\ Busy(w.run[q]) = Busy(run[q]) /\ Beats(w.run[q]) = Beats(run[q])
                      /\ w.run[q].sched = run[q].sched /\ w.run[q].phase = run[q].phase
                      /\ w.run[q].launch = run[q].launch /\ w.run[q].verdict = run[q].verdict
                      /\ Waits(w.run[q]) => w.run[q] = run[q]
                      /\ w.run[q] # run[q] => run[q].sched = s /\ ~Waits(w.run[q])
  BY RevisedRuns
<1>7. \A q \in Runs : run[q].sched = s => ~Waits(run[q])
  BY <1>2 DEF RunOK
<1>8. \A q \in Runs : w.run[q] # run[q] => MineBefore(run[q], s) /\ MineBefore(w.run[q], s) /\ Shape(w.run[q])
  BY <1>6 DEF MineBefore
<1>9. \A q \in Runs : MineBefore(w.run[q], s) => RunOK(O2, w.run[q], q)
  <2> SUFFICES ASSUME NEW q \in Runs, MineBefore(w.run[q], s) PROVE RunOK(O2, w.run[q], q)
    OBVIOUS
  <2>1. RunOK(occ, run[q], q)
    BY <1>2
  <2>2. CASE Busy(w.run[q])
    <3>1. run[q].sched = s /\ w.run[q].sched = s /\ ~Waits(w.run[q])
      BY <1>6, <1>7, <2>2 DEF MineBefore
    <3>2. o.pc = "try" /\ (w.run[q].phase = "resuming" /\ w.run[q].launch = "none" => o.edited)
      BY <1>6, <2>1, <2>2, <3>1 DEF RunOK
    <3> QED
      BY <1>4, <1>6, <3>1, <3>2 DEF RunOK
  <2>3. CASE ~Busy(w.run[q])
    <3>1. ~Waits(w.run[q])
      BY <1>6, <1>7 DEF MineBefore
    <3> QED
      BY <1>6, <2>3, <3>1 DEF RunOK, Busy
  <2> QED
    BY <2>2, <2>3
<1>10. \A q \in Runs \ E : w.run[q].sched = s \/ q \in {} => Timely(host, O2, w.run[q])
  <2> SUFFICES ASSUME NEW q \in Runs \ E, w.run[q].sched = s PROVE Timely(host, O2, w.run[q])
    OBVIOUS
  <2>1. CASE occ[s].edited
    <3>1. w.run[q].phase # "preparing"
      BY <1>2, <1>6, <2>1 DEF Timely
    <3> QED
      BY <3>1 DEF Timely
  <2>2. CASE ~occ[s].edited
    BY <2>2 DEF Timely
  <2> QED
    BY <2>1, <2>2
<1>11. TaskOK(w.task[s], O2[s])
  <2>1. TaskOK(task[s], occ[s]) /\ o.pc \in {"off", "try", "wait"} /\ (o.pc = "try" => o.edited)
    BY <1>2 DEF Occs
  <2>2. /\ ~w.task[s].here => w.task[s].status = "other"
        /\ w.task[s].here => w.task[s].edition \in Editions
        /\ w.task[s].status \in {task[s].status, "other"}
    BY DEF Revised
  <2> QED
    BY <1>4, <2>1, <2>2 DEF TaskOK
<1>12. OccOK(host, w.run, O2[s], s)
  <2>1. OccOK(host, run, occ[s], s)
    BY <1>2
  <2>2. o.pc = "try" => \E r \in Runs : Busy(w.run[r]) /\ w.run[r].sched = s
    BY <1>6, <2>1 DEF OccOK
  <2>3. o.stopped => \A r \in Runs : Busy(w.run[r]) /\ w.run[r].sched = s
                       => w.run[r].phase = "collecting" /\ w.run[r].verdict = "stopped"
    BY <1>6, <2>1 DEF OccOK
  <2> QED
    BY <1>4, <2>1, <2>2, <2>3 DEF OccOK
<1>13. OnlyOne(w.run)
  BY <1>2, <1>6 DEF OnlyOne
<1>14. Late(host, w.task, O2, w.run, E)
  <2> DEFINE T2 == w.task
             R2 == w.run
  <2>1. /\ Late(host, task, occ, run, {})
        /\ T2 \in [Schedules -> Tasks] /\ O2 \in [Schedules -> Occs] /\ R2 \in [Runs -> Attempts]
        /\ \A q \in Schedules \ {s} : T2[q] = task[q] /\ O2[q] = occ[q]
        /\ TaskOK(T2[s], O2[s]) /\ OccOK(host, R2, O2[s], s) /\ OnlyOne(R2)
    BY <1>2, <1>3, <1>4, <1>5, <1>11, <1>12, <1>13
  <2>2. /\ \A q \in Runs : R2[q] # run[q] => MineBefore(run[q], s) /\ MineBefore(R2[q], s) /\ Shape(R2[q])
        /\ \A q \in Runs : MineBefore(R2[q], s) => RunOK(O2, R2[q], q)
        /\ \A q \in Runs \ E : R2[q].sched = s \/ q \in {} => Timely(host, O2, R2[q])
    BY <1>8, <1>9, <1>10
  <2> HIDE DEF T2, R2
  <2>3. Late(host, T2, O2, R2, E)
    BY <2>1, <2>2, Local
  <2> QED
    BY <2>3 DEF T2, R2
<1> QED
  BY <1>3, <1>14

\* An edit or a deletion ends the wait, or stops an attempt that was not yet sent.
LEMMA OvertakenGood ==
    ASSUME IInv, host = "up", NEW s \in Schedules, NEW w, Revised(w, s), NEW bad \in BOOLEAN,
           NEW v, v = Overtaken(w, s, bad)
    PROVE  Fine(v) /\ Kindly(Now, v)
<1> DEFINE edited == [w EXCEPT !.occ[s].edited = TRUE]
           o == [occ[s] EXCEPT !.edited = TRUE]
           O2 == [occ EXCEPT ![s] = o]
           early == {r \in Runs : w.run[r].sched = s /\ w.run[r].phase \in {"preparing", "resuming"}}
<1>1. Now \in Worlds /\ Fine(Now)
  BY NowFields DEF Running
<1>2. /\ task \in [Schedules -> Tasks] /\ occ \in [Schedules -> Occs] /\ run \in [Runs -> Attempts]
      /\ \A r \in Runs : RunOK(occ, run[r], r)
      /\ \A q \in Schedules : TaskOK(task[q], occ[q]) /\ OccOK(host, run, occ[q], q)
      /\ Good(host, task, occ, run)
  BY <1>1, NowFields, TypesOfFine DEF Fine
<1>3. /\ w \in Worlds /\ w.host = "up" /\ w.occ = occ
      /\ \A q \in Schedules \ {s} : w.task[q] = task[q]
  BY DEF Revised
<1>4. /\ occ[s] \in Occs /\ o \in Occs /\ o.pc = occ[s].pc /\ o.run = occ[s].run /\ o.stopped = occ[s].stopped
      /\ o.edited /\ o.attempt = occ[s].attempt
  BY <1>2 DEF Occs
<1>5. edited = [w EXCEPT !.occ = O2]
  BY <1>3
<1>6. \A q \in Runs : /\ Shape(w.run[q]) /\ Busy(w.run[q]) = Busy(run[q]) /\ Beats(w.run[q]) = Beats(run[q])
                      /\ w.run[q].sched = run[q].sched /\ w.run[q].phase = run[q].phase
                      /\ w.run[q].launch = run[q].launch
                      /\ Waits(w.run[q]) => w.run[q] = run[q]
                      /\ w.run[q] # run[q] => run[q].sched = s /\ ~Waits(w.run[q])
  BY RevisedRuns
<1>7. CASE occ[s].pc = "off" \/ occ[s].edited
  <2>1. v = w
    BY <1>3, <1>7 DEF Overtaken
  <2>2. occ[s].pc # "wait" /\ (occ[s].pc = "off" => occ[s] = NoOcc) /\ (occ[s].pc = "off" => ~occ[s].edited)
    BY <1>2, <1>7 DEF OccOK, NoOcc
  <2>3. \A q \in Runs : ~occ[s].edited /\ w.run[q].phase = "preparing" => w.run[q].sched # s
    BY <1>2, <1>6, <1>7 DEF RunOK, Busy
  <2>5. Late(w.host, w.task, occ, w.run, {})
    <3> DEFINE p == occ[s]
    <3>1. /\ p \in Occs /\ p.pc = occ[s].pc /\ p.run = occ[s].run /\ p.stopped = occ[s].stopped
          /\ p.pc = "off" => p = NoOcc
          /\ occ[s].edited \/ p.pc = "try" => p.edited
      BY <1>4, <1>7, <2>2
    <3>2. {} \in SUBSET Runs /\ \A q \in Runs : ~occ[s].edited =>
             (w.run[q].phase = "preparing" /\ w.run[q].sched = s => q \in {})
      BY <2>3
    <3>3. occ \in [Schedules -> Occs] /\ occ[s] = p
      BY <1>2
    <3> HIDE DEF p
    <3> QED
      BY <2>2, <3>1, <3>2, <3>3, RevisedLate
  <2>6. Fine(v)
    BY <1>3, <2>1, <2>5 DEF Fine, Good
  <2>7. \A q \in Schedules : /\ occ[q].attempt \in Nat
                             /\ occ[q].edited \/ occ[q].stopped => occ[q].pc = "try"
    BY <1>1, NowFields, TriesOn
  <2>8. Kindly(Now, v)
    BY <1>3, <1>6, <2>1, <2>7, NowFields DEF Kindly
  <2> QED
    BY <2>6, <2>8
<1>8. CASE occ[s].pc = "wait" /\ ~occ[s].edited
  <2> DEFINE m == occ[s].run
             u == Waited(edited, m, bad)
  <2> HIDE DEF o, early
  <2>1. O2 \in [Schedules -> Occs] /\ O2[s] = o /\ \A q \in Schedules \ {s} : O2[q] = occ[q]
    BY <1>2, <1>4
  <2> HIDE DEF O2
  <2>2. edited \in Worlds /\ edited.host = "up" /\ edited.task = w.task /\ edited.run = w.run /\ edited.occ = O2
    BY <1>3, <1>5, <2>1 DEF Worlds
  <2>3. v = WaitCancelled(edited, s, bad)
    BY <1>3, <1>8 DEF Overtaken
  <2>4. v = Settle(u, s, "stopped")
    BY <1>4, <2>1, <2>2, <2>3 DEF WaitCancelled
  <2>5. /\ m \in Runs \cup {"none"} /\ task[s].status # "succeeded"
        /\ m # "none" => Waits(run[m]) /\ ~Busy(run[m]) /\ run[m].phase = "none" /\ run[m].sched = s
    BY <1>1, <1>8, NowFields, WaitFacts
  <2> HIDE DEF edited, m
  <2>6. /\ u \in Worlds /\ u.host = "up" /\ u.task = w.task /\ u.occ = O2
        /\ \A q \in Runs : q # m => u.run[q] = w.run[q]
        /\ m # "none" => /\ u.run[m].phase = "none" /\ u.run[m].row # "retrying" /\ Shape(u.run[m])
                         /\ u.run[m].launch \in {"none", "stale"}
    <3>1. m # "none" => Shape(edited.run[m]) /\ edited.run[m].phase = "none"
      BY <1>6, <2>2, <2>5
    <3> QED
      BY <2>2, <2>5, <3>1, WaitedFields
  <2> HIDE DEF u
  <2>7. \A q \in Runs : \/ u.run[q] = run[q]
                        \/ /\ ~Busy(run[q]) /\ (Waits(run[q]) => run[q].sched = s)
                           /\ ~Busy(u.run[q]) /\ ~Waits(u.run[q]) /\ Shape(u.run[q])
                           /\ Beats(u.run[q]) => Beats(run[q])
    <3> SUFFICES ASSUME NEW q \in Runs, u.run[q] # run[q]
                 PROVE  /\ ~Busy(run[q]) /\ (Waits(run[q]) => run[q].sched = s)
                        /\ ~Busy(u.run[q]) /\ ~Waits(u.run[q]) /\ Shape(u.run[q])
                        /\ Beats(u.run[q]) => Beats(run[q])
      OBVIOUS
    <3>1. CASE q = m
      <4>1. m # "none"
        BY <3>1, NamesAssumption
      <4> QED
        BY <2>5, <2>6, <3>1, <4>1 DEF Busy, Waits, Beats
    <3>2. CASE q # m
      <4>1. u.run[q] = w.run[q] /\ w.run[q] # run[q] /\ run[q].sched = s
        BY <1>6, <2>6, <3>2
      <4>2. ~Busy(run[q])
        BY <1>2, <1>8, <4>1 DEF RunOK
      <4> QED
        BY <1>6, <4>1, <4>2
    <3> QED
      BY <3>1, <3>2
  <2>8. Clear(u, s)
    <3> DEFINE O3 == Without(O2, s)
    <3>1. O3 \in [Schedules -> Occs] /\ O3[s] = NoOcc /\ \A q \in Schedules \ {s} : O3[q] = occ[q]
      BY <2>1, Typed DEF Without
    <3>2. TaskOK(w.task[s], NoOcc)
      BY DEF Revised, TaskOK, NoOcc
    <3>3. w.task \in [Schedules -> Tasks] /\ u.run \in [Runs -> Attempts]
      BY <1>3, <2>6 DEF Worlds
    <3>4. m # "none" => ~Waits(u.run[m])
      BY <2>6 DEF Waits
    <3> HIDE DEF O3
    <3>5. Good(host, w.task, O3, u.run)
      BY <1>2, <1>3, <1>8, <2>7, <3>1, <3>2, <3>3, <3>4, WaitOver DEF m
    <3> QED
      BY <2>6, <3>5 DEF Clear, O3
  <2>9. Fine(v)
    BY <2>4, <2>6, <2>8, SettleGood
  <2>10. /\ v \in Worlds /\ v.run = u.run /\ v.occ = Without(u.occ, s)
         /\ \A q \in Schedules \ {s} : v.task[q] = u.task[q]
    BY <2>4, <2>6, SettleFields
  <2>11. \A q \in Schedules \ {s} : v.occ[q] = occ[q] /\ v.task[q] = task[q]
    BY <1>3, <2>1, <2>6, <2>10 DEF Without
  <2>12. \A q \in Runs : v.run[q].launch \in {"start", "send", "resend"} => v.run[q].launch = run[q].launch
    BY <1>6, <2>5, <2>6, <2>10, NamesAssumption
  <2>13. Apart(Now, v, s)
    BY <2>10, <2>11, <2>12, NowFields DEF Apart
  <2>14. Kindly(Now, v)
    BY <1>1, <1>8, <2>13, NowFields, ApartKindly
  <2> QED
    BY <2>9, <2>14
<1>9. CASE occ[s].pc = "try" /\ ~occ[s].edited
  <2>1. v = StopAll(edited, early, bad)
    BY <1>3, <1>9 DEF Overtaken
  <2>2. Late(w.host, w.task, O2, w.run, early)
    <3>1. /\ occ[s].pc # "wait" /\ (o.pc = "off" => o = NoOcc) /\ (occ[s].edited \/ o.pc = "try" => o.edited)
          /\ early \in SUBSET Runs
          /\ ~occ[s].edited => \A q \in Runs : w.run[q].phase = "preparing" /\ w.run[q].sched = s => q \in early
      BY <1>4, <1>9
    <3> HIDE DEF o, early
    <3>2. O2 \in [Schedules -> Occs] /\ O2[s] = o /\ \A q \in Schedules \ {s} : O2[q] = occ[q]
      BY <1>2, <1>4
    <3> HIDE DEF O2
    <3> QED
      BY <1>4, <3>1, <3>2, RevisedLate
  <2> HIDE DEF o, early
  <2>3. O2 \in [Schedules -> Occs] /\ O2[s] = o /\ \A q \in Schedules \ {s} : O2[q] = occ[q]
    BY <1>2, <1>4
  <2> HIDE DEF O2
  <2>4. edited \in Worlds /\ edited.host = w.host /\ edited.task = w.task /\ edited.run = w.run /\ edited.occ = O2
    BY <1>3, <1>5, <2>3 DEF Worlds
  <2>5. early \in SUBSET Runs
    BY DEF early
  <2> HIDE DEF edited
  <2>6. /\ Fine(v) /\ v \in Worlds
        /\ \A q \in Schedules : \/ v.occ[q] = edited.occ[q] /\ v.task[q] = edited.task[q]
                                \/ v.occ[q] = NoOcc /\ v.task[q].status # "succeeded"
        /\ \A q \in Runs : v.run[q].launch = edited.run[q].launch \/ v.run[q].launch \in {"none", "stale"}
    BY <2>1, <2>2, <2>4, <2>5, StopAllGood
  <2>7. \A q \in Schedules : /\ occ[q].attempt \in Nat
                             /\ occ[q].edited \/ occ[q].stopped => occ[q].pc = "try"
    BY <1>1, NowFields, TriesOn
  <2>8. NoOcc.pc = "off" /\ NoOcc.attempt = 0
    BY DEF NoOcc
  <2>9. \A q \in Schedules :
           /\ occ[q].edited => v.occ[q].pc # "wait" /\ v.occ[q].attempt <= occ[q].attempt
           /\ occ[q].stopped => v.occ[q].pc # "wait" /\ (v.occ[q].pc = "off" => v.task[q].status # "succeeded")
    <3> SUFFICES ASSUME NEW q \in Schedules
                 PROVE  /\ occ[q].edited => v.occ[q].pc # "wait" /\ v.occ[q].attempt <= occ[q].attempt
                        /\ occ[q].stopped => /\ v.occ[q].pc # "wait"
                                             /\ v.occ[q].pc = "off" => v.task[q].status # "succeeded"
      OBVIOUS
    <3>1. edited.occ[q].pc = occ[q].pc /\ edited.occ[q].attempt = occ[q].attempt
      BY <1>4, <2>3, <2>4
    <3> QED
      BY <2>6, <2>7, <2>8, <3>1
  <2>10. \A q \in Runs : v.run[q].launch \in {"start", "send", "resend"} => v.run[q].launch = run[q].launch
    BY <1>6, <2>4, <2>6
  <2>11. Kindly(Now, v)
    BY <2>6, <2>9, <2>10, NowFields DEF Kindly
  <2> QED
    BY <2>6, <2>11
<1>10. occ[s].pc \in {"off", "try", "wait"}
  BY <1>4 DEF Occs
<1> QED
  BY <1>7, <1>8, <1>9, <1>10

\* The user edits or deletes a schedule.
LEMMA UpdateStep ==
    ASSUME IInv, NEW s \in Schedules, Update(s)
    PROVE  Step
<1>1. host = "up" /\ task[s].here /\ Now \in Worlds /\ Fine(Now)
  BY NowFields DEF Update, Running
<1>2. PICK e \in EditionsOf[s], bad \in Faults :
         Become(Overtaken([Now EXCEPT !.task[s].edition = e], s, bad)) /\ Spend(bad)
  BY DEF Update
<1>3. bad \in BOOLEAN /\ faults' \in 0 .. MaxFaults /\ target' \in BOOLEAN
  BY <1>2, Spent DEF Update, IInv
<1> DEFINE t == [task[s] EXCEPT !.edition = e]
           T2 == [task EXCEPT ![s] = t]
           w == [Now EXCEPT !.task[s].edition = e]
           v == Overtaken(w, s, bad)
<1>4. Become(v)
  BY <1>2
<1>5. task \in [Schedules -> Tasks] /\ TaskOK(task[s], occ[s])
  BY <1>1, NowFields, TypesOfFine
<1>6. e \in Editions
  BY EditionsAssumption
<1>7. t \in Tasks /\ t.here /\ t.edition = e /\ t.status = task[s].status
  <2>1. task[s] \in Tasks
    BY <1>5
  <2> QED
    BY <1>1, <1>6, <2>1 DEF Tasks
<1>8. w = [Now EXCEPT !.task = T2]
  BY <1>1, <1>5, NowFields DEF Worlds
<1> HIDE DEF t, v
<1>9. T2 \in [Schedules -> Tasks] /\ T2[s] = t /\ \A q \in Schedules \ {s} : T2[q] = task[q]
  BY <1>5, <1>7
<1> HIDE DEF T2
<1>10. w \in Worlds /\ w.host = host /\ w.task = T2 /\ w.occ = occ /\ w.run = run
  BY <1>1, <1>8, <1>9, NowFields DEF Worlds
<1> HIDE DEF w
<1>11. Revised(w, s)
  BY <1>1, <1>6, <1>7, <1>9, <1>10 DEF Revised
<1>12. Fine(v) /\ Kindly(Now, v)
  BY <1>1, <1>3, <1>11, OvertakenGood DEF v
<1> QED
  BY <1>3, <1>4, <1>12, Becomes DEF Step

LEMMA DeleteStep ==
    ASSUME IInv, NEW s \in Schedules, Delete(s)
    PROVE  Step
<1> DEFINE R2 == [r \in Runs |-> IF run[r].sched # s THEN run[r] ELSE [run[r] EXCEPT !.row = "none"]]
           w == [Now EXCEPT !.task[s] = NoTask, !.run = R2]
<1>1. host = "up" /\ task[s].here /\ Now \in Worlds /\ Fine(Now)
  BY NowFields DEF Delete, Running
<1>2. PICK bad \in Faults : Become(Overtaken(w, s, bad)) /\ Spend(bad)
  BY DEF Delete
<1>3. bad \in BOOLEAN /\ faults' \in 0 .. MaxFaults /\ target' \in BOOLEAN
  BY <1>2, Spent DEF Delete, IInv
<1> DEFINE T2 == [task EXCEPT ![s] = NoTask]
           v == Overtaken(w, s, bad)
<1>4. Become(v)
  BY <1>2
<1>5. task \in [Schedules -> Tasks] /\ run \in [Runs -> Attempts]
  BY <1>1, NowFields, TypesOfFine
<1>6. T2 \in [Schedules -> Tasks] /\ T2[s] = NoTask /\ \A q \in Schedules \ {s} : T2[q] = task[q]
  BY <1>5, Typed
<1>7. \A q \in Runs : LET x == [run[q] EXCEPT !.row = "none"]
                      IN /\ x \in Attempts /\ x.row = "none" /\ x.sched = run[q].sched
                         /\ x.edition = run[q].edition /\ x.phase = run[q].phase
                         /\ x.launch = run[q].launch /\ x.verdict = run[q].verdict
  <2> TAKE q \in Runs
  <2>1. run[q] \in Attempts
    BY <1>5
  <2> QED
    BY <2>1 DEF Attempts, Rows
<1>8. \A q \in Runs : /\ R2[q] \in Attempts
                      /\ run[q].sched # s => R2[q] = run[q]
                      /\ run[q].sched = s => /\ R2[q].row = "none" /\ R2[q].sched = s
                                             /\ R2[q].edition = run[q].edition /\ R2[q].phase = run[q].phase
                                             /\ R2[q].launch = run[q].launch /\ R2[q].verdict = run[q].verdict
  BY <1>5, <1>7
<1>9. R2 \in [Runs -> Attempts]
  BY <1>8
<1>10. w = [Now EXCEPT !.task = T2, !.run = R2]
  BY <1>1, <1>5, NowFields DEF Worlds
<1> HIDE DEF T2, R2, v
<1>11. w \in Worlds /\ w.host = host /\ w.task = T2 /\ w.occ = occ /\ w.run = R2
  BY <1>1, <1>6, <1>9, <1>10, NowFields DEF Worlds
<1> HIDE DEF w
<1>12. Revised(w, s)
  BY <1>1, <1>6, <1>8, <1>11 DEF Revised, NoTask
<1>13. Fine(v) /\ Kindly(Now, v)
  BY <1>1, <1>3, <1>12, OvertakenGood DEF v
<1> QED
  BY <1>3, <1>4, <1>13, Becomes DEF Step

\* Nothing that the two action properties speak of happens.
LEMMA StillKind ==
    ASSUME IInv, \A q \in Schedules : occ'[q] = occ[q],
           \A q \in Runs : run'[q].launch = run[q].launch \/ run'[q].launch \in {"none", "stale"}
    PROVE  Kind
<1>1. \A q \in Schedules : occ[q].attempt \in Nat /\ (occ[q].edited \/ occ[q].stopped => occ[q].pc = "try")
  <2> TAKE q \in Schedules
  <2>1. CASE Running
    BY <2>1, NowFields, TriesOn
  <2>2. CASE ~Running
    BY <2>2 DEF IInv, Ended, Running, NoOcc
  <2> QED
    BY <2>1, <2>2
<1> QED
  BY <1>1 DEF Kind

\* The waits are over, in a host that is closing.
LEMMA ClosingGood ==
    ASSUME IInv, host = "up", NEW bad \in BOOLEAN,
           NEW v, v = WaitsCancelled([Now EXCEPT !.host = "closing"], bad)
    PROVE  /\ v \in Worlds /\ v.task = task /\ Late(v.host, v.task, v.occ, v.run, Runs)
           /\ \A s \in Schedules : v.occ[s] = occ[s] \/ (occ[s].pc = "wait" /\ v.occ[s] = NoOcc)
           /\ \A r \in Runs : v.run[r].launch = run[r].launch \/ v.run[r].launch \in {"none", "stale"}
<1> DEFINE c == [Now EXCEPT !.host = "closing"]
           waiting == {s \in Schedules : c.occ[s].pc = "wait"}
           rows == {c.occ[s].run : s \in waiting} \ {"none"}
           R2 == [r \in Runs |-> IF r \in rows THEN Waited(c, r, bad).run[r] ELSE c.run[r]]
           O2 == [s \in Schedules |-> IF s \in waiting THEN NoOcc ELSE c.occ[s]]
<1>1. Now \in Worlds /\ Fine(Now)
  BY NowFields DEF Running
<1>2. /\ task \in [Schedules -> Tasks] /\ occ \in [Schedules -> Occs] /\ run \in [Runs -> Attempts]
      /\ \A r \in Runs : RunOK(occ, run[r], r)
      /\ \A q \in Schedules : TaskOK(task[q], occ[q]) /\ OccOK(host, run, occ[q], q)
      /\ OnlyOne(run)
  BY <1>1, NowFields, TypesOfFine
<1>3. c \in Worlds /\ c.host = "closing" /\ c.task = task /\ c.occ = occ /\ c.run = run
  BY <1>1, NowFields DEF Worlds, Hosts
<1>4. v = [c EXCEPT !.run = R2, !.occ = O2]
  BY Zenon DEF WaitsCancelled
<1> HIDE DEF c
<1>5. \A r \in rows : /\ r \in Runs /\ Waits(run[r]) /\ run[r].phase = "none" /\ Shape(run[r]) /\ r # "none"
  <2> SUFFICES ASSUME NEW s \in Schedules, occ[s].pc = "wait", NEW r, r = occ[s].run, r # "none"
               PROVE  r \in Runs /\ Waits(run[r]) /\ run[r].phase = "none" /\ Shape(run[r])
    BY <1>3
  <2>1. occ[s] \in Occs /\ OccOK(host, run, occ[s], s)
    BY <1>2
  <2>2. r \in Runs
    BY <2>1 DEF Occs
  <2>3. Waits(run[r]) /\ RunOK(occ, run[r], r)
    BY <1>2, <2>1, <2>2 DEF OccOK
  <2> QED
    BY <2>2, <2>3 DEF Waits, RunOK
<1>6. \A r \in Runs : Waits(run[r]) => r \in rows
  <2> SUFFICES ASSUME NEW r \in Runs, Waits(run[r]) PROVE r \in rows
    OBVIOUS
  <2>1. run[r].sched \in Schedules /\ occ[run[r].sched].pc = "wait" /\ occ[run[r].sched].run = r
    BY <1>2 DEF RunOK, Shape, Waits
  <2> QED
    BY <1>3, <2>1, NamesAssumption
<1>7. \A r \in rows : LET x == Waited(c, r, bad).run[r]
                      IN /\ x \in Attempts /\ x.phase = "none" /\ x.row # "retrying" /\ Shape(x)
                         /\ x.launch \in {"none", "stale"}
  <2> SUFFICES ASSUME NEW r \in rows, NEW u, u = Waited(c, r, bad)
               PROVE  /\ u.run[r] \in Attempts /\ u.run[r].phase = "none" /\ u.run[r].row # "retrying"
                      /\ Shape(u.run[r]) /\ u.run[r].launch \in {"none", "stale"}
    OBVIOUS
  <2>1. r \in Runs /\ r # "none" /\ Shape(c.run[r]) /\ c.run[r].phase = "none"
    BY <1>3, <1>5
  <2> HIDE DEF rows
  <2>2. /\ u \in Worlds
        /\ u.run[r].phase = "none" /\ u.run[r].row # "retrying" /\ Shape(u.run[r])
        /\ u.run[r].launch \in {"none", "stale"}
    BY <1>3, <2>1, WaitedFields
  <2> QED
    BY <2>1, <2>2 DEF Worlds
<1>8. /\ \A s \in Schedules : O2[s] = IF occ[s].pc = "wait" THEN NoOcc ELSE occ[s]
      /\ O2 \in [Schedules -> Occs]
  BY <1>2, <1>3, Typed
<1> HIDE DEF waiting, rows
<1>9. /\ \A r \in Runs : r \notin rows => R2[r] = run[r]
      /\ \A r \in rows : /\ R2[r] \in Attempts /\ R2[r].phase = "none" /\ R2[r].row # "retrying" /\ Shape(R2[r])
                         /\ R2[r].launch \in {"none", "stale"}
      /\ R2 \in [Runs -> Attempts]
  BY <1>2, <1>3, <1>5, <1>7
<1> HIDE DEF R2, O2
<1>10. v \in Worlds /\ v.host = "closing" /\ v.task = task /\ v.occ = O2 /\ v.run = R2
  BY <1>3, <1>4, <1>8, <1>9 DEF Worlds
<1>11. \A r \in Runs : /\ Busy(R2[r]) => R2[r] = run[r]
                       /\ ~Waits(R2[r]) /\ Shape(R2[r])
                       /\ Beats(R2[r]) => R2[r] = run[r]
                       /\ Busy(run[r]) => R2[r] = run[r]
  <2> SUFFICES ASSUME NEW r \in Runs
               PROVE  /\ Busy(R2[r]) => R2[r] = run[r]
                      /\ ~Waits(R2[r]) /\ Shape(R2[r])
                      /\ Beats(R2[r]) => R2[r] = run[r]
                      /\ Busy(run[r]) => R2[r] = run[r]
    OBVIOUS
  <2>1. CASE r \in rows
    BY <1>5, <1>9, <2>1 DEF Busy, Waits, Beats
  <2>2. CASE r \notin rows
    BY <1>2, <1>6, <1>9, <2>2 DEF RunOK
  <2> QED
    BY <2>1, <2>2
<1>12. \A r \in Runs : RunOK(O2, R2[r], r)
  <2> SUFFICES ASSUME NEW r \in Runs PROVE RunOK(O2, R2[r], r)
    OBVIOUS
  <2>1. CASE Busy(R2[r])
    <3>1. R2[r] = run[r] /\ RunOK(occ, run[r], r) /\ ~Waits(R2[r])
      BY <1>2, <1>11, <2>1
    <3>2. run[r].sched \in Schedules /\ occ[run[r].sched].pc = "try"
      BY <2>1, <3>1 DEF RunOK, Shape, Busy
    <3>3. O2[run[r].sched] = occ[run[r].sched]
      BY <1>8, <3>2
    <3> QED
      BY <3>1, <3>3 DEF RunOK
  <2>2. CASE ~Busy(R2[r])
    BY <1>11, <2>2 DEF RunOK, Busy
  <2> QED
    BY <2>1, <2>2
<1>13. \A s \in Schedules : TaskOK(task[s], O2[s]) /\ OccOK("closing", R2, O2[s], s)
  <2> SUFFICES ASSUME NEW s \in Schedules PROVE TaskOK(task[s], O2[s]) /\ OccOK("closing", R2, O2[s], s)
    OBVIOUS
  <2>1. TaskOK(task[s], occ[s]) /\ OccOK(host, run, occ[s], s)
    BY <1>2
  <2>2. CASE occ[s].pc = "wait"
    BY <1>8, <2>1, <2>2 DEF TaskOK, OccOK, NoOcc
  <2>3. CASE occ[s].pc # "wait"
    <3>1. O2[s] = occ[s]
      BY <1>8, <2>3
    <3>2. occ[s].pc = "try" => \E r \in Runs : Busy(R2[r]) /\ R2[r].sched = s
      BY <1>11, <2>1 DEF OccOK
    <3>3. occ[s].stopped => \A r \in Runs : Busy(R2[r]) /\ R2[r].sched = s
                              => R2[r].phase = "collecting" /\ R2[r].verdict = "stopped"
      BY <1>11, <2>1 DEF OccOK
    <3> QED
      BY <2>1, <2>3, <3>1, <3>2, <3>3 DEF OccOK
  <2> QED
    BY <2>2, <2>3
<1>14. OnlyOne(R2)
  BY <1>2, <1>11 DEF OnlyOne
<1>15. Late(v.host, v.task, v.occ, v.run, Runs)
  BY <1>2, <1>8, <1>9, <1>10, <1>12, <1>13, <1>14 DEF Late, Core
<1>16. \A r \in Runs : R2[r].launch = run[r].launch \/ R2[r].launch \in {"none", "stale"}
  BY <1>9
<1> QED
  BY <1>8, <1>10, <1>15, <1>16

\* The host closes.
LEMMA DisposeStep ==
    ASSUME IInv, Dispose
    PROVE  Step
<1>1. host = "up" /\ Now \in Worlds /\ Fine(Now)
  BY NowFields DEF Dispose, Running
<1>2. PICK bad \in Faults :
         Become(StopAll(WaitsCancelled([Now EXCEPT !.host = "closing"], bad), Runs, bad)) /\ Spend(bad)
  BY DEF Dispose
<1>3. bad \in BOOLEAN /\ faults' \in 0 .. MaxFaults /\ target' \in BOOLEAN
  BY <1>2, Spent DEF Dispose, IInv
<1> DEFINE y == WaitsCancelled([Now EXCEPT !.host = "closing"], bad)
           v == StopAll(y, Runs, bad)
<1>4. Become(v)
  BY <1>2
<1>5. /\ y \in Worlds /\ y.task = task /\ Late(y.host, y.task, y.occ, y.run, Runs)
      /\ \A s \in Schedules : y.occ[s] = occ[s] \/ (occ[s].pc = "wait" /\ y.occ[s] = NoOcc)
      /\ \A r \in Runs : y.run[r].launch = run[r].launch \/ y.run[r].launch \in {"none", "stale"}
  BY <1>1, <1>3, ClosingGood
<1> HIDE DEF y
<1>6. /\ Fine(v) /\ v \in Worlds
      /\ \A s \in Schedules : \/ v.occ[s] = y.occ[s] /\ v.task[s] = y.task[s]
                              \/ v.occ[s] = NoOcc /\ v.task[s].status # "succeeded"
      /\ \A r \in Runs : v.run[r].launch = y.run[r].launch \/ v.run[r].launch \in {"none", "stale"}
  BY <1>3, <1>5, StopAllGood
<1> HIDE DEF v
<1>7. \A q \in Schedules : /\ occ[q].attempt \in Nat
                           /\ occ[q].edited \/ occ[q].stopped => occ[q].pc = "try"
  BY <1>1, NowFields, TriesOn
<1>8. NoOcc.pc = "off" /\ NoOcc.attempt = 0
  BY DEF NoOcc
<1>9. Kindly(Now, v)
  <2>1. \A q \in Schedules :
           /\ occ[q].edited => v.occ[q].pc # "wait" /\ v.occ[q].attempt <= occ[q].attempt
           /\ occ[q].stopped => v.occ[q].pc # "wait" /\ (v.occ[q].pc = "off" => v.task[q].status # "succeeded")
    BY <1>5, <1>6, <1>7, <1>8
  <2>2. \A q \in Runs : v.run[q].launch \in {"start", "send", "resend"} => v.run[q].launch = run[q].launch
    BY <1>5, <1>6
  <2> QED
    BY <1>6, <2>1, <2>2, NowFields DEF Kindly
<1> QED
  BY <1>3, <1>4, <1>6, <1>9, Becomes DEF Step

\* The remaining actions.
LEMMA CreateStep ==
    ASSUME IInv, NEW s \in Schedules, Create(s)
    PROVE  Step
<1>1. host = "up" /\ occ[s].pc = "off" /\ Now \in Worlds /\ Fine(Now)
  BY NowFields DEF Create, Running
<1>2. PICK e \in EditionsOf[s] : task' = [task EXCEPT ![s] = New(e)]
  BY DEF Create
<1>3. e \in Editions
  BY EditionsAssumption
<1>4. New(e) \in Tasks /\ TaskOK(New(e), NoOcc)
  BY <1>3 DEF New, Tasks, TaskOK, NoOcc
<1>5. task \in [Schedules -> Tasks] /\ occ[s] = NoOcc /\ Late(host, task, occ, run, {})
  BY <1>1, NowFields, TypesOfFine DEF Fine, Good, OccOK
<1>6. task' \in [Schedules -> Tasks] /\ task'[s] = New(e) /\ \A q \in Schedules \ {s} : task'[q] = task[q]
  BY <1>2, <1>4, <1>5
<1>7. Late(host, task', occ, run, {})
  BY <1>4, <1>5, <1>6, PatchRow
<1>8. host' = host /\ occ' = occ /\ run' = run /\ target' = target /\ faults' = faults
  BY DEF Create
<1>9. IInv'
  BY <1>1, <1>7, <1>8 DEF IInv, Good
<1>10. Kind
  BY <1>8, StillKind
<1> QED
  BY <1>9, <1>10 DEF Step

LEMMA TargetChangesStep ==
    ASSUME IInv, TargetChanges
    PROVE  Step
<1>1. host' = host /\ task' = task /\ occ' = occ /\ run' = run /\ faults' = faults /\ target' \in BOOLEAN
  BY DEF TargetChanges, IInv
<1>2. IInv'
  BY <1>1 DEF IInv, Ended
<1>3. Kind
  BY <1>1, StillKind
<1> QED
  BY <1>2, <1>3 DEF Step

LEMMA CloseStep ==
    ASSUME IInv, Close
    PROVE  Step
<1>1. host = "closing" /\ Joined /\ Now \in Worlds /\ Fine(Now)
  BY NowFields DEF Close, Running
<1>2. PICK bad \in Faults :
         /\ IF Kept(Now) # {} /\ bad THEN UNCHANGED <<host, run>>
            ELSE host' = "closed" /\ run' = Recorded(Now).run
         /\ Spend(bad)
  BY DEF Close
<1>3. faults' \in 0 .. MaxFaults /\ target' \in BOOLEAN /\ task' = task /\ occ' = occ
  BY <1>2, Spent DEF Close, IInv
<1>4. CASE host' = host /\ run' = run
  <2>1. IInv'
    BY <1>1, <1>3, <1>4 DEF IInv
  <2>2. Kind
    BY <1>3, <1>4, StillKind
  <2> QED
    BY <2>1, <2>2 DEF Step
<1>5. CASE host' = "closed" /\ run' = Recorded(Now).run
  <2>1. /\ task \in [Schedules -> Tasks] /\ occ \in [Schedules -> Occs] /\ run \in [Runs -> Attempts]
        /\ \A r \in Runs : RunOK(occ, run[r], r)
        /\ \A s \in Schedules : TaskOK(task[s], occ[s]) /\ OccOK(host, run, occ[s], s)
    BY <1>1, NowFields, TypesOfFine
  <2>2. \A r \in Runs : /\ run[r].launch = "none" /\ run[r].phase \in {"none", "kept"}
                        /\ run'[r] = IF run[r].phase = "kept" THEN Rest(Now, r) ELSE run[r]
    BY <1>1, <1>5, NowFields, RecordedFields DEF Joined
  <2>3. \A r \in Runs : /\ Rest(Now, r).phase = "none" /\ Rest(Now, r).row = "none"
                        /\ Rest(Now, r).launch = "none"
    BY <1>1, <2>2, NowFields, RestFields
  <2>4. \A s \in Schedules : occ[s] = NoOcc
    <3> TAKE s \in Schedules
    <3>1. occ[s] \in Occs /\ OccOK(host, run, occ[s], s)
      BY <2>1
    <3>2. occ[s].pc # "try"
      BY <2>2, <3>1 DEF OccOK, Busy
    <3> QED
      BY <1>1, <3>1, <3>2 DEF OccOK, Occs
  <2>5. \A r \in Runs : run[r].phase = "none" => run[r].row \in {"none", "lost"}
    <3> SUFFICES ASSUME NEW r \in Runs, run[r].phase = "none" PROVE run[r].row \in {"none", "lost"}
      OBVIOUS
    <3>1. run[r] \in Attempts /\ RunOK(occ, run[r], r)
      BY <2>1
    <3>2. ~Waits(run[r])
      BY <2>4, <3>1 DEF RunOK, Shape, Waits, NoOcc
    <3> QED
      BY <3>1, <3>2 DEF RunOK, Shape, Waits, Attempts, Rows
  <2>6. \A r \in Runs : run'[r].phase = "none" /\ run'[r].launch = "none" /\ run'[r].row \in {"none", "lost"}
    BY <2>2, <2>3, <2>5
  <2>7. run' \in [Runs -> Attempts]
    BY <1>1, <1>5, RecordedFields DEF Worlds
  <2>8. IInv'
    BY <1>3, <1>5, <2>1, <2>4, <2>6, <2>7 DEF IInv, Ended
  <2>9. Kind
    BY <1>3, <2>6, StillKind
  <2> QED
    BY <2>8, <2>9 DEF Step
<1> QED
  BY <1>2, <1>4, <1>5

LEMMA CrashStep ==
    ASSUME IInv, Crash
    PROVE  Step
<1>1. host \in {"up", "closing"} /\ Now \in Worlds /\ Fine(Now)
  BY NowFields DEF Crash, Running
<1>2. /\ task \in [Schedules -> Tasks] /\ occ \in [Schedules -> Occs] /\ run \in [Runs -> Attempts]
      /\ \A s \in Schedules : TaskOK(task[s], occ[s])
  BY <1>1, NowFields, TypesOfFine
<1>3. /\ host' = "down" /\ task' = task /\ target' = target /\ faults' = faults
      /\ \A s \in Schedules : occ'[s] = NoOcc
      /\ occ' = [s \in Schedules |-> NoOcc]
      /\ run' = [r \in Runs |-> IF run[r].row = "none" THEN NoRun
                                ELSE [NoRun EXCEPT !.sched = run[r].sched, !.row = run[r].row]]
  BY DEF Crash
<1>4. \A r \in Runs : LET x == [NoRun EXCEPT !.sched = run[r].sched, !.row = run[r].row]
                      IN x \in Attempts /\ x.phase = "none" /\ x.launch = "none"
  <2> TAKE r \in Runs
  <2>1. run[r] \in Attempts /\ NoRun \in Attempts
    BY <1>2, Typed
  <2> QED
    BY <2>1 DEF Attempts, NoRun
<1>5. NoRun \in Attempts /\ NoRun.phase = "none" /\ NoRun.launch = "none"
  BY Typed DEF NoRun
<1>6. /\ run' \in [Runs -> Attempts]
      /\ \A r \in Runs : run'[r].phase = "none" /\ run'[r].launch = "none"
  BY <1>3, <1>4, <1>5
<1>7. occ' \in [Schedules -> Occs]
  BY <1>3, Typed
<1>8. \A s \in Schedules : TaskOK(task[s], NoOcc)
  BY <1>2 DEF TaskOK, NoOcc
<1>9. IInv'
  BY <1>2, <1>3, <1>6, <1>7, <1>8 DEF IInv, Ended
<1>10. \A q \in Schedules : /\ occ[q].attempt \in Nat
                            /\ occ[q].edited \/ occ[q].stopped => occ[q].pc = "try"
  BY <1>1, NowFields, TriesOn
<1>11. Kind
  <2>1. \A q \in Schedules : occ'[q].pc = "off" /\ occ'[q].attempt = 0 /\ task'[q] = task[q]
    BY <1>3 DEF NoOcc
  <2>2. \A q \in Schedules : occ[q].pc # "off" => task[q].status # "succeeded"
    BY <1>2 DEF TaskOK
  <2> QED
    BY <1>6, <1>10, <2>1, <2>2 DEF Kind
<1> QED
  BY <1>9, <1>11 DEF Step

LEMMA BootStep ==
    ASSUME IInv, Boot
    PROVE  Step
<1>1. Ended /\ host' = "up" /\ occ' = occ /\ target' = target /\ target' \in BOOLEAN
  BY DEF Boot, IInv
<1>2. PICK bad \in Faults :
         /\ run' = [r \in Runs |->
                      IF ~Sweep(run[r].row) THEN run[r]
                      ELSE IF bad THEN [run[r] EXCEPT !.row = "lost"] ELSE NoRun]
         /\ task' = [s \in Schedules |->
                       IF task[s].status = "running" /\ ~bad
                       THEN [task[s] EXCEPT !.status = "other"] ELSE task[s]]
         /\ Spend(bad)
  BY DEF Boot
<1>3. faults' \in 0 .. MaxFaults
  BY <1>2, Spent
<1>4. \A r \in Runs : /\ run'[r] \in Attempts /\ run'[r].phase = "none" /\ run'[r].launch = "none"
                      /\ run'[r].row \in {"none", "lost"}
  <2> TAKE r \in Runs
  <2>1. run[r] \in Attempts /\ run[r].phase = "none" /\ run[r].launch = "none"
    BY <1>1 DEF Ended
  <2>2. LET x == [run[r] EXCEPT !.row = "lost"]
        IN x \in Attempts /\ x.phase = "none" /\ x.launch = "none" /\ x.row = "lost"
    BY <2>1 DEF Attempts, Rows
  <2>3. NoRun \in Attempts /\ NoRun.phase = "none" /\ NoRun.launch = "none" /\ NoRun.row = "none"
    BY Typed DEF NoRun
  <2>4. ~Sweep(run[r].row) => run[r].row = "none"
    BY <2>1 DEF Sweep, Attempts, Rows
  <2>5. run'[r] = IF ~Sweep(run[r].row) THEN run[r]
                  ELSE IF bad THEN [run[r] EXCEPT !.row = "lost"] ELSE NoRun
    BY <1>2
  <2> HIDE DEF Sweep
  <2> QED
    BY <2>1, <2>2, <2>3, <2>4, <2>5
<1>5. \A s \in Schedules : task'[s] \in Tasks /\ TaskOK(task'[s], NoOcc)
  <2> TAKE s \in Schedules
  <2>1. task[s] \in Tasks /\ TaskOK(task[s], NoOcc)
    BY <1>1 DEF Ended
  <2>2. LET t == [task[s] EXCEPT !.status = "other"]
        IN t \in Tasks /\ t.here = task[s].here /\ t.edition = task[s].edition /\ t.status = "other"
    BY <2>1 DEF Tasks
  <2>3. task'[s] = IF task[s].status = "running" /\ ~bad
                   THEN [task[s] EXCEPT !.status = "other"] ELSE task[s]
    BY <1>2
  <2> QED
    BY <2>1, <2>2, <2>3 DEF TaskOK, NoOcc
<1>6. run' \in [Runs -> Attempts] /\ task' \in [Schedules -> Tasks]
  BY <1>2, <1>4, <1>5
<1>7. occ \in [Schedules -> Occs] /\ \A s \in Schedules : occ[s] = NoOcc
  BY <1>1 DEF Ended
<1>8. \A r \in Runs : RunOK(occ, run'[r], r) /\ Timely("up", occ, run'[r]) /\ ~Beats(run'[r]) /\ ~Busy(run'[r])
  <2> TAKE r \in Runs
  <2>1. run'[r].phase = "none" /\ run'[r].launch = "none" /\ run'[r].row \in {"none", "lost"}
    BY <1>4
  <2> QED
    BY <2>1 DEF RunOK, Shape, Busy, Waits, Timely, Beats, Unsettled
<1>9. \A s \in Schedules : TaskOK(task'[s], occ[s]) /\ OccOK("up", run', occ[s], s)
  <2> TAKE s \in Schedules
  <2>1. occ[s] = NoOcc /\ TaskOK(task'[s], NoOcc)
    BY <1>5, <1>7
  <2>2. OccOK("up", run', NoOcc, s)
    BY DEF OccOK, NoOcc
  <2> QED
    BY <2>1, <2>2
<1>10. OnlyOne(run')
  BY <1>8 DEF OnlyOne
<1>11. Good(host', task', occ', run')
  BY <1>1, <1>6, <1>7, <1>8, <1>9, <1>10 DEF Good, Late, Core
<1>12. IInv'
  BY <1>1, <1>3, <1>11 DEF IInv
<1>13. Kind
  BY <1>1, <1>4, StillKind
<1> QED
  BY <1>12, <1>13 DEF Step

\* Every step keeps the invariant and the two action properties.
LEMMA NextStep ==
    ASSUME IInv, [ScheduleNext]_scheduleVars
    PROVE  Step
<1>1. CASE UNCHANGED scheduleVars
  <2>1. host' = host /\ task' = task /\ occ' = occ /\ run' = run /\ faults' = faults /\ target' = target
    BY <1>1 DEF scheduleVars
  <2>2. IInv'
    BY <2>1 DEF IInv, Ended
  <2>3. Kind
    BY <2>1, StillKind
  <2> QED
    BY <2>2, <2>3 DEF Step
<1>2. ASSUME NEW s \in Schedules, StartRun(s) \/ RetryFires(s) \/ CancelRetry(s) \/ Update(s) \/ Delete(s) \/ Create(s)
      PROVE  Step
  BY <1>2, StartRunStep, RetryFiresStep, CancelRetryStep, UpdateStep, DeleteStep, CreateStep
<1>3. ASSUME NEW r \in Runs, LaunchStep(r) PROVE Step
  BY <1>3, LaunchAbandonedStep, LaunchFailsStep, ConfigReadyStep, CursorReadStep, CallReturnsStep,
     ReviveStep, ResendStep DEF LaunchStep
<1>4. ASSUME NEW r \in Runs, TurnActive(r) \/ TurnEnds(r) \/ Exited(r) \/ TimeLimit(r) \/ Collected(r)
                             \/ Evaluated(r) \/ CancelRun(r)
      PROVE  Step
  BY <1>4, TurnActiveStep, TurnEndsStep, ExitedStep, TimeLimitStep, CollectedStep, EvaluatedStep, CancelRunStep
<1>5. CASE SupervisorReset \/ TargetChanges \/ Dispose \/ Close \/ Crash \/ Boot
  BY <1>5, SupervisorResetStep, TargetChangesStep, DisposeStep, CloseStep, CrashStep, BootStep
<1> QED
  BY <1>1, <1>2, <1>3, <1>4, <1>5 DEF ScheduleNext

\* It holds at first.
LEMMA InitGood == ScheduleInit => IInv
<1> SUFFICES ASSUME ScheduleInit PROVE IInv
  OBVIOUS
<1>1. PICK e \in [Schedules -> Editions] : task = [s \in Schedules |-> New(e[s])]
  BY DEF ScheduleInit
<1>2. \A s \in Schedules : task[s] \in Tasks /\ TaskOK(task[s], NoOcc)
  BY <1>1 DEF New, Tasks, TaskOK, NoOcc
<1>3. /\ host = "up" /\ target = TRUE /\ faults = 0
      /\ occ = [s \in Schedules |-> NoOcc] /\ run = [r \in Runs |-> NoRun]
  BY DEF ScheduleInit
<1>4. task \in [Schedules -> Tasks] /\ occ \in [Schedules -> Occs] /\ run \in [Runs -> Attempts]
  BY <1>1, <1>2, <1>3, Typed
<1>5. RunOK(occ, NoRun, "x") /\ Timely("up", occ, NoRun) /\ ~Beats(NoRun) /\ ~Busy(NoRun) /\ ~Waits(NoRun)
      /\ Shape(NoRun) /\ NoRun.phase = "none"
  BY DEF NoRun, RunOK, Shape, Busy, Waits, Timely, Beats, Unsettled
<1>6. \A r \in Runs : RunOK(occ, run[r], r) /\ Timely("up", occ, run[r])
  BY <1>3, <1>5 DEF RunOK
<1>7. \A s \in Schedules : TaskOK(task[s], occ[s]) /\ OccOK("up", run, occ[s], s)
  BY <1>2, <1>3 DEF OccOK, NoOcc
<1>8. OnlyOne(run)
  BY <1>3, <1>5 DEF OnlyOne
<1>9. Good(host, task, occ, run)
  BY <1>3, <1>4, <1>6, <1>7, <1>8 DEF Good, Late, Core
<1> QED
  BY <1>3, <1>9, AttemptsAssumption DEF IInv

\* It implies what the run checks.
LEMMA NothingLeft == IInv => NoRunLeftAlone
<1> SUFFICES ASSUME IInv PROVE NoRunLeftAlone
  OBVIOUS
<1>1. host = "closed" => \A r \in Runs : run[r].row \in {"none", "lost"}
  BY DEF IInv, Ended
<1>2. ASSUME Running
      PROVE  /\ \A r \in Runs : run[r].row \in {"open", "retrying"} /\ ~Held(r) =>
                  run[r].row = "retrying" /\ occ[run[r].sched].run = r /\ occ[run[r].sched].pc = "wait"
             /\ \A s \in Schedules : Cardinality(MineOf(s)) = IF occ[s].pc = "try" THEN 1 ELSE 0
             /\ \A r, q \in Runs :
                  Held(r) /\ Held(q) /\ {run[r].edition, run[q].edition} \subseteq Heartbeats => r = q
             /\ \A r \in Runs : run[r].phase \in {"preparing", "resuming"} =>
                  run[r].launch # "none" \/ (run[r].phase = "resuming" /\ occ[run[r].sched].edited)
  <2>1. /\ \A r \in Runs : RunOK(occ, run[r], r)
        /\ \A s \in Schedules : OccOK(host, run, occ[s], s)
        /\ OnlyOne(run)
    BY <1>2, NowFields, TypesOfFine
  <2>2. \A r \in Runs : run[r].row \in {"open", "retrying"} /\ ~Held(r) =>
           run[r].row = "retrying" /\ occ[run[r].sched].run = r /\ occ[run[r].sched].pc = "wait"
    BY <2>1 DEF RunOK, Shape, Waits, Held
  <2>3. \A s \in Schedules : Cardinality(MineOf(s)) = IF occ[s].pc = "try" THEN 1 ELSE 0
    <3> TAKE s \in Schedules
    <3>1. \A r \in Runs : r \in MineOf(s) <=> Busy(run[r]) /\ run[r].sched = s
      BY DEF MineOf, Busy
    <3>2. MineOf(s) \subseteq Runs
      BY DEF MineOf
    <3>3. CASE occ[s].pc = "try"
      <4>1. PICK r \in Runs : Busy(run[r]) /\ run[r].sched = s
        BY <2>1, <3>3 DEF OccOK
      <4>2. \A q \in MineOf(s) : q = r
        BY <2>1, <3>1, <3>2, <4>1 DEF OnlyOne
      <4>3. MineOf(s) = {r}
        BY <3>1, <4>1, <4>2
      <4> QED
        BY <3>3, <4>3, FS_Singleton
    <3>4. CASE occ[s].pc # "try"
      <4>1. MineOf(s) = {}
        BY <2>1, <3>1, <3>2, <3>4 DEF RunOK
      <4> QED
        BY <3>4, <4>1, FS_EmptySet
    <3> QED
      BY <3>3, <3>4
  <2>4. \A r, q \in Runs : Held(r) /\ Held(q) /\ {run[r].edition, run[q].edition} \subseteq Heartbeats => r = q
    BY <2>1 DEF OnlyOne, Beats, Held
  <2>5. \A r \in Runs : run[r].phase \in {"preparing", "resuming"} =>
           run[r].launch # "none" \/ (run[r].phase = "resuming" /\ occ[run[r].sched].edited)
    BY <2>1 DEF RunOK, Shape
  <2> QED
    BY <2>2, <2>3, <2>4, <2>5
<1> QED
  BY <1>1, <1>2 DEF NoRunLeftAlone, Running

LEMMA TypesHold == IInv => ScheduleTypeOK
<1> SUFFICES ASSUME IInv PROVE ScheduleTypeOK
  OBVIOUS
<1>1. /\ task \in [Schedules -> Tasks] /\ occ \in [Schedules -> Occs] /\ run \in [Runs -> Attempts]
      /\ host \in {"up", "closing", "closed", "down"}
  BY TypesOfLate DEF IInv, Ended, Good
<1> QED
  BY <1>1 DEF ScheduleTypeOK, IInv, Tasks, Occs, Attempts

(***************************************************************************)
(* Scheduled runs: the theorems.                                           *)
(***************************************************************************)

\* The inductive invariant of ScheduleService and ScheduleRunCoordinator holds:
\* schedules, occurrences, attempts and rows agree, whatever is edited, cancelled,
\* stopped, crashes or cannot be written between two awaits.
THEOREM SchedulesInductive == ScheduleSpec => []IInv
<1>1. IInv /\ [ScheduleNext]_scheduleVars => IInv'
  BY NextStep DEF Step
<1> QED
  BY <1>1, InitGood, PTL DEF ScheduleSpec

\* No run is left to itself: every row that is shown as active, every occurrence
\* and the heartbeat conversation have one owner, for any number of schedules, of
\* attempts and of failing writes.
THEOREM NoRunIsLeftAlone == ScheduleSpec => [](ScheduleTypeOK /\ NoRunLeftAlone)
BY SchedulesInductive, NothingLeft, TypesHold, PTL

\* After an edit or a deletion the earlier edition makes no further attempt, and a
\* prompt is sent only for the schedule and the conversation of that moment.
THEOREM EditsAlwaysWin == ScheduleSpec => EditsWin
<1>1. IInv /\ [ScheduleNext]_scheduleVars =>
        [/\ \A s \in Schedules : occ[s].edited => occ'[s].pc # "wait" /\ occ'[s].attempt <= occ[s].attempt
         /\ \A r \in Runs : run'[r].launch \in {"start", "send", "resend"} /\ run[r].launch # run'[r].launch =>
              Admitted(r) /\ TargetUsable(r)]_scheduleVars
  BY NextStep DEF Step, Kind
<1> QED
  BY <1>1, SchedulesInductive, PTL DEF ScheduleSpec, EditsWin

\* A run that the user cancelled (ScheduleRunCoordinator.cancelRun) is not retried
\* and its occurrence not reported as a success.
THEOREM CancelsAreHonoured == ScheduleSpec => CancelIsHonoured
<1>1. IInv /\ [ScheduleNext]_scheduleVars =>
        [\A s \in Schedules : occ[s].stopped =>
           occ'[s].pc # "wait" /\ (occ'[s].pc = "off" => task'[s].status # "succeeded")]_scheduleVars
  BY NextStep DEF Step, Kind
<1> QED
  BY <1>1, SchedulesInductive, PTL DEF ScheduleSpec, CancelIsHonoured
=============================================================================

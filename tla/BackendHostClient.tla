------------------------- MODULE BackendHostClient -------------------------
(***************************************************************************)
(* The desktop main process's side of its backend child                    *)
(* (main/backend/BackendHostClient.ts): fork, bounded initialization with  *)
(* retries, retirement (SIGTERM, SIGKILL, join on the exit), the supervisor *)
(* start that every generation owes, and disposal.                         *)
(*                                                                         *)
(* The class runs on one event loop: an action is one callback together    *)
(* with the promise continuations that settle before the next callback.    *)
(* Only the continuations of waiting callers are steps of their own        *)
(* (`resumed`), and nothing else runs while one is due.                    *)
(***************************************************************************)
EXTENDS Naturals, FiniteSets

CONSTANTS
    Slots,          \* names for child processes; a name is reused once nothing refers to it
    None,           \* null
    Callers,        \* callers of startSupervisor, restartSupervisor and of procedures
    MaxFailures,    \* MAX_INITIALIZATION_FAILURES
    AsyncForkErrors \* TRUE: fork may return a handle and fail with an 'error' event only

ASSUME SlotAssumption == None \notin Slots
ASSUME FailureAssumption == MaxFailures \in Nat \ {0}
ASSUME ForkAssumption == AsyncForkErrors \in BOOLEAN

VARIABLES
    proc,       \* the operating system's view of each child
    child,      \* this.child
    retiring,   \* this.retiringChild
    joining,    \* this.retirementPromise is in flight
    dismissed,  \* this.dismissedChild
    attempt,    \* initialization attempt of each child
    ready,      \* initializationSucceeded
    failures,   \* initializationFailures
    fatal,      \* fatalInitializationError is set
    timer,      \* restartTimer is armed
    disposal,   \* disposeAsync: "no", "draining", "joining", "open" (retryable), "done"
    caller,     \* the callers' requests
    resumed,    \* callers, or the respawn hook None, whose continuation is due
    wanted,     \* supervisorStarted
    flight,     \* supervisorStartFlightChild
    starts      \* start-supervisor requests sent to the child, less the failed ones

clientVars == <<proc, child, retiring, joining, dismissed, attempt, ready, failures, fatal,
          timer, disposal, caller, resumed, wanted, flight, starts>>
handles == <<child, retiring, joining, dismissed>>
recovery == <<ready, failures, fatal, timer>>
supervisor == <<wanted, flight, starts>>

Disposed == disposal # "no"
Alive(c) == c # None /\ proc[c] = "alive"

\* A name no handle refers to any more.
UnusedName(c) == proc[c] = "free" /\ c \notin {child, retiring, dismissed, flight}

SettleWaiters(from, to) ==
    caller' = [r \in Callers |-> IF caller[r].at = from THEN [caller[r] EXCEPT !.at = to]
                                 ELSE caller[r]]

ClientInit ==
    /\ \E c \in Slots :
        /\ proc = [d \in Slots |-> IF d = c THEN "alive" ELSE "free"]
        /\ attempt = [d \in Slots |-> IF d = c THEN "pending" ELSE "none"]
        /\ child = c
    /\ retiring = None /\ joining = FALSE /\ dismissed = None
    /\ ready = FALSE /\ failures = 0 /\ fatal = FALSE /\ timer = FALSE
    /\ disposal = "no"
    /\ caller = [r \in Callers |-> [op |-> "call", at |-> "idle"]]
    /\ resumed = {}
    /\ wanted = FALSE /\ flight = None
    /\ starts = [c \in Slots |-> 0]

-----------------------------------------------------------------------------
(* Recovery bookkeeping shared by the handlers.                            *)

\* scheduleSpawnRetry() with the handles the handler leaves behind.
MayRespawn(c, r) == ~Disposed /\ ~fatal /\ c = None /\ r = None

\* The failure being counted is the last one recovery allows.
LastAttempt == failures + 1 >= MaxFailures

\* Fault: giving up forgets the parked callers.
CountFailureSilently(c, r) ==
    /\ failures' = failures + 1
    /\ UNCHANGED caller
    /\ IF LastAttempt
       THEN fatal' = TRUE /\ timer' = FALSE
       ELSE /\ timer' = IF MayRespawn(c, r) THEN TRUE ELSE timer
            /\ UNCHANGED fatal

\* countInitializationFailureAndRecover(): retry, or give up for good.
CountFailure(c, r) ==
    /\ failures' = failures + 1
    /\ IF LastAttempt
       THEN fatal' = TRUE /\ timer' = FALSE /\ SettleWaiters("parked", "refused")
       ELSE /\ timer' = IF MayRespawn(c, r) THEN TRUE ELSE timer
            /\ UNCHANGED <<fatal, caller>>

\* awaitProcessTermination() of a handle without a process returns at once.
BeginRetire(c) ==
    IF proc[c] = "alive"
    THEN retiring' = c /\ joining' = TRUE
    ELSE retiring' = None /\ joining' = FALSE

-----------------------------------------------------------------------------
(* spawn()                                                                 *)

Forked(c, state) ==
    /\ UnusedName(c)
    /\ proc' = [proc EXCEPT ![c] = state]
    /\ attempt' = [attempt EXCEPT ![c] = "pending"]
    /\ starts' = [starts EXCEPT ![c] = 0]
    /\ child' = c
    /\ UNCHANGED <<failures, fatal, caller>>

ForkThrows ==
    /\ CountFailure(None, retiring)
    /\ UNCHANGED <<proc, attempt, starts, child>>

\* The restart timer fires: spawn, unless a predecessor's exit is unconfirmed.
TimerFires ==
    /\ timer
    /\ resumed = {}
    /\ IF ~Disposed /\ child = None /\ retiring = None
       THEN \/ timer' = FALSE /\ \E c \in Slots : Forked(c, "alive")
            \/ timer' = FALSE /\ AsyncForkErrors /\ \E c \in Slots : Forked(c, "failed")
            \/ ForkThrows
       ELSE timer' = FALSE /\ UNCHANGED <<proc, attempt, starts, child, failures, fatal, caller>>
    /\ UNCHANGED <<retiring, joining, dismissed, ready, disposal, resumed, wanted, flight>>

-----------------------------------------------------------------------------
(* The initialization attempt of the current child.                        *)

InitializeSucceeds(c) ==
    /\ resumed = {}
    /\ child = c /\ Alive(c) /\ attempt[c] = "pending" /\ ~Disposed
    /\ attempt' = [attempt EXCEPT ![c] = "done"]
    /\ ready' = TRUE
    /\ failures' = 0
    /\ SettleWaiters("parked", "resumed")
    /\ resumed' = {r \in Callers : caller[r].at = "parked"} \cup (IF wanted THEN {None} ELSE {})
    /\ UNCHANGED <<proc, handles, fatal, timer, disposal, supervisor>>

\* Fault: the failed child is only signalled, its handle is dropped at once.
InitializeFailsDropping(c) ==
    /\ resumed = {}
    /\ child = c /\ attempt[c] = "pending" /\ ~Disposed
    /\ attempt' = [attempt EXCEPT ![c] = "done"]
    /\ child' = None
    /\ CountFailure(None, retiring)
    /\ UNCHANGED <<proc, retiring, joining, dismissed, ready, disposal, resumed, supervisor>>

\* handleInitializationFailure(): a failure reply, a wrong acknowledgement or
\* the deadline.  The child is dismissed and retired, the failure is counted.
InitializeFails(c) ==
    /\ resumed = {}
    /\ child = c /\ attempt[c] = "pending" /\ ~Disposed
    /\ attempt' = [attempt EXCEPT ![c] = "done"]
    /\ dismissed' = c
    /\ BeginRetire(c)
    /\ CountFailure(c, retiring)
    /\ UNCHANGED <<proc, child, ready, disposal, resumed, supervisor>>

\* The IPC channel failed for good: retire the child; a pending attempt fails
\* with it, and so does a start in flight.
ChannelFails(c) ==
    /\ resumed = {}
    /\ child = c /\ ~Disposed /\ ~joining
    /\ BeginRetire(c)
    /\ attempt' = [attempt EXCEPT ![c] = "done"]
    /\ IF attempt[c] = "pending"
       THEN dismissed' = c /\ CountFailure(c, retiring)
       ELSE UNCHANGED <<dismissed, failures, fatal, timer, caller>>
    /\ UNCHANGED <<proc, child, ready, disposal, resumed, supervisor>>

-----------------------------------------------------------------------------
(* The end of a process.                                                   *)

\* Fault: the exit of a dismissed child does not release the respawn.
CurrentExitsQuietly(c) ==
    /\ child = c
    /\ child' = None
    /\ ready' = FALSE
    /\ IF ~Disposed /\ attempt[c] = "pending"
       THEN CountFailure(None, None)
       ELSE UNCHANGED <<failures, fatal, timer, caller>>
    /\ flight' = IF flight = c THEN None ELSE flight

\* handleExit() of the current child, with the rejection of its attempt.
CurrentExits(c) ==
    /\ child = c
    /\ child' = None
    /\ ready' = FALSE
    /\ IF Disposed
       THEN UNCHANGED <<failures, fatal, timer, caller>>
       ELSE IF attempt[c] = "pending"
            THEN CountFailure(None, None)
            ELSE /\ timer' = IF MayRespawn(None, None) THEN TRUE ELSE timer
                 /\ UNCHANGED <<failures, fatal, caller>>
    /\ flight' = IF flight = c THEN None ELSE flight

DetachedExits(c) ==
    /\ child # c
    /\ UNCHANGED <<child, recovery, caller, flight>>

\* An exit confirms a retirement, whatever asked for it.
ProcessExits(c) ==
    /\ resumed = {}
    /\ Alive(c)
    /\ proc' = [proc EXCEPT ![c] = "free"]
    /\ attempt' = [attempt EXCEPT ![c] = "none"]
    /\ retiring' = IF retiring = c THEN None ELSE retiring
    /\ joining' = (joining /\ retiring # c)
    /\ dismissed' = IF dismissed = c THEN None ELSE dismissed
    /\ CurrentExits(c) \/ DetachedExits(c)
    /\ UNCHANGED <<disposal, resumed, wanted, starts>>

\* Neither signal worked within the grace: the handle is kept.
JoinFails ==
    /\ resumed = {}
    /\ joining
    /\ joining' = FALSE
    /\ UNCHANGED <<proc, child, retiring, dismissed, attempt, recovery, disposal, caller,
                   resumed, supervisor>>

-----------------------------------------------------------------------------
(* Callers.                                                                *)

\* startSupervisor, restartSupervisor or a call: wait until initialized.
Request(r) ==
    /\ resumed = {}
    /\ caller[r].at = "idle"
    /\ \E op \in {"start", "restart", "call"} :
        /\ wanted' = (wanted \/ op # "call")
        /\ caller' = [caller EXCEPT ![r] = [op |-> op, at |->
                        IF Disposed \/ fatal THEN "refused"
                        ELSE IF ready THEN "resumed" ELSE "parked"]]
        /\ resumed' = IF ~Disposed /\ ~fatal /\ ready THEN {r} ELSE {}
    /\ UNCHANGED <<proc, handles, attempt, recovery, disposal, flight, starts>>

\* Fault: a start in flight is not shared.
EnsureStartUnshared ==
    IF child = None THEN UNCHANGED <<flight, starts>>
    ELSE flight' = child /\ starts' = [starts EXCEPT ![child] = @ + 1]

\* ensureSupervisorStartForChild(): one start per child, shared by everyone.
EnsureStart ==
    IF child = None \/ flight = child THEN UNCHANGED <<flight, starts>>
    ELSE flight' = child /\ starts' = [starts EXCEPT ![child] = @ + 1]

\* The continuation of a caller, or of the respawn hook.
Resume(r) ==
    /\ r \in resumed
    /\ resumed' = resumed \ {r}
    /\ IF r \in Callers
       THEN caller' = [caller EXCEPT ![r].at = "served"]
       ELSE UNCHANGED caller
    /\ IF r \in Callers /\ caller[r].op # "start" THEN UNCHANGED <<flight, starts>> ELSE EnsureStart
    /\ UNCHANGED <<proc, handles, attempt, recovery, disposal, wanted>>

\* The start was refused: a later explicit start may try again.
StartFails ==
    /\ resumed = {}
    /\ flight # None /\ flight = child
    /\ flight' = None
    /\ starts' = [starts EXCEPT ![flight] = @ - 1]
    /\ UNCHANGED <<proc, handles, attempt, recovery, disposal, caller, resumed, wanted>>

\* A caller is answered and may come back; a parked one may run out of patience.
CallerLeaves(r) ==
    /\ resumed = {}
    /\ caller[r].at \in {"served", "refused", "parked"}
    /\ caller' = [caller EXCEPT ![r].at = "idle"]
    /\ UNCHANGED <<proc, handles, attempt, recovery, disposal, resumed, supervisor>>

-----------------------------------------------------------------------------
(* disposeAsync()                                                          *)

BeginDispose ==
    /\ resumed = {}
    /\ ~Disposed
    /\ SettleWaiters("parked", "refused")
    /\ timer' = FALSE
    /\ IF child # None
       THEN disposal' = "draining" /\ UNCHANGED <<retiring, joining>>
       ELSE disposal' = "joining" /\ joining' = (retiring # None) /\ UNCHANGED retiring
    /\ UNCHANGED <<proc, child, dismissed, attempt, ready, failures, fatal, resumed, supervisor>>

\* The dispose request was answered or its window closed: detach and retire.
DrainEnds ==
    /\ resumed = {}
    /\ disposal = "draining"
    /\ disposal' = "joining"
    /\ child' = None
    /\ IF child = None THEN UNCHANGED <<retiring, joining>> ELSE BeginRetire(child)
    /\ UNCHANGED <<proc, dismissed, attempt, recovery, caller, resumed, supervisor>>

DisposeSettles ==
    /\ resumed = {}
    /\ disposal = "joining" /\ ~joining
    /\ disposal' = IF retiring # None THEN "open" ELSE "done"
    /\ UNCHANGED <<proc, handles, attempt, recovery, caller, resumed, supervisor>>

\* A later disposeAsync retries the join on the handle that was kept.
DisposeAgain ==
    /\ resumed = {}
    /\ disposal = "open"
    /\ disposal' = "joining"
    /\ joining' = (retiring # None)
    /\ UNCHANGED <<proc, child, retiring, dismissed, attempt, recovery, caller, resumed, supervisor>>

-----------------------------------------------------------------------------
ClientNext ==
    \/ TimerFires \/ JoinFails \/ StartFails
    \/ BeginDispose \/ DrainEnds \/ DisposeSettles \/ DisposeAgain
    \/ \E c \in Slots : InitializeSucceeds(c) \/ InitializeFails(c) \/ ChannelFails(c) \/ ProcessExits(c)
    \/ \E r \in Callers : Request(r) \/ CallerLeaves(r)
    \/ \E r \in Callers \cup {None} : Resume(r)

ClientSpec == ClientInit /\ [][ClientNext]_clientVars

(* Timers fire, the initialization deadline expires, a signalled process     *)
(* ends, and due continuations run.                                          *)
ClientFairness ==
    /\ WF_clientVars(TimerFires)
    /\ WF_clientVars(DrainEnds)
    /\ \A c \in Slots : WF_clientVars(InitializeFails(c))
    /\ \A c \in Slots : WF_clientVars(retiring = c /\ ProcessExits(c))
    /\ \A r \in Callers \cup {None} : WF_clientVars(Resume(r))

ClientFairSpec == ClientSpec /\ ClientFairness

-----------------------------------------------------------------------------
Handle == Slots \cup {None}

ClientTypeOK ==
    /\ proc \in [Slots -> {"free", "alive", "failed"}]
    /\ child \in Handle /\ retiring \in Handle /\ dismissed \in Handle /\ flight \in Handle
    /\ joining \in BOOLEAN /\ ready \in BOOLEAN /\ fatal \in BOOLEAN /\ timer \in BOOLEAN
    /\ wanted \in BOOLEAN
    /\ attempt \in [Slots -> {"none", "pending", "done"}]
    /\ failures \in 0..MaxFailures
    /\ disposal \in {"no", "draining", "joining", "open", "done"}
    /\ caller \in [Callers -> [op : {"start", "restart", "call"},
                               at : {"idle", "parked", "resumed", "served", "refused"}]]
    /\ resumed \subseteq Callers \cup {None}
    /\ starts \in [Slots -> Nat]

(* No successor is admitted while a predecessor may still hold the data fence *)
(* or its port: two backend processes of one desktop never live side by side. *)
OneBackendAlive == \A c, d \in Slots : Alive(c) /\ Alive(d) => c = d

(* The last handle to a live process is never dropped, also when a bounded    *)
(* join failed: a later disposal can still reach it.                          *)
NoBackendLost == \A c \in Slots : Alive(c) => c \in {child, retiring}

(* Each generation gets at most one start-supervisor that did not fail,       *)
(* however many callers and respawn hooks ask for it.                         *)
StartedOnce == \A c \in Slots : starts[c] <= 1

(* What the next attempt waits for: the armed timer, the answer of the       *)
(* current attempt, or the exit of a process that still lives.               *)
Recovering ==
    \/ timer
    \/ child # None /\ attempt[child] = "pending"
    \/ Alive(child) \/ Alive(retiring)

(* No failed initialization, a failed fork included, is the last one: short   *)
(* of the fatal error and of disposal, something will bring up a successor.   *)
FailureIsRetried == ~Disposed /\ ~fatal /\ ~ready => Recovering

(* After giving up, or after disposal, no child is ever forked again.         *)
NoForkAfterEnd == [][fatal \/ Disposed => child' \in {child, None}]_clientVars

(* Every parked caller is eventually served, refused or gone, without help    *)
(* from its own timeout.                                                      *)
ParkedCallersSettle == \A r \in Callers : caller[r].at = "parked" ~> caller[r].at # "parked"
=============================================================================

----------------------------- MODULE DurableLog -----------------------------
(***************************************************************************)
(* What the write queue promises about the runtime events of each thread:  *)
(* accepted[t] are the events accepted and not superseded, in the order    *)
(* they were accepted, and the first durable[t] of them are rows of the    *)
(* database.  Events are numbered; a new one is later than all before it.  *)
(* gaps are the threads the database says missed an event.                 *)
(***************************************************************************)
EXTENDS Integers, Sequences

CONSTANTS
    Threads,    \* chat threads
    MaxSeq      \* bound: events ever accepted

VARIABLES
    accepted,   \* the accepted events of each thread
    durable,    \* how many of them are in the database
    gaps,       \* threads with a durable gap
    running     \* whether a process has the database open

vars == <<accepted, durable, gaps, running>>

Prefix(t, n) == SubSeq(accepted[t], 1, n)
Later(s, e) == \A i \in DOMAIN s : s[i] < e

Init ==
    /\ accepted = [t \in Threads |-> <<>>]
    /\ durable = [t \in Threads |-> 0]
    /\ gaps = {}
    /\ running = TRUE

\* Rows are only ever added in order, with or without a newly accepted event, and a gap
\* once recorded stays.
Grow(t) ==
    /\ \/ accepted'[t] = accepted[t]
       \/ \E e \in 1 .. MaxSeq :
            Later(accepted[t], e) /\ accepted'[t] = Append(accepted[t], e)
    /\ durable'[t] \in durable[t] .. Len(accepted'[t])
    /\ t \in gaps => t \in gaps'

\* A truncation cuts rows; what was not written yet stays accepted.
Truncate(t) ==
    \E n \in durable[t] .. Len(accepted[t]), k \in 0 .. Len(accepted[t]) :
        /\ k <= n
        /\ accepted'[t] = Prefix(t, k) \o SubSeq(accepted[t], n + 1, Len(accepted[t]))
        /\ durable'[t] = k
        /\ t \in gaps' <=> t \in gaps

\* A rebase or a deletion supersedes the whole transcript, and any gap in it.
Rebase(t) == accepted'[t] = <<>> /\ durable'[t] = 0 /\ t \notin gaps'

\* What was not written is dropped.
LoseSuffix(t) == accepted'[t] = Prefix(t, durable[t]) /\ durable'[t] = durable[t]

\* A gap may be accepted as it is: the rows there are become the transcript.
Acknowledge(t) == t \in gaps /\ t \notin gaps' /\ LoseSuffix(t)

\* An orderly close writes everything.
Close == \A t \in Threads : Grow(t) /\ accepted'[t] = accepted[t] /\ durable'[t] = Len(accepted'[t])

Die == gaps' = gaps /\ \A t \in Threads : LoseSuffix(t)

Next ==
    /\ accepted' = [t \in Threads |-> accepted'[t]]
    /\ durable' = [t \in Threads |-> durable'[t]]
    /\ \/ running' = running /\ \A t \in Threads : Grow(t)
       \/ /\ running' = running
          /\ \E t \in Threads :
                /\ Truncate(t) \/ Rebase(t) \/ Acknowledge(t)
                /\ \A u \in Threads \ {t} : Grow(u)
       \/ running /\ ~running' /\ (Close \/ Die)
       \/ ~running /\ running' /\ UNCHANGED <<accepted, durable, gaps>>

Spec == Init /\ [][Next]_vars
=============================================================================
